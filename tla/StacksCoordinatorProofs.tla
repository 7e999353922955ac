----------------------- MODULE StacksCoordinatorProofs -----------------------
(***************************************************************************)
(* What the stacks-coordinator promises, for every set of operations and   *)
(* worlds, any fees and retry limits, and any number of starts, stops and  *)
(* lost answers: its Stacks transactions never leave a gap of nonces; the  *)
(* key the contract announces can be signed for after a restart; an        *)
(* operation is carried out as often as it was handed out, in full, and    *)
(* only if it can be; a fulfilment pays the amount and gives the rest      *)
(* back, whatever order the node lists the UTXOs in; and a burn that was   *)
(* accepted is paid unless there is a fault.                               *)
(***************************************************************************)
EXTENDS StacksCoordinator, FiniteSetTheorems, WellFoundedInduction, TLAPS

-----------------------------------------------------------------------------
(* Nonces.                                                                 *)

Used(n) == \E t \in txs : t.nonce = n

AllUsedBelow(n) == \A m \in Nat : m < n => Used(m)

\* The nonces of accepted transactions are an initial segment of Nat, each
\* taken once, and the mined ones are an initial segment of those.
TakenNonces ==
    /\ account_nonce \in Nat
    /\ AllUsedBelow(account_nonce)
    /\ \A t \in txs : t.nonce \in Nat /\ AllUsedBelow(t.nonce)
    /\ \A t, u \in txs : t.nonce = u.nonce => t = u

\* While a transaction is being broadcast its nonce is at most the first free
\* one; otherwise the cached nonce, if there is one, is taken.
CachedNonce ==
    /\ pc = "broadcast" =>
          next_nonce \in Nat /\ nonce = next_nonce /\ AllUsedBelow(next_nonce)
    /\ pc # "broadcast" /\ next_nonce # None =>
          next_nonce \in Nat /\ Used(next_nonce) /\ AllUsedBelow(next_nonce)

NonceInv == TakenNonces /\ CachedNonce

\* What the node's answers say of the nonce: an accepted one is free and not
\* yet passed, a conflicting one is taken.
LEMMA RepliesNonce ==
    ASSUME TakenNonces, NEW n \in Nat, NEW fee
    PROVE  /\ Ok("accepted") \in Replies(n, fee) => n >= account_nonce /\ ~Used(n)
           /\ Err([kind |-> "ConflictingNonceInMempool"]) \in Replies(n, fee) => Used(n)
<1>1. ASSUME Ok("accepted") \in Replies(n, fee)
      PROVE  Refusals(n, fee) = {}
  <2> SUFFICES Ok("accepted") \notin Refusals(n, fee)
    BY <1>1 DEF Replies
  <2> QED
    BY DEF Refusals, Ok, Err
<1>2. ASSUME Refusals(n, fee) = {}
      PROVE  n >= account_nonce /\ ~ \E t \in Mempool : t.nonce = n
  <2>1. \A t \in Mempool : t.nonce # n
    BY <1>2 DEF Refusals
  <2>2. ~(n < account_nonce)
    BY <1>2 DEF Refusals
  <2> QED
    BY <2>1, <2>2 DEF TakenNonces
<1>3. ASSUME Err([kind |-> "ConflictingNonceInMempool"]) \in Replies(n, fee)
      PROVE  \E t \in Mempool : t.nonce = n
  <2>1. Err([kind |-> "ConflictingNonceInMempool"]) \in Refusals(n, fee)
    BY <1>3 DEF Replies, Ok, Err
  <2> QED
    BY <2>1 DEF Refusals, Err
<1> QED
  BY <1>1, <1>2, <1>3 DEF TakenNonces, Used, Mempool

\* A step that neither touches the mempool nor takes a nonce, and is not about
\* a transaction in hand, keeps or forgets the cached nonce.
LEMMA NoNonceTaken ==
    ASSUME NonceInv, UNCHANGED <<txs, account_nonce>>,
           pc # "broadcast" \/ next_nonce' = None, pc' # "broadcast",
           next_nonce' = next_nonce \/ next_nonce' = None
    PROVE  NonceInv'
BY DEF NonceInv, TakenNonces, CachedNonce, AllUsedBelow, Used

\* A transaction the node accepts takes the first free nonce.
LEMMA NonceTaken ==
    ASSUME NonceInv, pc = "broadcast", NEW call, NEW arg,
           Ok("accepted") \in Replies(nonce, self.fee), Accept(nonce, call, arg),
           UNCHANGED account_nonce, pc' # "broadcast",
           next_nonce' = next_nonce \/ next_nonce' = None
    PROVE  NonceInv'
<1>1. PICK k \in Nat : k = nonce /\ k = next_nonce
  BY DEF NonceInv, CachedNonce
<1>2. k >= account_nonce /\ ~Used(k) /\ AllUsedBelow(k)
  BY <1>1, RepliesNonce DEF NonceInv, CachedNonce
<1>3. txs' = txs \cup {[nonce |-> k, call |-> call, arg |-> arg]}
  BY <1>1 DEF Accept, build_transaction_signed
<1>4. Used(k)' /\ \A n \in Nat : Used(n) => Used(n)'
  <2>1. [nonce |-> k, call |-> call, arg |-> arg] \in txs' /\ txs \subseteq txs'
    BY <1>3
  <2> QED
    BY <2>1 DEF Used
<1>5. \A n \in Nat : AllUsedBelow(n) => AllUsedBelow(n)'
  BY <1>4 DEF AllUsedBelow
<1>6. TakenNonces'
  BY <1>2, <1>3, <1>5 DEF NonceInv, TakenNonces, Used
<1> QED
  BY <1>1, <1>2, <1>4, <1>5, <1>6 DEF NonceInv, CachedNonce

\* At the start no nonce is taken and none is cached.
LEMMA InitNonceInv == Init => NonceInv
BY DEF Init, NodeInit, NonceInv, TakenNonces, CachedNonce, AllUsedBelow, Used

\* One step per action that is about a nonce; the others are NoNonceTaken.
LEMMA NextNonceInv ==
    ASSUME NonceInv, [Next]_vars
    PROVE  NonceInv'
<1> USE DEF nodeVars
<1>1. CASE UNCHANGED vars
  BY <1>1 DEF vars, procVars, NonceInv, TakenNonces, CachedNonce, AllUsedBelow, Used
<1>2. ASSUME NEW cli \in world.clis, Start(cli)
      PROVE  NonceInv'
  BY <1>2, NoNonceTaken DEF Start
<1>3. CASE create_frost_coordinator_from_path
  BY <1>3, NoNonceTaken DEF create_frost_coordinator_from_path, Step, Exit
<1>4. CASE create_frost_coordinator_from_contract
  BY <1>4, NoNonceTaken DEF create_frost_coordinator_from_contract, Step, Exit
<1>5. CASE load_dkg_data
  BY <1>5, NoNonceTaken DEF load_dkg_data, Step, Exit
<1>6. CASE run_distributed_key_generation
  BY <1>6, NoNonceTaken DEF run_distributed_key_generation, SetKey, Step
<1>7. CASE write_dkg_public_shares
  BY <1>7, NoNonceTaken DEF write_dkg_public_shares, SetKey, Step
<1>8. CASE LoadWallet
  BY <1>8, NoNonceTaken DEF LoadWallet, Step
<1>9. CASE ImportAddress
  BY <1>9, NoNonceTaken DEF ImportAddress, Step
<1>10. CASE OpenQueue
  BY <1>10, NoNonceTaken DEF OpenQueue
<1>11. CASE run_dkg_round
  BY <1>11, NoNonceTaken DEF run_dkg_round, Exit
<1>12. CASE NextNonce
  <2>1. PICK n \in 0..MaxNonce : take_nonce(n) /\ nonce' = n
    BY <1>12 DEF NextNonce
  <2>2. n \in Nat /\ pc = "nonce" /\ pc' = "broadcast" /\ next_nonce' = n
        /\ UNCHANGED <<txs, account_nonce>>
    BY <1>12, <2>1, ClientAssumption DEF NextNonce, take_nonce
  <2>3. AllUsedBelow(n)
    BY <2>1, <2>2, ClientAssumption
    DEF take_nonce, FollowingNonce, NonceInv, TakenNonces, CachedNonce, AllUsedBelow
  <2> QED
    BY <2>1, <2>2, <2>3 DEF NonceInv, TakenNonces, CachedNonce, AllUsedBelow, Used
<1>13. CASE BuildFails
  BY <1>13, NoNonceTaken DEF BuildFails, Exit
<1>14. CASE Accepted
  <2>1. pc' # "broadcast"
    BY <1>14 DEF Accepted
  <2> QED
    BY <1>14, <2>1, NonceTaken DEF Accepted, Posted
<1>15. CASE ConflictingNonce
  <2>1. Used(nonce) /\ pc = "broadcast"
    BY <1>15, RepliesNonce DEF ConflictingNonce, Posted, NonceInv, CachedNonce
  <2>2. CASE Exit
    BY <1>15, <2>2, NoNonceTaken DEF ConflictingNonce, Exit
  <2>3. CASE pc' = "nonce" /\ UNCHANGED <<nonce, next_nonce, txs, account_nonce>>
    BY <2>1, <2>3 DEF NonceInv, TakenNonces, CachedNonce, AllUsedBelow, Used
  <2> QED
    BY <1>15, <2>2, <2>3 DEF ConflictingNonce, Step
<1>16. CASE FeeTooLow
  <2>1. UNCHANGED <<txs, account_nonce>>
    BY <1>16 DEF FeeTooLow
  <2>2. CASE Exit
    BY <2>1, <2>2, NoNonceTaken DEF Exit
  <2>3. CASE pc = "broadcast" /\ pc' = "broadcast" /\ UNCHANGED <<nonce, next_nonce>>
    BY <2>1, <2>3 DEF NonceInv, TakenNonces, CachedNonce, AllUsedBelow, Used
  <2> QED
    BY <1>16, <2>2, <2>3 DEF FeeTooLow, Posted, Step
<1>17. CASE Refused
  BY <1>17, NoNonceTaken DEF Refused, Exit
<1>18. ASSUME NEW o \in Op, TakeOp(o)
       PROVE  NonceInv'
  BY <1>18, NoNonceTaken DEF TakeOp
<1>19. CASE FulfillPegOut
  <2>1. Exit \/ (pc' = "sign" /\ UNCHANGED next_nonce)
    BY <1>19 DEF FulfillPegOut, Step
  <2> QED
    BY <1>19, <2>1, NoNonceTaken DEF FulfillPegOut, Exit
<1>20. CASE SignInputs
  BY <1>20, NoNonceTaken DEF SignInputs, Step, Exit
<1>21. CASE BroadcastBitcoin
  BY <1>21, NoNonceTaken DEF BroadcastBitcoin, Exit
<1>22. CASE KeyGenerationFails
  BY <1>22, NoNonceTaken DEF KeyGenerationFails, Exit
<1>23. CASE StoppedWhileWriting
  BY <1>23, NoNonceTaken DEF StoppedWhileWriting, Exit
<1>24. CASE ImportRefused
  BY <1>24, NoNonceTaken DEF ImportRefused
<1>25. CASE AcceptedUnheard
  BY <1>25, NonceTaken DEF AcceptedUnheard, Posted, Exit
<1>26. CASE Fail
  BY <1>26, NoNonceTaken DEF Fail, Exit
<1>27. CASE MineStep
  <2>1. PICK t \in Mempool : t.nonce = account_nonce
    BY <1>27 DEF MineStep, Mine
  <2>2. t \in txs
    BY DEF Mempool
  <2>3. /\ account_nonce' = account_nonce + 1
        /\ UNCHANGED <<txs, next_nonce, pc, nonce>>
    BY <1>27 DEF MineStep, Mine
  <2>4. AllUsedBelow(account_nonce + 1)
    BY <2>1, <2>2 DEF NonceInv, TakenNonces, AllUsedBelow, Used
  <2> QED
    BY <2>3, <2>4 DEF NonceInv, TakenNonces, CachedNonce, AllUsedBelow, Used
<1>28. CASE RaiseFeeStep
  BY <1>28 DEF RaiseFeeStep, RaiseFee, NonceInv, TakenNonces, CachedNonce, AllUsedBelow, Used
<1>29. ASSUME NEW o \in Op, Request(o)
       PROVE  NonceInv'
  BY <1>29 DEF Request, procVars, NonceInv, TakenNonces, CachedNonce, AllUsedBelow, Used
<1>30. CASE HoursPassStep
  BY <1>30 DEF HoursPassStep, procVars, NonceInv, TakenNonces, CachedNonce, AllUsedBelow, Used
<1> QED
  BY <1>1, <1>2, <1>3, <1>4, <1>5, <1>6, <1>7, <1>8, <1>9, <1>10, <1>11, <1>12, <1>13,
     <1>14, <1>15, <1>16, <1>17, <1>18, <1>19, <1>20, <1>21, <1>22, <1>23, <1>24, <1>25,
     <1>26, <1>27, <1>28, <1>29, <1>30
  DEF Next, Process, Faults

\* NoNonceGap holds always: whatever fails, is retried or loses its answer, no
\* transaction of the coordinator waits behind a nonce nobody took, and no two
\* share one (NodeClient::next_nonce with try_broadcast_transaction).
THEOREM NoncesHaveNoGap == Spec => []NoNonceGap
<1>1. NonceInv => NoNonceGap
  <2> SUFFICES ASSUME NonceInv, NEW t \in Mempool, NEW n \in account_nonce..t.nonce
               PROVE  \E u \in txs : u.nonce = n
    BY DEF NoNonceGap, NonceInv, TakenNonces
  <2>1. t \in txs
    BY DEF Mempool
  <2> QED
    BY <2>1 DEF NonceInv, TakenNonces, AllUsedBelow, Used
<1> QED
  BY InitNonceInv, NextNonceInv, <1>1, PTL DEF Spec

-----------------------------------------------------------------------------
(* The key.                                                                *)

\* What the wallet builds: a function of the contract and its argument.
Task(call, arg) == [call |-> call, arg |-> arg]

LEMMA Built ==
    /\ \A o : build_transaction(o) = Task(IF PegIn(o) THEN "mint!" ELSE "burn!", o)
    /\ \A k : build_set_bitcoin_wallet_public_key_transaction(k)
                  = Task("set-bitcoin-wallet-public-key", k)
    /\ \A a : build_set_coordinator_data_transaction(a) = Task("set-coordinator-data", a)
BY DEF Task, build_transaction, build_set_bitcoin_wallet_public_key_transaction,
       build_set_coordinator_data_transaction

Fields == {"config", "command", "key", "shares", "fee", "cur", "task", "marked",
           "nonce_retries", "fee_retries", "fulfill_tx"}

OnDisk == world.raw.data_directory # None
SettingKey ==
    pc \in {"nonce", "broadcast"} /\ self.task.call = "set-bitcoin-wallet-public-key"

\* What is announced is the signers' key, and then it is also in the file.
KeyAnnounced ==
    /\ DOMAIN contract = {"coordinator", "key"}
    /\ ~rekeyed => \A k \in Announced : k = signer_key /\ (OnDisk => file.key = signer_key)

\* What the process remembers of the key is the signers'; it is in the file
\* before its transaction is built, and nothing is announced before that.
KeyRemembered ==
    /\ DOMAIN self = Fields
    /\ pc # "down" => self.config.data_directory = world.raw.data_directory
    /\ ~rekeyed =>
          /\ self.shares # None => self.shares = signer_key /\ self.key = signer_key
          /\ pc = "write" => self.key = signer_key /\ Announced = {}
          /\ SettingKey => self.task.arg = signer_key /\ (OnDisk => file.key = signer_key)

KeyInv == KeyAnnounced /\ KeyRemembered

\* A process that ends leaves behind what is announced.
LEMMA KeyAfterExit ==
    ASSUME KeyInv, Exit,
           UNCHANGED <<txs, account_nonce, contract, signer_key, file, rekeyed, world>>
    PROVE  KeyInv'
BY DEF KeyInv, KeyAnnounced, KeyRemembered, Announced, Mempool, Exit, NoProcess, Fields,
       SettingKey, OnDisk

\* A step that is not about the key: the process goes on with the same one.
LEMMA KeyKept ==
    ASSUME KeyInv, pc # "down", pc' # "write",
           UNCHANGED <<txs, account_nonce, contract, signer_key, file, rekeyed, world>>,
           DOMAIN self' = Fields, UNCHANGED <<self.config, self.key, self.shares>>,
           SettingKey' => SettingKey /\ UNCHANGED self.task
    PROVE  KeyInv'
BY DEF KeyInv, KeyAnnounced, KeyRemembered, Announced, Mempool, SettingKey, OnDisk

\* A transaction that is accepted announces at most the key being set.
LEMMA AnnouncedByAccept ==
    ASSUME UNCHANGED <<contract, account_nonce>>, NEW n, NEW call, NEW arg,
           Accept(n, call, arg)
    PROVE  Announced' \subseteq
               Announced \cup (IF call = "set-bitcoin-wallet-public-key" THEN {arg} ELSE {})
BY DEF Accept, build_transaction_signed, Announced, Mempool

\* A block announces nothing new.
LEMMA AnnouncedByMine ==
    ASSUME TakenNonces, Mine, DOMAIN contract = {"coordinator", "key"}
    PROVE  Announced' \subseteq Announced /\ DOMAIN contract' = {"coordinator", "key"}
<1>1. PICK t \in Mempool :
         /\ t.nonce = account_nonce
         /\ account_nonce' = account_nonce + 1
         /\ contract' = CASE t.call = "set-coordinator-data" -> set_coordinator_data(t.arg)
                          [] t.call = "set-bitcoin-wallet-public-key" ->
                                set_bitcoin_wallet_public_key(t.arg)
                          [] OTHER -> contract
         /\ UNCHANGED <<txs, required_fee, next_nonce>>
  BY DEF Mine
<1>2. Mempool' \subseteq Mempool
  BY <1>1 DEF Mempool, TakenNonces
<1>3. contract'.key = contract.key
      \/ (contract'.key = t.arg /\ t.call = "set-bitcoin-wallet-public-key")
  BY <1>1 DEF set_coordinator_data, set_bitcoin_wallet_public_key
<1>4. DOMAIN contract' = {"coordinator", "key"}
  BY <1>1 DEF set_coordinator_data, set_bitcoin_wallet_public_key
<1> QED
  BY <1>2, <1>3, <1>4 DEF Announced

\* At the start there is no key.
LEMMA InitKeyInv == Init => KeyInv
BY DEF Init, NodeInit, KeyInv, KeyAnnounced, KeyRemembered, Announced, Mempool, NoProcess,
       Fields, SettingKey, OnDisk

\* A new round: unless a key was announced before it, none is announced now,
\* and the process either forgets the old key or takes the new one.
LEMMA KeyAfterNewRound ==
    ASSUME KeyInv, NewRound, UNCHANGED <<txs, account_nonce, contract, world>>,
           \/ Exit
           \/ /\ pc # "down" /\ DOMAIN self' = Fields /\ UNCHANGED self.config
              /\ self'.key = signer_key' /\ self'.shares = signer_key'
              /\ SettingKey' => self'.task.arg = signer_key' /\ ~OnDisk
    PROVE  KeyInv'
<1>1. Announced' = Announced
  BY DEF Announced, Mempool
<1>2. ~rekeyed' => ~rekeyed /\ Announced = {}
  BY DEF NewRound
<1>3. KeyAnnounced'
  BY <1>1, <1>2 DEF KeyInv, KeyAnnounced
<1>4. CASE Exit
  BY <1>3, <1>4 DEF KeyInv, KeyRemembered, Exit, NoProcess, Fields, SettingKey
<1>5. CASE ~Exit
  BY <1>1, <1>2, <1>3, <1>5 DEF KeyInv, KeyRemembered, OnDisk
<1> QED
  BY <1>4, <1>5

\* One step per action; NonceInv is needed where a block is mined.
LEMMA NextKeyInv ==
    ASSUME NonceInv, KeyInv, [Next]_vars
    PROVE  KeyInv'
<1> USE DEF nodeVars, keyVars
<1>0. DOMAIN self = Fields
  BY DEF KeyInv, KeyRemembered
<1>1. CASE UNCHANGED vars
  BY <1>1 DEF vars, procVars, KeyInv, KeyAnnounced, KeyRemembered, Announced, Mempool,
              SettingKey, OnDisk
<1>2. ASSUME NEW cli \in world.clis, Start(cli)
      PROVE  KeyInv'
  <2>1. KeyAnnounced' /\ Announced' = Announced
    BY <1>2 DEF Start, KeyInv, KeyAnnounced, Announced, Mempool, OnDisk
  <2>2. CASE C!Starts(world.raw, cli)
    <3>1. C!Configured(world.raw, cli).data_directory = world.raw.data_directory
      BY DEF C!Configured, C!Config
    <3>2. /\ pc' = "coordinator" /\ UNCHANGED <<world, rekeyed>>
          /\ self' = [NoProcess EXCEPT !.config = C!Configured(world.raw, cli),
                        !.command = cli.command,
                        !.fee = C!Configured(world.raw, cli).transaction_fee]
      BY <1>2, <2>2 DEF Start
    <3> QED
      BY <2>1, <3>1, <3>2 DEF KeyInv, KeyRemembered, NoProcess, Fields, SettingKey
  <2>3. CASE ~C!Starts(world.raw, cli)
    BY <1>2, <2>1, <2>3 DEF Start, KeyInv, KeyRemembered, SettingKey, OnDisk
  <2> QED
    BY <2>2, <2>3
<1>3. CASE create_frost_coordinator_from_path
  <2>0. UNCHANGED <<txs, account_nonce, contract, signer_key, file, rekeyed, world>>
    BY <1>3 DEF create_frost_coordinator_from_path, Step, Stays
  <2>1. CASE Exit
    BY <2>0, <2>1, KeyAfterExit
  <2>2. CASE ~Exit
    <3>1. /\ pc = "coordinator" /\ pc' \in {"dkg_data", "nonce"}
          /\ \/ pc' = "dkg_data" /\ self' = self
             \/ self' = [self EXCEPT !.task = Task("set-coordinator-data", ADDRESS)]
      BY <1>3, <2>2, Built DEF create_frost_coordinator_from_path, Step
    <3>2. CASE pc' = "dkg_data" /\ self' = self
      BY <1>0, <2>0, <3>1, <3>2, KeyKept DEF SettingKey
    <3>3. CASE self' = [self EXCEPT !.task = Task("set-coordinator-data", ADDRESS)]
      <4>1. /\ self'.config = self.config /\ self'.key = self.key
            /\ self'.shares = self.shares /\ DOMAIN self' = Fields
            /\ self'.task.call = "set-coordinator-data"
        BY <1>0, <3>3 DEF Fields, Task
      <4> QED
        BY <2>0, <3>1, <4>1, KeyKept DEF SettingKey
    <3> QED
      BY <3>1, <3>2, <3>3
  <2> QED
    BY <2>1, <2>2
<1>4. CASE create_frost_coordinator_from_contract
  BY <1>0, <1>4, KeyKept, KeyAfterExit
  DEF create_frost_coordinator_from_contract, Step, Stays, SettingKey
<1>5. CASE load_dkg_data
  <2>1. bitcoin_wallet_public_key(ClarityOptional(contract.key)).value = contract.key
    BY DEF bitcoin_wallet_public_key, ClarityOptional, Ok
  <2>2. UNCHANGED <<txs, account_nonce, contract, signer_key, file, rekeyed, world>>
        /\ pc = "dkg_data"
    BY <1>5 DEF load_dkg_data, Step, Stays
  <2>3. CASE contract.key = None
    BY <1>0, <1>5, <2>1, <2>2, <2>3, KeyKept DEF load_dkg_data, Step, SettingKey
  <2>4. CASE contract.key # None /\ ~Exit
    <3>1. contract.key \in Announced /\ Announced' = Announced
      BY <2>2, <2>4 DEF Announced, Mempool
    <3>2. /\ pc' = "wallet"
          /\ \/ InMemory /\ self' = [self EXCEPT !.key = contract.key]
             \/ ~InMemory /\ self' = [self EXCEPT !.key = contract.key, !.shares = file.key]
      BY <1>5, <2>1, <2>4 DEF load_dkg_data, Step
    <3>3. InMemory <=> ~OnDisk
      BY <2>2 DEF KeyInv, KeyRemembered, InMemory, OnDisk
    <3> QED
      BY <2>2, <3>1, <3>2, <3>3
      DEF KeyInv, KeyAnnounced, KeyRemembered, SettingKey, OnDisk, Fields
  <2>5. CASE Exit
    BY <2>2, <2>5, KeyAfterExit
  <2> QED
    BY <2>3, <2>4, <2>5
<1>6. CASE run_distributed_key_generation
  <2> DEFINE mem == [self EXCEPT !.key = signer_key + 1, !.shares = signer_key + 1]
  <2>1. /\ NewRound /\ UNCHANGED <<txs, account_nonce, contract, world>> /\ pc = "dkg"
        /\ signer_key' = signer_key + 1
        /\ \/ ~InMemory /\ pc' = "write" /\ self' = mem
           \/ /\ InMemory /\ pc' = "nonce"
              /\ self' = [mem EXCEPT !.task = Task("set-bitcoin-wallet-public-key", mem.key)]
    BY <1>6, Built DEF run_distributed_key_generation, SetKey, Step, NewRound
  <2>2. InMemory <=> ~OnDisk
    BY <2>1 DEF KeyInv, KeyRemembered, InMemory, OnDisk
  <2>3. DOMAIN mem = Fields /\ mem.config = self.config /\ mem.key = signer_key + 1
        /\ mem.shares = signer_key + 1 /\ mem.task = self.task
    BY <1>0 DEF Fields
  <2>5. CASE ~InMemory
    BY <2>1, <2>3, <2>5, KeyAfterNewRound DEF SettingKey
  <2>6. CASE InMemory
    <3> HIDE DEF mem
    <3>1. DOMAIN self' = Fields /\ self'.config = self.config /\ self'.key = signer_key'
          /\ self'.shares = signer_key' /\ self'.task.arg = signer_key'
      BY <2>1, <2>3, <2>6 DEF Task, Fields
    <3> QED
      BY <2>1, <2>2, <2>6, <3>1, KeyAfterNewRound
  <2> QED
    BY <2>5, <2>6
<1>7. CASE write_dkg_public_shares
  <2>1. /\ pc = "write" /\ pc' = "nonce" /\ file'.key = self.key
        /\ self' = [self EXCEPT !.task = Task("set-bitcoin-wallet-public-key", self.key)]
        /\ UNCHANGED <<txs, account_nonce, contract, signer_key, rekeyed, world>>
    BY <1>7, Built DEF write_dkg_public_shares, SetKey, Step
  <2>2. Announced' = Announced
    BY <2>1 DEF Announced, Mempool
  <2> QED
    BY <2>1, <2>2 DEF KeyInv, KeyAnnounced, KeyRemembered, OnDisk, Fields, Task, SettingKey
<1>8. CASE LoadWallet
  BY <1>0, <1>8, KeyKept DEF LoadWallet, Step, SettingKey, KeyInv, KeyRemembered
<1>9. CASE ImportAddress
  BY <1>0, <1>9, KeyKept DEF ImportAddress, Step, SettingKey, KeyInv, KeyRemembered
<1>10. CASE OpenQueue
  <2>1. /\ pc = "queue" /\ pc' \in {"idle", "round"}
        /\ self'.config = self.config /\ self'.key = self.key /\ self'.shares = self.shares
        /\ self'.task = self.task /\ DOMAIN self' = Fields
        /\ UNCHANGED <<txs, account_nonce, contract, signer_key, file, rekeyed, world>>
    BY <1>0, <1>10 DEF OpenQueue, Stays, Fields
  <2> QED
    BY <2>1, KeyKept DEF SettingKey, KeyInv, KeyRemembered
<1>11. CASE run_dkg_round
  BY <1>11, KeyAfterNewRound DEF run_dkg_round, Stays
<1>12. CASE NextNonce
  BY <1>0, <1>12, KeyKept DEF NextNonce, SettingKey
<1>13. CASE BuildFails
  BY <1>13, KeyAfterExit DEF BuildFails, Stays
<1>14. CASE Accepted
  <2>1. pc = "broadcast" /\ UNCHANGED <<contract, account_nonce, signer_key, file, rekeyed, world>>
        /\ pc' \notin {"down", "write", "nonce", "broadcast"}
    BY <1>14 DEF Accepted, Posted, Stays
  <2>2. /\ DOMAIN self' = Fields /\ self'.config = self.config
        /\ self'.key = self.key /\ self'.shares = self.shares 
    BY <1>0, <1>14 DEF Accepted, FinishOp, Fields
  <2>3. Announced' \subseteq Announced \cup
            (IF self.task.call = "set-bitcoin-wallet-public-key" THEN {self.task.arg} ELSE {})
    BY <1>14, <2>1, AnnouncedByAccept DEF Accepted
  <2> QED
    BY <2>1, <2>2, <2>3 DEF KeyInv, KeyAnnounced, KeyRemembered, SettingKey, OnDisk
<1>15. CASE ConflictingNonce
  <2>1. UNCHANGED <<txs, account_nonce, contract, signer_key, file, rekeyed, world>>
        /\ pc = "broadcast"
    BY <1>15 DEF ConflictingNonce, Posted, Step, Stays
  <2>2. Exit \/ (pc' = "nonce" /\ self' = [self EXCEPT !.nonce_retries = @ + 1])
    BY <1>15 DEF ConflictingNonce, Step
  <2> QED
    BY <1>0, <2>1, <2>2, KeyKept, KeyAfterExit DEF SettingKey, Fields
<1>16. CASE FeeTooLow
  <2>1. UNCHANGED <<txs, account_nonce, contract, signer_key, file, rekeyed, world>>
        /\ pc = "broadcast"
    BY <1>16 DEF FeeTooLow, Posted, Step, Stays
  <2>2. Exit \/ \E e : /\ pc' = "broadcast"
                       /\ self' = [self EXCEPT !.fee_retries = @ + 1, !.fee = e]
    BY <1>16 DEF FeeTooLow, Step
  <2> QED
    BY <1>0, <2>1, <2>2, KeyKept, KeyAfterExit DEF SettingKey, Fields
<1>17. CASE Refused
  BY <1>17, KeyAfterExit DEF Refused, Stays
<1>18. ASSUME NEW o \in Op, TakeOp(o)
       PROVE  KeyInv'
  <2>1. UNCHANGED <<txs, account_nonce, contract, signer_key, file, rekeyed, world>>
        /\ pc = "idle" /\ pc' \in {"nonce", "unspent"}
    BY <1>18 DEF TakeOp
  <2>2. /\ self'.config = self.config /\ self'.key = self.key
        /\ self'.shares = self.shares /\ DOMAIN self' = Fields
        /\ pc' = "nonce" => self'.task.call \in {"mint!", "burn!"}
    <3> DEFINE mem == [self EXCEPT !.cur = o,
                                   !.marked = IF InMemory THEN @ \cup {o} ELSE @]
    <3>1. /\ mem.config = self.config /\ mem.key = self.key
          /\ mem.shares = self.shares /\ DOMAIN mem = Fields
      BY <1>0 DEF Fields
    <3>2. \/ pc' = "nonce" /\ self' = [mem EXCEPT !.task = build_transaction(o)]
          \/ pc' = "unspent" /\ self' = mem
      BY <1>18 DEF TakeOp
    <3> HIDE DEF mem
    <3> QED
      BY <3>1, <3>2 DEF build_transaction, Fields
  <2> QED
    BY <2>1, <2>2, KeyKept DEF SettingKey
<1>19. CASE FulfillPegOut
  <2>1. UNCHANGED <<txs, account_nonce, contract, signer_key, file, rekeyed, world>>
        /\ pc = "unspent"
    BY <1>19 DEF FulfillPegOut, Step, Stays
  <2>2. Exit \/ \E tx : pc' = "sign" /\ self' = [self EXCEPT !.fulfill_tx = tx]
    BY <1>19 DEF FulfillPegOut, Step
  <2> QED
    BY <1>0, <2>1, <2>2, KeyKept, KeyAfterExit DEF SettingKey, Fields
<1>20. CASE SignInputs
  <2>1. UNCHANGED <<txs, account_nonce, contract, signer_key, file, rekeyed, world>>
        /\ pc = "sign"
    BY <1>20 DEF SignInputs, Step, Stays
  <2>2. Exit \/ (pc' = "nonce" /\ self' = [self EXCEPT !.task = build_transaction(self.cur)])
    BY <1>20 DEF SignInputs, Step
  <2>3. CASE ~Exit
    <3>1. /\ self'.config = self.config /\ self'.key = self.key
          /\ self'.shares = self.shares /\ DOMAIN self' = Fields
          /\ self'.task.call \in {"mint!", "burn!"}
      BY <1>0, <2>2, <2>3 DEF build_transaction, Fields
    <3> QED
      BY <2>1, <2>2, <2>3, <3>1, KeyKept DEF SettingKey
  <2> QED
    BY <2>1, <2>3, KeyAfterExit
<1>21. CASE BroadcastBitcoin
  <2>1. UNCHANGED <<txs, account_nonce, contract, signer_key, file, rekeyed, world>>
        /\ pc = "btc"
    BY <1>21 DEF BroadcastBitcoin, Stays, Fault
  <2>2. Exit \/ (pc' = "idle" /\ FinishOp)
    BY <1>21 DEF BroadcastBitcoin
  <2> QED
    BY <1>0, <2>1, <2>2, KeyKept, KeyAfterExit DEF SettingKey, Fields, FinishOp
<1>22. CASE KeyGenerationFails
  BY <1>22, KeyAfterNewRound DEF KeyGenerationFails, Fault
<1>23. CASE StoppedWhileWriting
  <2>1. /\ UNCHANGED <<txs, account_nonce, contract, signer_key, rekeyed, world>>
        /\ pc = "write" /\ pc' = "down" /\ self' = NoProcess
    BY <1>23 DEF StoppedWhileWriting, Exit, Fault
  <2>2. Announced' = Announced
    BY <2>1 DEF Announced, Mempool
  <2> QED
    BY <2>1, <2>2 DEF KeyInv, KeyAnnounced, KeyRemembered, NoProcess, Fields, SettingKey
<1>24. CASE ImportRefused
  BY <1>0, <1>24, KeyKept DEF ImportRefused, Fault, SettingKey
<1>25. CASE AcceptedUnheard
  <2>1. /\ UNCHANGED <<contract, account_nonce, signer_key, file, rekeyed, world>>
        /\ pc = "broadcast" /\ pc' = "down" /\ self' = NoProcess
    BY <1>25 DEF AcceptedUnheard, Posted, Exit, Fault
  <2>2. Announced' \subseteq Announced \cup
            (IF self.task.call = "set-bitcoin-wallet-public-key" THEN {self.task.arg} ELSE {})
    BY <1>25, <2>1, AnnouncedByAccept DEF AcceptedUnheard
  <2> QED
    BY <2>1, <2>2
    DEF KeyInv, KeyAnnounced, KeyRemembered, NoProcess, Fields, SettingKey, OnDisk
<1>26. CASE Fail
  BY <1>26, KeyAfterExit DEF Fail, Fault
<1>27. CASE MineStep
  <2>1. Announced' \subseteq Announced /\ DOMAIN contract' = {"coordinator", "key"}
    BY <1>27, AnnouncedByMine DEF MineStep, NonceInv, KeyInv, KeyAnnounced
  <2> QED
    BY <1>27, <2>1 DEF MineStep, KeyInv, KeyAnnounced, KeyRemembered, SettingKey, OnDisk
<1>28. CASE RaiseFeeStep
  BY <1>28 DEF RaiseFeeStep, RaiseFee, KeyInv, KeyAnnounced, KeyRemembered, SettingKey,
               OnDisk, Announced, Mempool
<1>29. ASSUME NEW o \in Op, Request(o)
       PROVE  KeyInv'
  BY <1>29 DEF Request, procVars, KeyInv, KeyAnnounced, KeyRemembered, SettingKey,
               OnDisk, Announced, Mempool
<1>30. CASE HoursPassStep
  BY <1>30 DEF HoursPassStep, procVars, KeyInv, KeyAnnounced, KeyRemembered, SettingKey,
               OnDisk, Announced, Mempool
<1> QED
  BY <1>1, <1>2, <1>3, <1>4, <1>5, <1>6, <1>7, <1>8, <1>9, <1>10, <1>11, <1>12, <1>13,
     <1>14, <1>15, <1>16, <1>17, <1>18, <1>19, <1>20, <1>21, <1>22, <1>23, <1>24, <1>25,
     <1>26, <1>27, <1>28, <1>29, <1>30
  DEF Next, Process, Faults

\* The first text written to the file is written over nothing.
FileInv ==
    /\ signer_key \in Nat
    /\ signer_key = 0 => file.len = 0 /\ file.key = None
    /\ pc = "write" => signer_key # 0 /\ (signer_key = 1 => file.len = 0)
    /\ signer_key = 1 /\ file.key # None => file.size = file.len

LEMMA FileKept ==
    ASSUME FileInv, UNCHANGED <<signer_key, file>>, pc' # "write" \/ UNCHANGED pc
    PROVE  FileInv'
BY DEF FileInv

LEMMA FileAfterNewRound ==
    ASSUME FileInv, NewRound
    PROVE  FileInv'
BY ClientAssumption DEF FileInv, NewRound

\* One step for each kind of action: rounds, writes, and the others.
LEMMA NextFileInv ==
    ASSUME FileInv, [Next]_vars
    PROVE  FileInv'
<1> USE DEF nodeVars, keyVars
<1>1. CASE \/ run_distributed_key_generation \/ run_dkg_round \/ KeyGenerationFails
  BY <1>1, FileAfterNewRound
  DEF run_distributed_key_generation, run_dkg_round, KeyGenerationFails
<1>2. CASE write_dkg_public_shares
  <2>1. PICK size \in JsonSize :
           file' = [key |-> self.key, size |-> size, len |-> Longer(file.len, size)]
    BY <1>2 DEF write_dkg_public_shares
  <2>2. size \in Nat
    BY CoordinatorAssumption
  <2>3. pc = "write" /\ pc' = "nonce" /\ UNCHANGED signer_key
    BY <1>2 DEF write_dkg_public_shares, SetKey, Step
  <2>4. signer_key = 1 => file'.size = file'.len
    BY <2>1, <2>2, <2>3 DEF FileInv, Longer
  <2> QED
    BY <2>3, <2>4 DEF FileInv
<1>3. CASE StoppedWhileWriting
  BY <1>3 DEF StoppedWhileWriting, Exit, FileInv
<1>4. CASE UNCHANGED vars
  BY <1>4, FileKept DEF vars, procVars
<1>5. ASSUME NEW cli \in world.clis, Start(cli)
      PROVE  FileInv'
  BY <1>5, FileKept DEF Start
<1>6. ASSUME NEW o \in Op, TakeOp(o) \/ Request(o)
      PROVE  FileInv'
  BY <1>6, FileKept DEF TakeOp, Request, procVars
<1>7. CASE create_frost_coordinator_from_path
  BY <1>7, FileKept DEF create_frost_coordinator_from_path, Step, Exit
<1>8. CASE create_frost_coordinator_from_contract
  BY <1>8, FileKept DEF create_frost_coordinator_from_contract, Step, Exit
<1>9. CASE load_dkg_data
  BY <1>9, FileKept DEF load_dkg_data, Step, Exit
<1>10. CASE LoadWallet
  BY <1>10, FileKept DEF LoadWallet, Step, Exit
<1>11. CASE ImportAddress
  BY <1>11, FileKept DEF ImportAddress, Step, Exit
<1>12. CASE OpenQueue
  BY <1>12, FileKept DEF OpenQueue, Step, Exit
<1>13. CASE NextNonce
  BY <1>13, FileKept DEF NextNonce, Step, Exit
<1>14. CASE BuildFails
  BY <1>14, FileKept DEF BuildFails, Step, Exit
<1>15. CASE Accepted
  BY <1>15, FileKept DEF Accepted, Step, Exit
<1>16. CASE ConflictingNonce
  BY <1>16, FileKept DEF ConflictingNonce, Step, Exit
<1>17. CASE FeeTooLow
  BY <1>17, FileKept DEF FeeTooLow, Step, Exit
<1>18. CASE Refused
  BY <1>18, FileKept DEF Refused, Step, Exit
<1>19. CASE FulfillPegOut
  BY <1>19, FileKept DEF FulfillPegOut, Step, Exit
<1>20. CASE SignInputs
  BY <1>20, FileKept DEF SignInputs, Step, Exit
<1>21. CASE BroadcastBitcoin
  BY <1>21, FileKept DEF BroadcastBitcoin, Step, Exit
<1>22. CASE ImportRefused
  BY <1>22, FileKept DEF ImportRefused
<1>23. CASE AcceptedUnheard
  BY <1>23, FileKept DEF AcceptedUnheard, Step, Exit
<1>24. CASE Fail
  BY <1>24, FileKept DEF Fail, Step, Exit
<1>25. CASE MineStep
  BY <1>25, FileKept DEF MineStep
<1>26. CASE RaiseFeeStep
  BY <1>26, FileKept DEF RaiseFeeStep
<1>27. CASE HoursPassStep
  BY <1>27, FileKept DEF HoursPassStep, procVars
<1> QED
  BY <1>1, <1>2, <1>3, <1>4, <1>5, <1>6, <1>7, <1>8, <1>9, <1>10, <1>11, <1>12, <1>13,
     <1>14, <1>15, <1>16, <1>17, <1>18, <1>19, <1>20, <1>21, <1>22, <1>23, <1>24,
     <1>25, <1>26, <1>27
  DEF Next, Process, Faults

\* KeyRecoverable holds always: however often and wherever the process stops,
\* the signers hold shares of the key the contract announces and the public
\* shares are in the data directory, unless another round replaced a key that
\* had been announced (run_distributed_key_generation, write_dkg_public_shares
\* and set_bitcoin_wallet_public_key in the order load_dkg_data runs them).
THEOREM KeyIsRecoverable == Spec => []KeyRecoverable
<1>1. KeyInv /\ FileInv => KeyRecoverable
  BY DEF KeyInv, KeyAnnounced, KeyRemembered, FileInv, KeyRecoverable, Readable, Announced,
         OnDisk
<1>2. Init => FileInv
  BY DEF Init, FileInv
<1> QED
  BY InitNonceInv, NextNonceInv, InitKeyInv, NextKeyInv, NextFileInv, <1>1, <1>2, PTL DEF Spec

-----------------------------------------------------------------------------
(* Induction.                                                              *)

\* Induction over Nat, for a set in the place of a predicate.
LEMMA Induction ==
    ASSUME NEW T \in SUBSET Nat, 0 \in T, \A n \in T : n + 1 \in T
    PROVE  \A n \in Nat : n \in T
<1> SUFFICES ASSUME Nat \ T # {} PROVE FALSE
  OBVIOUS
<1>1. IsWellFoundedOn(OpToRel(<, Nat), Nat)
  BY NatLessThanWellFounded
<1>2. \E x \in Nat \ T : \A y \in Nat \ T : ~ (<<y, x>> \in OpToRel(<, Nat))
  BY <1>1, WFMin
<1>3. PICK x \in Nat \ T : \A y \in Nat \ T : ~(y < x)
  BY <1>2 DEF OpToRel
<1>4. x - 1 \in Nat /\ x - 1 < x
  OBVIOUS
<1>5. (x - 1) + 1 = x
  OBVIOUS
<1> QED
  BY <1>3, <1>4, <1>5

-----------------------------------------------------------------------------
(* Sums over finite sets.                                                  *)

One(s) == CHOOSE x \in s : TRUE

\* h sums w over each of the sets in D, the way the fold does.
Sums(w, D, h) ==
    h = [s \in D |-> IF s = {} THEN 0 ELSE w[One(s)] + h[s \ {One(s)}]]

\* The subsets of S with at most n elements.
UpTo(S, n) == {s \in SUBSET S : Cardinality(s) <= n}

\* Removing an element of a finite set.
LEMMA OneLess ==
    ASSUME NEW S, IsFiniteSet(S), NEW s \in SUBSET S, NEW x \in s
    PROVE  /\ s \ {x} \in SUBSET S /\ Cardinality(s) \in Nat /\ Cardinality(s \ {x}) \in Nat
           /\ Cardinality(s \ {x}) = Cardinality(s) - 1
<1>1. IsFiniteSet(s)
  BY FS_Subset
<1> QED
  BY <1>1, FS_RemoveElement, FS_CardinalityType

\* The fold has a value.
LEMMA SumsExist ==
    ASSUME NEW w, NEW S, IsFiniteSet(S)
    PROVE  \E h : Sums(w, SUBSET S, h)
<1> DEFINE T == {n \in Nat : \E h : Sums(w, UpTo(S, n), h)}
<1>0. \A s \in SUBSET S : IsFiniteSet(s) /\ Cardinality(s) \in Nat
                           /\ (Cardinality(s) = 0 <=> s = {})
  BY FS_Subset, FS_EmptySet, FS_CardinalityType
<1>a. \A s \in SUBSET S : s # {} => One(s) \in s
  BY DEF One
<1>1. 0 \in T
  <2> DEFINE h == [s \in UpTo(S, 0) |-> 0]
  <2>1. \A s \in UpTo(S, 0) : s = {}
    BY <1>0 DEF UpTo
  <2>2. Sums(w, UpTo(S, 0), h)
    BY <2>1 DEF Sums
  <2> QED
    BY <2>2
<1>2. ASSUME NEW n \in T PROVE n + 1 \in T
  <2>1. PICK g : Sums(w, UpTo(S, n), g)
    OBVIOUS
  <2>2. \A s \in UpTo(S, n) : g[s] = IF s = {} THEN 0 ELSE w[One(s)] + g[s \ {One(s)}]
    BY <2>1 DEF Sums
  <2> DEFINE h == [s \in UpTo(S, n + 1) |->
                      IF s \in UpTo(S, n) THEN g[s] ELSE w[One(s)] + g[s \ {One(s)}]]
  <2>3. ASSUME NEW s \in UpTo(S, n + 1), s # {}
        PROVE  s \ {One(s)} \in UpTo(S, n)
    <3>1. s \in SUBSET S /\ One(s) \in s /\ Cardinality(s) <= n + 1
      BY <1>a, <2>3 DEF UpTo
    <3>2. s \ {One(s)} \in SUBSET S /\ Cardinality(s) \in Nat
          /\ Cardinality(s \ {One(s)}) = Cardinality(s) - 1
      BY <3>1, OneLess
    <3> QED
      BY <3>1, <3>2 DEF UpTo
  <2>4. UpTo(S, n) \subseteq UpTo(S, n + 1)
    BY <1>0 DEF UpTo
  <2>5. {} \in UpTo(S, n)
    BY <1>0 DEF UpTo
  <2>6. ASSUME NEW s \in UpTo(S, n + 1)
        PROVE  h[s] = IF s = {} THEN 0 ELSE w[One(s)] + h[s \ {One(s)}]
    <3>1. CASE s = {}
      BY <2>2, <2>5, <3>1
    <3>2. CASE s # {}
      <4>1. h[s \ {One(s)}] = g[s \ {One(s)}]
        BY <2>3, <2>4, <3>2
      <4>2. h[s] = w[One(s)] + g[s \ {One(s)}]
        BY <2>2, <3>2
      <4> QED
        BY <3>2, <4>1, <4>2
    <3> QED
      BY <3>1, <3>2
  <2>7. Sums(w, UpTo(S, n + 1), h)
    <3> DEFINE e == [s \in UpTo(S, n + 1) |->
                        IF s = {} THEN 0 ELSE w[One(s)] + h[s \ {One(s)}]]
    <3>1. \A s \in UpTo(S, n + 1) : h[s] = e[s]
      BY <2>6
    <3>2. h = e
      BY <3>1
    <3> QED
      BY <3>2 DEF Sums
  <2> QED
    BY <2>7
<1>3. \A n \in Nat : n \in T
  <2> HIDE DEF T
  <2>1. T \in SUBSET Nat
    BY DEF T
  <2> QED
    BY <1>1, <1>2, <2>1, Induction
<1>4. UpTo(S, Cardinality(S)) = SUBSET S /\ Cardinality(S) \in Nat
  BY FS_Subset, FS_CardinalityType DEF UpTo
<1> QED
  BY <1>3, <1>4

\* The sum of w over S, in the order the fold takes the elements.
LEMMA SumIsFold ==
    ASSUME NEW w, NEW S, IsFiniteSet(S)
    PROVE  \E h : Sums(w, SUBSET S, h) /\ SumFunctionOnSet(w, S) = h[S]
<1>1. SumFunctionOnSet(w, S) = (CHOOSE h : Sums(w, SUBSET S, h))[S]
  BY DEF SumFunctionOnSet, FoldFunctionOnSet, MapThenFoldSet, Sums, One
<1> QED
  BY <1>1, SumsExist

\* Induction over the subsets of a finite set, for a set in the place of a
\* predicate.
LEMMA SubsetInduction ==
    ASSUME NEW S, IsFiniteSet(S), NEW G,
           \A s \in SUBSET S : (\A t \in SUBSET s : t # s => t \in G) => s \in G
    PROVE  \A s \in SUBSET S : s \in G
<1> DEFINE T == {n \in Nat : \A s \in UpTo(S, n) : s \in G}
<1>1. \A s \in SUBSET S : /\ IsFiniteSet(s) /\ Cardinality(s) \in Nat
                          /\ Cardinality(s) = 0 <=> s = {}
  BY FS_Subset, FS_EmptySet, FS_CardinalityType
<1>2. 0 \in T
  <2>1. \A s \in UpTo(S, 0) : s = {}
    BY <1>1 DEF UpTo
  <2>2. {} \in G
    OBVIOUS
  <2> QED
    BY <2>1, <2>2
<1>3. ASSUME NEW n \in T PROVE n + 1 \in T
  <2>1. ASSUME NEW s \in UpTo(S, n + 1), NEW t \in SUBSET s, t # s
        PROVE  t \in G
    <3>1. s \in SUBSET S /\ t \in SUBSET S /\ Cardinality(s) <= n + 1
      BY DEF UpTo
    <3>2. Cardinality(t) <= Cardinality(s) /\ Cardinality(t) # Cardinality(s)
      BY <1>1, <2>1, <3>1, FS_Subset
    <3>3. Cardinality(t) \in Nat /\ Cardinality(s) \in Nat /\ n \in Nat
      BY <1>1, <3>1
    <3>4. Cardinality(t) <= n
      BY <3>1, <3>2, <3>3
    <3> QED
      BY <3>1, <3>4 DEF UpTo
  <2>2. \A s \in UpTo(S, n + 1) : s \in G
    BY <2>1 DEF UpTo
  <2> QED
    BY <2>2
<1>4. \A n \in Nat : n \in T
  <2> HIDE DEF T
  <2>1. T \in SUBSET Nat
    BY DEF T
  <2> QED
    BY <1>2, <1>3, <2>1, Induction
<1>5. \A s \in SUBSET S : s \in UpTo(S, Cardinality(S)) /\ Cardinality(S) \in Nat
  BY FS_Subset, FS_CardinalityType DEF UpTo
<1> QED
  BY <1>4, <1>5

\* What a sum is, whatever order its elements are taken in.
AnyOrder(w, h, s) == h[s] \in Int /\ \A x \in s : h[s] = w[x] + h[s \ {x}]

\* Any element can be taken first.
LEMMA SumsAnyOrder ==
    ASSUME NEW S, IsFiniteSet(S), NEW w, \A x \in S : w[x] \in Int,
           NEW h, Sums(w, SUBSET S, h)
    PROVE  \A s \in SUBSET S : AnyOrder(w, h, s)
<1> DEFINE G == {s \in SUBSET S : AnyOrder(w, h, s)}
<1>1. \A s \in SUBSET S : h[s] = IF s = {} THEN 0 ELSE w[One(s)] + h[s \ {One(s)}]
  BY DEF Sums
<1>2. ASSUME NEW s \in SUBSET S, \A t \in SUBSET s : t # s => t \in G
      PROVE  AnyOrder(w, h, s)
  <2>1. CASE s = {}
    <3>1. h[s] = 0
      BY <1>1, <2>1
    <3> QED
      BY <2>1, <3>1 DEF AnyOrder
  <2>2. CASE s # {}
    <3> DEFINE c == One(s)
    <3>1. c \in s
      BY <2>2 DEF One
    <3>2. h[s] = w[c] + h[s \ {c}]
      BY <1>1, <2>2
    <3> HIDE DEF c
    <3>3. \A t \in SUBSET s : t # s => AnyOrder(w, h, t)
      BY <1>2
    <3>4. ASSUME NEW x \in s \ {c}
          PROVE  h[s] = w[x] + h[s \ {x}]
      <4> DEFINE d == (s \ {c}) \ {x}
      <4>1. AnyOrder(w, h, s \ {x}) /\ AnyOrder(w, h, s \ {c}) /\ AnyOrder(w, h, d)
        BY <3>1, <3>3
      <4>2. (s \ {x}) \ {c} = d /\ c \in s \ {x}
        BY <3>1
      <4>3. h[s \ {x}] = w[c] + h[d]
        BY <4>1, <4>2 DEF AnyOrder
      <4>4. h[s \ {c}] = w[x] + h[d]
        BY <4>1 DEF AnyOrder
      <4>5. w[x] \in Int /\ w[c] \in Int /\ h[d] \in Int
        BY <3>1, <4>1 DEF AnyOrder
      <4> HIDE DEF d
      <4> QED
        BY <3>2, <4>3, <4>4, <4>5
    <3>5. h[s] \in Int
      <4>1. w[c] \in Int /\ h[s \ {c}] \in Int
        BY <3>1, <3>3 DEF AnyOrder
      <4> QED
        BY <3>2, <4>1
    <3> QED
      BY <3>1, <3>2, <3>4, <3>5 DEF AnyOrder
  <2> QED
    BY <2>1, <2>2
<1>3. \A s \in SUBSET S : (\A t \in SUBSET s : t # s => t \in G) => s \in G
  BY <1>2
<1> HIDE DEF G
<1>4. \A s \in SUBSET S : s \in G
  BY <1>3, SubsetInduction
<1> QED
  BY <1>4 DEF G

\* The values are the same on S.
SameOn(S, w, v) == \A x \in S : w[x] = v[x]

\* Two sums of the same values.
LEMMA SumsAgree ==
    ASSUME NEW S, IsFiniteSet(S), NEW w, NEW v, SameOn(S, w, v),
           NEW h, NEW g, NEW R, S \subseteq R, Sums(w, SUBSET R, h), Sums(v, SUBSET S, g)
    PROVE  h[S] = g[S]
<1> DEFINE G == {s \in SUBSET S : h[s] = g[s]}
<1>1. \A s \in SUBSET S : /\ h[s] = IF s = {} THEN 0 ELSE w[One(s)] + h[s \ {One(s)}]
                          /\ g[s] = IF s = {} THEN 0 ELSE v[One(s)] + g[s \ {One(s)}]
  BY DEF Sums
<1>2. ASSUME NEW s \in SUBSET S, \A t \in SUBSET s : t # s => t \in G
      PROVE  h[s] = g[s]
  <2>1. CASE s = {}
    BY <1>1, <2>1
  <2>2. CASE s # {}
    <3> DEFINE c == One(s)
    <3>1. c \in s
      BY <2>2 DEF One
    <3>2. h[s] = w[c] + h[s \ {c}] /\ g[s] = v[c] + g[s \ {c}]
      BY <1>1, <2>2
    <3> HIDE DEF c
    <3>3. h[s \ {c}] = g[s \ {c}] /\ w[c] = v[c]
      BY <1>2, <3>1 DEF SameOn
    <3> QED
      BY <3>2, <3>3
  <2> QED
    BY <2>1, <2>2
<1>3. \A s \in SUBSET S : (\A t \in SUBSET s : t # s => t \in G) => s \in G
  BY <1>2
<1> HIDE DEF G
<1>4. \A s \in SUBSET S : s \in G
  BY <1>3, SubsetInduction
<1> QED
  BY <1>4 DEF G

-----------------------------------------------------------------------------
\* Nothing adds up to zero.
LEMMA SumEmpty == \A w : SumFunctionOnSet(w, {}) = 0
<1> TAKE w
<1>1. PICK h : Sums(w, SUBSET {}, h) /\ SumFunctionOnSet(w, {}) = h[{}]
  BY SumIsFold, FS_EmptySet
<1> QED
  BY <1>1 DEF Sums

\* A sum depends on the values that are summed.
LEMMA SumSame ==
    ASSUME NEW S, IsFiniteSet(S), NEW w, NEW v, \A x \in S : w[x] = v[x]
    PROVE  SumFunctionOnSet(w, S) = SumFunctionOnSet(v, S)
<1>1. PICK h : Sums(w, SUBSET S, h) /\ SumFunctionOnSet(w, S) = h[S]
  BY SumIsFold
<1>2. PICK g : Sums(v, SUBSET S, g) /\ SumFunctionOnSet(v, S) = g[S]
  BY SumIsFold
<1>3. SameOn(S, w, v)
  BY DEF SameOn
<1> QED
  BY <1>1, <1>2, <1>3, SumsAgree

\* One element and the rest.
LEMMA SumTakesOne ==
    ASSUME NEW S, IsFiniteSet(S), NEW w, \A x \in S : w[x] \in Int, NEW y \in S
    PROVE  /\ SumFunctionOnSet(w, S) = w[y] + SumFunctionOnSet(w, S \ {y})
           /\ SumFunctionOnSet(w, S) \in Int
<1>1. PICK h : Sums(w, SUBSET S, h) /\ SumFunctionOnSet(w, S) = h[S]
  BY SumIsFold
<1> DEFINE R == S \ {y}
<1>2. IsFiniteSet(R) /\ R \subseteq S
  BY FS_RemoveElement
<1>3. PICK g : Sums(w, SUBSET R, g) /\ SumFunctionOnSet(w, R) = g[R]
  BY <1>2, SumIsFold
<1>4. h[R] = g[R]
  <2> HIDE DEF R
  <2>1. PICK v : v = w
    OBVIOUS
  <2>2. SameOn(R, w, v) /\ Sums(w, SUBSET S, h) /\ Sums(v, SUBSET R, g)
    BY <1>1, <1>3, <2>1 DEF SameOn
  <2> QED
    BY <1>2, <2>2, SumsAgree
<1>5. AnyOrder(w, h, S)
  BY <1>1, SumsAnyOrder
<1> QED
  BY <1>1, <1>3, <1>4, <1>5 DEF AnyOrder

\* One more element.
LEMMA SumAdds ==
    ASSUME NEW S, IsFiniteSet(S), NEW y, y \notin S, NEW w, \A x \in S \cup {y} : w[x] \in Int
    PROVE  SumFunctionOnSet(w, S \cup {y}) = w[y] + SumFunctionOnSet(w, S)
<1> DEFINE R == S \cup {y}
<1>1. IsFiniteSet(R) /\ R \ {y} = S /\ y \in R /\ \A x \in R : w[x] \in Int
  BY FS_AddElement
<1> HIDE DEF R
<1>2. SumFunctionOnSet(w, R) = w[y] + SumFunctionOnSet(w, R \ {y})
  BY <1>1, SumTakesOne
<1> QED
  BY <1>1, <1>2 DEF R

\* A sum of amounts is an amount, and a part of it is not more.
LEMMA SumOfPart ==
    ASSUME NEW S, IsFiniteSet(S), NEW w, \A x \in S : w[x] \in Nat
    PROVE  \A s \in SUBSET S : /\ SumFunctionOnSet(w, s) \in Nat
                               /\ SumFunctionOnSet(w, s) <= SumFunctionOnSet(w, S)
<1> DEFINE Parts(R) == \A s \in SUBSET R : /\ SumFunctionOnSet(w, s) \in Nat
                                           /\ SumFunctionOnSet(w, s) <= SumFunctionOnSet(w, R)
           G == {R \in SUBSET S : Parts(R)}
<1>1. SumFunctionOnSet(w, {}) = 0
  BY SumEmpty
<1>2. ASSUME NEW R \in SUBSET S, NEW y \in R
      PROVE  SumFunctionOnSet(w, R) = w[y] + SumFunctionOnSet(w, R \ {y})
  <2>1. IsFiniteSet(R) /\ \A x \in R : w[x] \in Int
    BY FS_Subset
  <2> QED
    BY <2>1, SumTakesOne
<1>3. ASSUME NEW R \in SUBSET S, \A t \in SUBSET R : t # R => t \in G
      PROVE  Parts(R)
  <2>1. CASE R = {}
    <3>1. \A s \in SUBSET R : s = {}
      BY <2>1
    <3> QED
      BY <1>1, <2>1, <3>1
  <2>2. CASE R # {}
    <3>1. ASSUME NEW y \in R
          PROVE  /\ SumFunctionOnSet(w, R) = w[y] + SumFunctionOnSet(w, R \ {y}) /\ w[y] \in Nat
                 /\ SumFunctionOnSet(w, R \ {y}) \in Nat
                 /\ \A s \in SUBSET (R \ {y}) :
                       /\ SumFunctionOnSet(w, s) \in Nat
                       /\ SumFunctionOnSet(w, s) <= SumFunctionOnSet(w, R \ {y})
      <4>1. R \ {y} \in SUBSET R /\ R \ {y} # R
        OBVIOUS
      <4>2. Parts(R \ {y})
        BY <1>3, <4>1
      <4>3. R \ {y} \in SUBSET (R \ {y})
        OBVIOUS
      <4> QED
        BY <1>2, <4>2, <4>3
    <3>2. SumFunctionOnSet(w, R) \in Nat
      <4>1. PICK y : y \in R
        BY <2>2
      <4>2. /\ SumFunctionOnSet(w, R) = w[y] + SumFunctionOnSet(w, R \ {y}) /\ w[y] \in Nat
            /\ SumFunctionOnSet(w, R \ {y}) \in Nat
        BY <3>1, <4>1
      <4> QED
        BY <4>2
    <3>3. ASSUME NEW s \in SUBSET R, s # R
          PROVE  SumFunctionOnSet(w, s) \in Nat
                 /\ SumFunctionOnSet(w, s) <= SumFunctionOnSet(w, R)
      <4>1. PICK y \in R : y \notin s
        BY <3>3
      <4>2. s \in SUBSET (R \ {y})
        BY <4>1
      <4>3. /\ SumFunctionOnSet(w, R) = w[y] + SumFunctionOnSet(w, R \ {y}) /\ w[y] \in Nat
            /\ SumFunctionOnSet(w, R \ {y}) \in Nat
            /\ SumFunctionOnSet(w, s) \in Nat
            /\ SumFunctionOnSet(w, s) <= SumFunctionOnSet(w, R \ {y})
        BY <3>1, <4>2
      <4> QED
        BY <4>3
    <3>4. ASSUME NEW s \in SUBSET R
          PROVE  SumFunctionOnSet(w, s) \in Nat
                 /\ SumFunctionOnSet(w, s) <= SumFunctionOnSet(w, R)
      <4>1. CASE s = R
        BY <3>2, <4>1
      <4> QED
        BY <3>3, <4>1
    <3> QED
      BY <3>4
  <2> QED
    BY <2>1, <2>2
<1>4. \A R \in SUBSET S : (\A t \in SUBSET R : t # R => t \in G) => R \in G
  BY <1>3
<1>5. S \in SUBSET S
  OBVIOUS
<1>6. \A R \in SUBSET S : R \in G
  <2> HIDE DEF G
  <2> QED
    BY <1>4, SubsetInduction
<1> QED
  BY <1>5, <1>6

-----------------------------------------------------------------------------
(* Which UTXOs a fulfilment spends.                                        *)

\* g holds what the loop has gathered after each of the first n UTXOs.
Turns(op, u, n, g) ==
    g = [i \in 0..n |-> IF i = 0 THEN NothingSelected ELSE Consume(op, g[i - 1], u[i])]

\* The loop over the UTXOs has a result after every number of turns.
LEMMA TurnsExist ==
    ASSUME NEW op, NEW u
    PROVE  \A n \in Nat : \E g : Turns(op, u, n, g)
<1> DEFINE T == {n \in Nat : \E g : Turns(op, u, n, g)}
<1>1. 0 \in T
  <2> DEFINE g == [i \in 0..0 |-> NothingSelected]
  <2>1. Turns(op, u, 0, g)
    BY DEF Turns
  <2> QED
    BY <2>1
<1>2. ASSUME NEW n \in T PROVE n + 1 \in T
  <2>1. PICK g : Turns(op, u, n, g)
    OBVIOUS
  <2> DEFINE h == [i \in 0..(n + 1) |-> IF i = n + 1 THEN Consume(op, g[n], u[n + 1]) ELSE g[i]]
  <2>2. \A i \in 0..n : g[i] = IF i = 0 THEN NothingSelected ELSE Consume(op, g[i - 1], u[i])
    BY <2>1 DEF Turns
  <2>3. \A i \in 0..(n + 1) :
           h[i] = IF i = 0 THEN NothingSelected ELSE Consume(op, h[i - 1], u[i])
    <3> SUFFICES ASSUME NEW i \in 0..(n + 1)
                 PROVE  h[i] = IF i = 0 THEN NothingSelected ELSE Consume(op, h[i - 1], u[i])
      OBVIOUS
    <3>1. CASE i = n + 1
      <4>1. i # 0 /\ i - 1 = n /\ h[n] = g[n] /\ h[i] = Consume(op, g[n], u[i])
        BY <3>1
      <4> QED
        BY <4>1
    <3>2. CASE i \in 0..n
      <4>1. h[i] = g[i] /\ (i # 0 => h[i - 1] = g[i - 1])
        BY <3>2
      <4> QED
        BY <2>2, <3>2, <4>1
    <3> QED
      BY <3>1, <3>2
  <2>4. Turns(op, u, n + 1, h)
    <3> DEFINE e == [i \in 0..(n + 1) |->
                        IF i = 0 THEN NothingSelected ELSE Consume(op, h[i - 1], u[i])]
    <3>1. \A i \in 0..(n + 1) : h[i] = e[i]
      BY <2>3
    <3>2. h = e
      BY <3>1
    <3> QED
      BY <3>2 DEF Turns
  <2> QED
    BY <2>4
<1> QED
  <2> HIDE DEF T
  <2>1. T \in SUBSET Nat
    BY DEF T
  <2>2. \A n \in Nat : n \in T
    BY <1>1, <1>2, <2>1, Induction
  <2> QED
    BY <2>2 DEF T

\* The variables of the loop.
Loop == {"input", "prevouts", "total", "found", "mismatch", "stop"}

\* What has been gathered: an input is found only if the fulfilment UTXO is
\* among the inputs and its amount is the fee.
Gathered(op, u, acc) ==
    /\ DOMAIN acc = Loop
    /\ acc.input \in Seq({utxo_to_input(u[i]) : i \in DOMAIN u})
    /\ acc.found = TRUE =>
          /\ \E i \in DOMAIN u : IsFulfillmentUtxo(op, u[i]) /\ u[i].amount = op.fulfillment_fee
          /\ \E i \in DOMAIN acc.input : acc.input[i] = [txid |-> op.txid, vout |-> 2]

\* One turn of the loop.
LEMMA GatheredByConsume ==
    ASSUME NEW op, NEW u, NEW acc, NEW i \in DOMAIN u, Gathered(op, u, acc)
    PROVE  Gathered(op, u, Consume(op, acc, u[i]))
<1> DEFINE In == {utxo_to_input(u[j]) : j \in DOMAIN u}
           c == Consumed(acc, u[i])
<1>1. utxo_to_input(u[i]) \in In /\ acc.input \in Seq(In) /\ DOMAIN acc = Loop
  BY DEF Gathered
<1>2. /\ DOMAIN c = Loop /\ c.input = Append(acc.input, utxo_to_input(u[i]))
      /\ c.found = acc.found
  BY <1>1 DEF Consumed, Loop
<1> HIDE DEF c, In
<1>3. c.input \in Seq(In)
      /\ c.input[Len(acc.input) + 1] = utxo_to_input(u[i])
      /\ Len(acc.input) + 1 \in DOMAIN c.input
      /\ \A j \in DOMAIN acc.input : j \in DOMAIN c.input /\ c.input[j] = acc.input[j]
  BY <1>1, <1>2
<1>4. acc.found = TRUE =>
         /\ \E j \in DOMAIN u : IsFulfillmentUtxo(op, u[j]) /\ u[j].amount = op.fulfillment_fee
         /\ \E j \in DOMAIN acc.input : acc.input[j] = [txid |-> op.txid, vout |-> 2]
  BY DEF Gathered
<1>5. CASE acc.stop
  BY <1>5 DEF Consume
<1>6. CASE ~acc.stop /\ IsFulfillmentUtxo(op, u[i]) /\ u[i].amount # op.fulfillment_fee
  <2> DEFINE r == [acc EXCEPT !.stop = TRUE, !.mismatch = TRUE]
  <2>1. Consume(op, acc, u[i]) = r
    BY <1>6 DEF Consume
  <2>2. DOMAIN r = Loop /\ r.input = acc.input /\ r.found = acc.found
    BY <1>1 DEF Loop
  <2> QED
    BY <1>1, <1>4, <2>1, <2>2 DEF Gathered, In
<1>7. CASE ~acc.stop /\ IsFulfillmentUtxo(op, u[i]) /\ u[i].amount = op.fulfillment_fee
  <2> DEFINE r == [c EXCEPT !.found = TRUE]
  <2>1. Consume(op, acc, u[i]) = r
    BY <1>7 DEF Consume, c
  <2>2. DOMAIN r = Loop /\ r.input = c.input
    BY <1>2 DEF Loop
  <2>3. c.input[Len(acc.input) + 1] = [txid |-> op.txid, vout |-> 2]
    BY <1>3, <1>7 DEF IsFulfillmentUtxo, utxo_to_input
  <2>4. \E j \in DOMAIN c.input : c.input[j] = [txid |-> op.txid, vout |-> 2]
    BY <1>3, <2>3
  <2> QED
    BY <1>3, <1>7, <2>1, <2>2, <2>4 DEF Gathered, In
<1>8. CASE ~acc.stop /\ ~IsFulfillmentUtxo(op, u[i]) /\ acc.total < op.amount
  <2> DEFINE r == [c EXCEPT !.total = @ + u[i].amount]
  <2>1. Consume(op, acc, u[i]) = r
    BY <1>8 DEF Consume, c
  <2>2. DOMAIN r = Loop /\ r.input = c.input /\ r.found = acc.found
    BY <1>2 DEF Loop
  <2>3. acc.found = TRUE => \E j \in DOMAIN c.input : c.input[j] = [txid |-> op.txid, vout |-> 2]
    BY <1>3, <1>4
  <2> QED
    BY <1>3, <1>4, <2>1, <2>2, <2>3 DEF Gathered, In
<1>9. CASE ~acc.stop /\ ~IsFulfillmentUtxo(op, u[i]) /\ ~(acc.total < op.amount)
  <2> DEFINE r == [acc EXCEPT !.stop = acc.found]
  <2>1. Consume(op, acc, u[i]) = r
    BY <1>9 DEF Consume
  <2>2. DOMAIN r = Loop /\ r.input = acc.input /\ r.found = acc.found
    BY <1>1 DEF Loop
  <2> QED
    BY <1>1, <1>4, <2>1, <2>2 DEF Gathered, In
<1> QED
  BY <1>5, <1>6, <1>7, <1>8, <1>9

\* The UTXOs that are selected, whatever their order.
LEMMA SelectionGathers ==
    ASSUME NEW op, NEW S, NEW u \in Seq(S)
    PROVE  Gathered(op, u, Selection(op, u))
<1> DEFINE n == Len(u)
           t == CHOOSE g : Turns(op, u, n, g)
<1>1. n \in Nat /\ DOMAIN u = 1..n
  OBVIOUS
<1>2. Selection(op, u) = t[n]
  BY DEF Selection, Turns
<1>3. Turns(op, u, n, t)
  BY <1>1, TurnsExist
<1> HIDE DEF t, n
<1>4. \A i \in 0..n : t[i] = IF i = 0 THEN NothingSelected ELSE Consume(op, t[i - 1], u[i])
  BY <1>3 DEF Turns
<1> DEFINE T == {i \in Nat : i \in 0..n => Gathered(op, u, t[i])}
<1>5. 0 \in T
  <2>1. Gathered(op, u, NothingSelected)
    BY DEF Gathered, NothingSelected, Loop
  <2>2. 0 \in 0..n => t[0] = NothingSelected
    BY <1>4
  <2> QED
    BY <2>1, <2>2
<1>6. ASSUME NEW i \in T PROVE i + 1 \in T
  <2> SUFFICES ASSUME i + 1 \in 0..n PROVE Gathered(op, u, t[i + 1])
    OBVIOUS
  <2>1. i \in 0..n /\ i + 1 \in DOMAIN u /\ i + 1 # 0 /\ (i + 1) - 1 = i
    BY <1>1
  <2>2. Gathered(op, u, t[i])
    BY <2>1
  <2>3. t[i + 1] = Consume(op, t[i], u[i + 1])
    BY <1>4, <2>1
  <2> QED
    BY <2>1, <2>2, <2>3, GatheredByConsume
<1>7. n \in T
  <2> HIDE DEF T
  <2>1. T \in SUBSET Nat
    BY DEF T
  <2> QED
    BY <1>1, <1>5, <1>6, <2>1, Induction
<1>8. Gathered(op, u, t[n])
  BY <1>1, <1>7
<1> QED
  BY <1>2, <1>8

\* A fulfilment that is built spends the fulfilment UTXO, which holds the fee
\* the request states, and has two outputs or three.
LEMMA FulfilmentBuilt ==
    ASSUME NEW op, NEW key, NEW S, NEW u \in Seq(S),
           "err" \notin DOMAIN fulfill_peg_out(op, key, u)
    PROVE  LET tx == fulfill_peg_out(op, key, u)
           IN  /\ \E i \in DOMAIN u : IsFulfillmentUtxo(op, u[i])
                                      /\ u[i].amount = op.fulfillment_fee
               /\ \E i \in DOMAIN tx.input : tx.input[i] = [txid |-> op.txid, vout |-> 2]
               /\ Len(tx.output) \in 2..3
<1> DEFINE sel == Selection(op, u)
           tx == fulfill_peg_out(op, key, u)
<1>1. Gathered(op, u, sel)
  BY SelectionGathers
<1> HIDE DEF sel
<1>2. tx = CASE sel.mismatch -> [err |-> "MismatchedFulfillmentFee"]
             [] ~sel.mismatch /\ ~sel.found -> [err |-> "MissingFulfillmentUTXO"]
             [] ~sel.mismatch /\ sel.found /\ sel.total < op.amount ->
                   [err |-> "InsufficientFunds"]
             [] OTHER -> [input |-> sel.input, prevouts |-> sel.prevouts,
                          output |-> Outputs(op, key, sel.total - op.amount)]
  BY DEF fulfill_peg_out, sel
<1>3. ~sel.mismatch /\ sel.found /\ ~(sel.total < op.amount)
  BY <1>2
<1>4. tx.input = sel.input /\ tx.output = Outputs(op, key, sel.total - op.amount)
  BY <1>2, <1>3
<1>5. Len(Outputs(op, key, sel.total - op.amount)) \in 2..3
  BY DEF Outputs
<1> QED
  BY <1>1, <1>3, <1>4, <1>5 DEF Gathered

-----------------------------------------------------------------------------
(* Whether it is the fulfilment that the set of UTXOs calls for.           *)

\* The amounts of UTXOs: none, one more, a part of them.
LEMMA AmountsEmpty == Amounts({}) = 0
<1> DEFINE w == [u \in {} |-> u.amount]
<1>1. DOMAIN w = {}
  OBVIOUS
<1> HIDE DEF w
<1>2. SumFunction(w) = 0
  BY <1>1, SumEmpty DEF SumFunction
<1> QED
  BY <1>2 DEF Amounts, w

\* Amounts as a sum of one function over many sets.
LEMMA AmountsOf ==
    ASSUME NEW S, IsFiniteSet(S)
    PROVE  \A K \in SUBSET S : Amounts(K) = SumFunctionOnSet([u \in S |-> u.amount], K)
<1> TAKE K \in SUBSET S
<1> DEFINE w == [u \in S |-> u.amount]
           v == [u \in K |-> u.amount]
<1>1. IsFiniteSet(K)
  BY FS_Subset
<1>2. DOMAIN v = K /\ \A x \in K : v[x] = w[x]
  OBVIOUS
<1> HIDE DEF v, w
<1>3. SumFunctionOnSet(v, K) = SumFunctionOnSet(w, K)
  BY <1>1, <1>2, SumSame
<1> QED
  BY <1>2, <1>3 DEF Amounts, SumFunction, v, w

\* One more UTXO.
LEMMA AmountsAdd ==
    ASSUME NEW S, IsFiniteSet(S), \A u \in S : u.amount \in Nat, NEW y, y \notin S, y.amount \in Nat
    PROVE  Amounts(S \cup {y}) = y.amount + Amounts(S)
<1> DEFINE R == S \cup {y}
           w == [u \in R |-> u.amount]
<1>1. IsFiniteSet(R) /\ R \in SUBSET R /\ S \in SUBSET R
  BY FS_AddElement
<1>2. w[y] = y.amount /\ \A x \in S \cup {y} : w[x] \in Int
  OBVIOUS
<1>3. Amounts(R) = SumFunctionOnSet(w, R) /\ Amounts(S) = SumFunctionOnSet(w, S)
  <2> HIDE DEF R
  <2> QED
    BY <1>1, AmountsOf
<1> HIDE DEF w
<1>4. SumFunctionOnSet(w, S \cup {y}) = w[y] + SumFunctionOnSet(w, S)
  BY <1>2, SumAdds
<1> QED
  BY <1>2, <1>3, <1>4

\* A part of the UTXOs.
LEMMA AmountsPart ==
    ASSUME NEW S, IsFiniteSet(S), \A u \in S : u.amount \in Nat
    PROVE  \A K \in SUBSET S : Amounts(K) \in Nat /\ Amounts(K) <= Amounts(S)
<1> TAKE K \in SUBSET S
<1> DEFINE w == [u \in S |-> u.amount]
<1>1. \A x \in S : w[x] \in Nat
  OBVIOUS
<1>2. S \in SUBSET S
  OBVIOUS
<1>3. Amounts(K) = SumFunctionOnSet(w, K) /\ Amounts(S) = SumFunctionOnSet(w, S)
  BY <1>2, AmountsOf
<1> HIDE DEF w
<1> QED
  BY <1>1, <1>3, SumOfPart

\* What outputs are worth: none, one more, the same.
LEMMA ValuesEmpty == \A outs : Values(outs, {}) = 0
<1> TAKE outs
<1> DEFINE w == [i \in {} |-> outs[i].value]
<1>1. DOMAIN w = {}
  OBVIOUS
<1> HIDE DEF w
<1>2. SumFunction(w) = 0
  BY <1>1, SumEmpty DEF SumFunction
<1> QED
  BY <1>2 DEF Values, w

\* Outputs of the same values.
LEMMA ValuesSame ==
    ASSUME NEW I, IsFiniteSet(I), NEW a, NEW b, \A i \in I : a[i] = b[i]
    PROVE  Values(a, I) = Values(b, I)
<1> DEFINE w == [i \in I |-> a[i].value]
           v == [i \in I |-> b[i].value]
<1>1. w = v
  OBVIOUS
<1> QED
  BY <1>1 DEF Values

\* One more output.
LEMMA ValuesAdd ==
    ASSUME NEW I, IsFiniteSet(I), NEW a, NEW j, j \notin I, \A i \in I \cup {j} : a[i].value \in Nat
    PROVE  Values(a, I \cup {j}) = a[j].value + Values(a, I)
<1> DEFINE R == I \cup {j}
           w == [i \in R |-> a[i].value]
           v == [i \in I |-> a[i].value]
<1>1. IsFiniteSet(R)
  BY FS_AddElement
<1>2. w[j] = a[j].value /\ (\A x \in I \cup {j} : w[x] \in Int) /\ DOMAIN w = R /\ DOMAIN v = I
      /\ \A i \in I : w[i] = v[i]
  OBVIOUS
<1>3. Values(a, R) = SumFunctionOnSet(w, R) /\ Values(a, I) = SumFunctionOnSet(v, I)
  BY <1>2 DEF Values, SumFunction
<1> HIDE DEF w, v
<1>4. SumFunctionOnSet(w, I \cup {j}) = w[j] + SumFunctionOnSet(w, I)
  BY <1>2, SumAdds
<1>5. SumFunctionOnSet(w, I) = SumFunctionOnSet(v, I)
  BY <1>2, SumSame
<1> QED
  BY <1>2, <1>3, <1>4, <1>5

\* UTXOs as a node has them: nothing is negative, and an id names one.
Coins(S) ==
    /\ IsFiniteSet(S)
    /\ \A v \in S : v.amount \in Nat
    /\ \A v, x \in S : utxo_to_input(v) = utxo_to_input(x) => v = x

\* The inputs that are not the fulfilment UTXO, and the same of UTXOs.
Rest(op, input) == {i \in DOMAIN input : ~IsFulfillmentUtxo(op, input[i])}
Others(op, K) == {v \in K : ~IsFulfillmentUtxo(op, v)}

\* input and prevouts are those of K, each once.
Spending(K, input, prevouts) ==
    /\ input \in Seq({utxo_to_input(v) : v \in K})
    /\ prevouts \in Seq({utxo_to_output(v) : v \in K})
    /\ Len(input) = Cardinality(K) /\ Len(prevouts) = Len(input)
    /\ \A v \in K : \E i \in DOMAIN input : input[i] = utxo_to_input(v)

\* No more inputs were taken once the amount was covered.
Sparing(op, input, prevouts) ==
    Rest(op, input) # {} =>
        Values(prevouts, Rest(op, input) \ {Max(Rest(op, input))}) < op.amount

\* What the loop has gathered after n UTXOs: it has taken K.
Taken(op, u, n, acc, K) ==
    /\ DOMAIN acc = Loop /\ acc.found \in BOOLEAN /\ acc.mismatch \in BOOLEAN /\ acc.stop \in BOOLEAN
    /\ K \subseteq {u[i] : i \in 1..n}
    /\ Spending(K, acc.input, acc.prevouts)
    /\ Sparing(op, acc.input, acc.prevouts)
    /\ acc.total = Values(acc.prevouts, Rest(op, acc.input))
    /\ acc.total = Amounts(Others(op, K))
    /\ acc.found <=> \E v \in K : IsFulfillmentUtxo(op, v)
    /\ \A v \in K : IsFulfillmentUtxo(op, v) => v.amount = op.fulfillment_fee
    /\ acc.mismatch => \E i \in 1..n : IsFulfillmentUtxo(op, u[i]) /\ u[i].amount # op.fulfillment_fee
    /\ acc.stop => acc.mismatch \/ (acc.found /\ acc.total >= op.amount)
    /\ ~acc.stop => \A i \in 1..n : IsFulfillmentUtxo(op, u[i]) => u[i] \in K
    /\ ~acc.stop /\ acc.total < op.amount => K = {u[i] : i \in 1..n}

\* Sequences over a larger set.
LEMMA SeqWiden ==
    ASSUME NEW A, NEW B, A \subseteq B
    PROVE  \A s \in Seq(A) : s \in Seq(B)
<1> TAKE s \in Seq(A)
<1>1. \A i \in 1..Len(s) : s[i] \in B
  OBVIOUS
<1> QED
  BY <1>1

\* One more input.
LEMMA SpendingOneMore ==
    ASSUME NEW S, Coins(S), NEW K \in SUBSET S, NEW v \in S, v \notin K,
           NEW input, NEW prevouts, Spending(K, input, prevouts)
    PROVE  Spending(K \cup {v}, Append(input, utxo_to_input(v)), Append(prevouts, utxo_to_output(v)))
<1> DEFINE In(R) == {utxo_to_input(x) : x \in R}
           Out(R) == {utxo_to_output(x) : x \in R}
           R == K \cup {v}
           a == Append(input, utxo_to_input(v))
           b == Append(prevouts, utxo_to_output(v))
<1>1. IsFiniteSet(K) /\ Cardinality(R) = Cardinality(K) + 1
  BY FS_Subset, FS_AddElement DEF Coins
<1>2. In(K) \subseteq In(R) /\ Out(K) \subseteq Out(R)
      /\ utxo_to_input(v) \in In(R) /\ utxo_to_output(v) \in Out(R)
  OBVIOUS
<1>3. input \in Seq(In(R)) /\ prevouts \in Seq(Out(R))
  <2>1. input \in Seq(In(K)) /\ prevouts \in Seq(Out(K))
    BY DEF Spending
  <2> HIDE DEF In, Out, R
  <2> QED
    BY <1>2, <2>1, SeqWiden
<1>4. a \in Seq(In(R)) /\ b \in Seq(Out(R)) /\ Len(a) = Len(input) + 1 /\ Len(b) = Len(prevouts) + 1
      /\ a[Len(input) + 1] = utxo_to_input(v) /\ Len(input) + 1 \in DOMAIN a
      /\ \A i \in DOMAIN input : i \in DOMAIN a /\ a[i] = input[i]
  <2> HIDE DEF In, Out, R
  <2> QED
    BY <1>2, <1>3
<1> HIDE DEF a, b
<1>5. \A x \in R : \E i \in DOMAIN a : a[i] = utxo_to_input(x)
  BY <1>4 DEF Spending
<1>6. Len(a) = Cardinality(R) /\ Len(b) = Len(a)
  BY <1>1, <1>4 DEF Spending
<1> QED
  BY <1>4, <1>5, <1>6 DEF Spending, a, b

\* The values of the previous outputs of one more input.
OneMore(input, prevouts, v) ==
    \A I \in SUBSET DOMAIN input :
        /\ Values(Append(prevouts, utxo_to_output(v)), I) = Values(prevouts, I)
        /\ Values(Append(prevouts, utxo_to_output(v)), I \cup {Len(input) + 1}) =
              v.amount + Values(prevouts, I)

\* They are.
LEMMA ValuesOneMore ==
    ASSUME NEW S, Coins(S), NEW K \in SUBSET S, NEW v \in S,
           NEW input, NEW prevouts, Spending(K, input, prevouts)
    PROVE  OneMore(input, prevouts, v)
<1> DEFINE a == Append(prevouts, utxo_to_output(v))
           n == Len(input) + 1
<1> SUFFICES ASSUME NEW I \in SUBSET DOMAIN input
             PROVE  /\ Values(a, I) = Values(prevouts, I)
                    /\ Values(a, I \cup {n}) = v.amount + Values(prevouts, I)
  BY DEF OneMore
<1> DEFINE In == {utxo_to_input(x) : x \in K}
           Out == {utxo_to_output(x) : x \in K}
<1>1. input \in Seq(In) /\ prevouts \in Seq(Out) /\ Len(prevouts) = Len(input)
  BY DEF Spending
<1>2. /\ n \notin I /\ DOMAIN input = 1..Len(input) /\ Len(input) \in Nat
      /\ a[n] = utxo_to_output(v)
      /\ \A i \in DOMAIN input : prevouts[i] \in Out /\ a[i] = prevouts[i]
  <2> HIDE DEF In, Out
  <2> QED
    BY <1>1
<1>3. \A x \in S : utxo_to_output(x).value \in Nat
  BY DEF Coins, utxo_to_output
<1>4. \A i \in I \cup {n} : a[i].value \in Nat
  BY <1>2, <1>3
<1>5. IsFiniteSet(I)
  <2>1. IsFiniteSet(1..Len(input))
    BY <1>2, FS_Interval
  <2> QED
    BY <1>2, <2>1, FS_Subset
<1> HIDE DEF a, n
<1>6. a[n].value = v.amount
  BY <1>2 DEF utxo_to_output
<1>7. Values(a, I) = Values(prevouts, I)
  BY <1>2, <1>5, ValuesSame
<1>8. Values(a, I \cup {n}) = a[n].value + Values(a, I)
  BY <1>2, <1>4, <1>5, ValuesAdd
<1> QED
  BY <1>6, <1>7, <1>8

\* The greatest of a set of indices and the one after them all.
LEMMA MaxOfNext ==
    ASSUME NEW n \in Nat, NEW I \in SUBSET (1..n)
    PROVE  Max(I \cup {n + 1}) = n + 1
<1> DEFINE R == I \cup {n + 1}
<1>1. n + 1 \in R /\ \A y \in R : n + 1 >= y /\ y \in Int
  OBVIOUS
<1>2. \A x \in R : (\A y \in R : x >= y) => x = n + 1
  BY <1>1
<1> HIDE DEF R
<1> QED
  BY <1>1, <1>2 DEF Max, R

\* The fulfilment UTXO, or another that adds to the total, becomes an input.
TookOwn(op, K, v, input, prevouts) ==
    LET a == Append(input, utxo_to_input(v))
        b == Append(prevouts, utxo_to_output(v))
    IN  /\ Sparing(op, a, b)
        /\ Values(b, Rest(op, a)) = Values(prevouts, Rest(op, input))
        /\ Others(op, K \cup {v}) = Others(op, K)
TookOther(op, K, v, input, prevouts) ==
    LET a == Append(input, utxo_to_input(v))
        b == Append(prevouts, utxo_to_output(v))
    IN  /\ Sparing(op, a, b)
        /\ Values(b, Rest(op, a)) = v.amount + Values(prevouts, Rest(op, input))
        /\ Amounts(Others(op, K \cup {v})) = v.amount + Amounts(Others(op, K))

\* The fulfilment UTXO is taken as an input.
LEMMA TakeOwn ==
    ASSUME NEW op, NEW S, Coins(S), NEW K \in SUBSET S, NEW v \in S, v \notin K,
           IsFulfillmentUtxo(op, v), NEW input, NEW prevouts,
           Spending(K, input, prevouts), Sparing(op, input, prevouts)
    PROVE  TookOwn(op, K, v, input, prevouts)
<1> DEFINE a == Append(input, utxo_to_input(v))
           b == Append(prevouts, utxo_to_output(v))
           I == Rest(op, input)
<1>1. Others(op, K \cup {v}) = Others(op, K)
  BY DEF Others
<1>2. Rest(op, a) = I
  <2>1. ~(~IsFulfillmentUtxo(op, utxo_to_input(v)))
    BY DEF IsFulfillmentUtxo, utxo_to_input
  <2>2. DOMAIN a = DOMAIN input \cup {Len(input) + 1} /\ a[Len(input) + 1] = utxo_to_input(v)
        /\ \A i \in DOMAIN input : a[i] = input[i] /\ i # Len(input) + 1
    BY DEF Spending
  <2> HIDE DEF a
  <2> QED
    BY <2>1, <2>2 DEF Rest
<1>3. I \in SUBSET DOMAIN input /\ I \ {Max(I)} \in SUBSET DOMAIN input
  BY DEF Rest
<1>4. Values(b, I) = Values(prevouts, I) /\ Values(b, I \ {Max(I)}) = Values(prevouts, I \ {Max(I)})
  <2>1. \A J \in SUBSET DOMAIN input :
           /\ Values(b, J) = Values(prevouts, J)
           /\ Values(b, J \cup {Len(input) + 1}) = v.amount + Values(prevouts, J)
    <3>1. OneMore(input, prevouts, v)
      BY ValuesOneMore
    <3> QED
      BY <3>1 DEF OneMore
  <2> HIDE DEF I, b
  <2> QED
    BY <1>3, <2>1
<1>5. I # {} => Values(prevouts, I \ {Max(I)}) < op.amount
  BY DEF Sparing
<1> HIDE DEF a, b, I
<1>6. Sparing(op, a, b)
  BY <1>2, <1>4, <1>5 DEF Sparing
<1> QED
  BY <1>1, <1>2, <1>4, <1>6 DEF a, b, I, TookOwn

\* Another UTXO is taken as an input.
LEMMA TakeOther ==
    ASSUME NEW op, NEW S, Coins(S), NEW K \in SUBSET S, NEW v \in S, v \notin K,
           ~IsFulfillmentUtxo(op, v), NEW input, NEW prevouts,
           Spending(K, input, prevouts), Values(prevouts, Rest(op, input)) < op.amount
    PROVE  TookOther(op, K, v, input, prevouts)
<1> DEFINE a == Append(input, utxo_to_input(v))
           b == Append(prevouts, utxo_to_output(v))
           I == Rest(op, input)
           n == Len(input) + 1
<1>1. Amounts(Others(op, K \cup {v})) = v.amount + Amounts(Others(op, K))
  <2> DEFINE O == Others(op, K)
  <2>1. Others(op, K \cup {v}) = O \cup {v} /\ v \notin O /\ O \in SUBSET S
    BY DEF Others
  <2>2. IsFiniteSet(O) /\ (\A u \in O : u.amount \in Nat) /\ v.amount \in Nat
    BY <2>1, FS_Subset DEF Coins
  <2> HIDE DEF O
  <2>3. Amounts(O \cup {v}) = v.amount + Amounts(O)
    BY <2>1, <2>2, AmountsAdd
  <2> QED
    BY <2>1, <2>3 DEF O
<1>2. Rest(op, a) = I \cup {n}
  <2>1. ~IsFulfillmentUtxo(op, utxo_to_input(v))
    BY DEF IsFulfillmentUtxo, utxo_to_input
  <2>2. DOMAIN a = DOMAIN input \cup {Len(input) + 1} /\ a[Len(input) + 1] = utxo_to_input(v)
        /\ \A i \in DOMAIN input : a[i] = input[i] /\ i # Len(input) + 1
    BY DEF Spending
  <2> HIDE DEF a
  <2> QED
    BY <2>1, <2>2 DEF Rest
<1>3. I \in SUBSET DOMAIN input /\ DOMAIN input = 1..Len(input) /\ Len(input) \in Nat
  BY DEF Rest, Spending
<1>4. Values(b, I) = Values(prevouts, I) /\ Values(b, I \cup {n}) = v.amount + Values(prevouts, I)
  <2>1. \A J \in SUBSET DOMAIN input :
           /\ Values(b, J) = Values(prevouts, J)
           /\ Values(b, J \cup {Len(input) + 1}) = v.amount + Values(prevouts, J)
    <3>1. OneMore(input, prevouts, v)
      BY ValuesOneMore
    <3> QED
      BY <3>1 DEF OneMore
  <2> HIDE DEF I, b
  <2> QED
    BY <1>3, <2>1
<1>5. Max(I \cup {n}) = n /\ (I \cup {n}) \ {n} = I
  <2>1. n \notin I
    BY <1>3
  <2> HIDE DEF I
  <2> QED
    BY <1>3, <2>1, MaxOfNext
<1>6. Values(prevouts, I) < op.amount
  OBVIOUS
<1> HIDE DEF a, b, I, n
<1>7. Sparing(op, a, b)
  BY <1>2, <1>4, <1>5, <1>6 DEF Sparing
<1> QED
  BY <1>1, <1>2, <1>4, <1>7 DEF a, b, I, TookOther

\* A listing of the UTXOs in S.
Lists(u, S) ==
    /\ u \in Seq(S) /\ \A v \in S : \E i \in DOMAIN u : u[i] = v
    /\ \A i, j \in DOMAIN u : u[i] = u[j] => i = j

\* One turn of the loop.
LEMMA TakenByConsume ==
    ASSUME NEW op, op.amount \in Nat, NEW S, Coins(S), NEW u, Lists(u, S), NEW n \in Nat,
           n + 1 \in DOMAIN u, NEW acc, NEW K, Taken(op, u, n, acc, K)
    PROVE  \E R : Taken(op, u, n + 1, Consume(op, acc, u[n + 1]), R)
<1> DEFINE v == u[n + 1]
           Seen == {u[i] : i \in 1..n}
           c == Consumed(acc, v)
           a == Append(acc.input, utxo_to_input(v))
           b == Append(acc.prevouts, utxo_to_output(v))
           R == K \cup {v}
<1>1. /\ DOMAIN acc = Loop /\ acc.found \in BOOLEAN /\ acc.mismatch \in BOOLEAN
      /\ acc.stop \in BOOLEAN /\ K \subseteq Seen
      /\ Spending(K, acc.input, acc.prevouts) /\ Sparing(op, acc.input, acc.prevouts)
      /\ acc.total = Values(acc.prevouts, Rest(op, acc.input))
      /\ acc.total = Amounts(Others(op, K))
      /\ acc.found <=> \E x \in K : IsFulfillmentUtxo(op, x)
      /\ \A x \in K : IsFulfillmentUtxo(op, x) => x.amount = op.fulfillment_fee
      /\ acc.mismatch => \E i \in 1..n : IsFulfillmentUtxo(op, u[i]) /\ u[i].amount # op.fulfillment_fee
      /\ acc.stop => acc.mismatch \/ (acc.found /\ acc.total >= op.amount)
      /\ ~acc.stop => \A i \in 1..n : IsFulfillmentUtxo(op, u[i]) => u[i] \in K
      /\ ~acc.stop /\ acc.total < op.amount => K = Seen
  BY DEF Taken
<1>2. /\ 1..n \subseteq DOMAIN u /\ 1..(n + 1) = 1..n \cup {n + 1} /\ n + 1 \notin 1..n
      /\ v \in S /\ Seen \subseteq S
  BY DEF Lists
<1>3. {u[i] : i \in 1..(n + 1)} = Seen \cup {v} /\ v \notin Seen
  BY <1>2 DEF Lists
<1>4. K \in SUBSET S /\ v \notin K /\ Others(op, K) \in SUBSET S /\ v.amount \in Nat
      /\ acc.total \in Nat
  <2>1. K \in SUBSET S /\ v \notin K /\ Others(op, K) \in SUBSET S /\ v.amount \in Nat
    BY <1>1, <1>2, <1>3 DEF Others, Coins
  <2>2. Amounts(Others(op, K)) \in Nat
    BY <2>1, AmountsPart DEF Coins
  <2> QED
    BY <1>1, <2>1, <2>2
<1>5. /\ DOMAIN c = Loop /\ c.input = a /\ c.prevouts = b /\ c.found = acc.found
      /\ c.mismatch = acc.mismatch /\ c.stop = acc.stop /\ c.total = acc.total
  BY <1>1 DEF Consumed, Loop
<1>6. Spending(R, a, b)
  BY <1>1, <1>2, <1>4, SpendingOneMore
<1> HIDE DEF c, a, b, v, Seen, R
<1>7. CASE acc.stop
  <2>1. Consume(op, acc, v) = acc
    BY <1>7 DEF Consume
  <2>2. Taken(op, u, n + 1, acc, K)
    BY <1>1, <1>2, <1>3, <1>7 DEF Taken
  <2> QED
    BY <2>1, <2>2 DEF v
<1>8. CASE ~acc.stop /\ IsFulfillmentUtxo(op, v) /\ v.amount # op.fulfillment_fee
  <2> DEFINE r == [acc EXCEPT !.stop = TRUE, !.mismatch = TRUE]
  <2>1. Consume(op, acc, v) = r
    BY <1>8 DEF Consume
  <2>2. /\ DOMAIN r = Loop /\ r.input = acc.input /\ r.prevouts = acc.prevouts
        /\ r.found = acc.found /\ r.mismatch = TRUE /\ r.stop = TRUE /\ r.total = acc.total
    BY <1>1 DEF Loop
  <2> HIDE DEF r
  <2>3. \E i \in 1..(n + 1) : IsFulfillmentUtxo(op, u[i]) /\ u[i].amount # op.fulfillment_fee
    BY <1>2, <1>8 DEF v
  <2>4. Taken(op, u, n + 1, r, K)
    BY <1>1, <1>3, <2>2, <2>3 DEF Taken
  <2> QED
    BY <2>1, <2>4 DEF v
<1>9. CASE ~acc.stop /\ IsFulfillmentUtxo(op, v) /\ v.amount = op.fulfillment_fee
  <2> DEFINE r == [c EXCEPT !.found = TRUE]
  <2>1. Consume(op, acc, v) = r
    BY <1>9 DEF Consume, c
  <2>2. /\ DOMAIN r = Loop /\ r.input = a /\ r.prevouts = b
        /\ r.found = TRUE /\ r.mismatch = acc.mismatch /\ r.stop = FALSE /\ r.total = acc.total
    BY <1>1, <1>5, <1>9 DEF Loop
  <2> HIDE DEF r
  <2>3. /\ Sparing(op, a, b) /\ Values(b, Rest(op, a)) = Values(acc.prevouts, Rest(op, acc.input))
        /\ Others(op, R) = Others(op, K)
    <3>1. TookOwn(op, K, v, acc.input, acc.prevouts)
      BY <1>1, <1>2, <1>4, <1>9, TakeOwn
    <3> QED
      BY <3>1 DEF TookOwn, a, b, R
  <2>4. /\ R \subseteq Seen \cup {v} /\ (\E x \in R : IsFulfillmentUtxo(op, x))
        /\ \A x \in R : IsFulfillmentUtxo(op, x) => x.amount = op.fulfillment_fee
    BY <1>1, <1>9 DEF R
  <2>5. /\ \A i \in 1..(n + 1) : IsFulfillmentUtxo(op, u[i]) => u[i] \in R
        /\ acc.total < op.amount => R = Seen \cup {v}
    BY <1>1, <1>2, <1>9 DEF R, v
  <2>6. acc.mismatch => \E i \in 1..(n + 1) : IsFulfillmentUtxo(op, u[i])
                                              /\ u[i].amount # op.fulfillment_fee
    BY <1>1, <1>2
  <2>7. Taken(op, u, n + 1, r, R)
    BY <1>1, <1>3, <1>6, <2>2, <2>3, <2>4, <2>5, <2>6 DEF Taken
  <2> QED
    BY <2>1, <2>7 DEF v
<1>10. CASE ~acc.stop /\ ~IsFulfillmentUtxo(op, v) /\ acc.total < op.amount
  <2> DEFINE r == [c EXCEPT !.total = @ + v.amount]
  <2>1. Consume(op, acc, v) = r
    BY <1>10 DEF Consume, c
  <2>2. /\ DOMAIN r = Loop /\ r.input = a /\ r.prevouts = b
        /\ r.found = acc.found /\ r.mismatch = acc.mismatch /\ r.stop = FALSE
        /\ r.total = v.amount + acc.total
    BY <1>1, <1>4, <1>5, <1>10 DEF Loop
  <2> HIDE DEF r
  <2>3. /\ Sparing(op, a, b)
        /\ Values(b, Rest(op, a)) = v.amount + Values(acc.prevouts, Rest(op, acc.input))
        /\ Amounts(Others(op, R)) = v.amount + Amounts(Others(op, K))
    <3>1. Values(acc.prevouts, Rest(op, acc.input)) < op.amount
      BY <1>1, <1>10
    <3>2. TookOther(op, K, v, acc.input, acc.prevouts)
      BY <1>1, <1>2, <1>4, <1>10, <3>1, TakeOther
    <3> QED
      BY <3>2 DEF TookOther, a, b, R
  <2>4. /\ R = Seen \cup {v}
        /\ (\E x \in R : IsFulfillmentUtxo(op, x)) <=> (\E x \in K : IsFulfillmentUtxo(op, x))
        /\ \A x \in R : IsFulfillmentUtxo(op, x) => x.amount = op.fulfillment_fee
    BY <1>1, <1>10 DEF R
  <2>5. \A i \in 1..(n + 1) : IsFulfillmentUtxo(op, u[i]) => u[i] \in R
    BY <1>1, <1>2, <1>10 DEF R, v
  <2>6. acc.mismatch => \E i \in 1..(n + 1) : IsFulfillmentUtxo(op, u[i])
                                              /\ u[i].amount # op.fulfillment_fee
    BY <1>1, <1>2
  <2>7. Taken(op, u, n + 1, r, R)
    BY <1>1, <1>3, <1>6, <2>2, <2>3, <2>4, <2>5, <2>6 DEF Taken
  <2> QED
    BY <2>1, <2>7 DEF v
<1>11. CASE ~acc.stop /\ ~IsFulfillmentUtxo(op, v) /\ ~(acc.total < op.amount)
  <2> DEFINE r == [acc EXCEPT !.stop = acc.found]
  <2>1. Consume(op, acc, v) = r
    BY <1>11 DEF Consume
  <2>2. /\ DOMAIN r = Loop /\ r.input = acc.input /\ r.prevouts = acc.prevouts
        /\ r.found = acc.found /\ r.mismatch = acc.mismatch /\ r.stop = acc.found
        /\ r.total = acc.total
    BY <1>1 DEF Loop
  <2> HIDE DEF r
  <2>3. acc.total >= op.amount
    BY <1>4, <1>11
  <2>4. \A i \in 1..(n + 1) : IsFulfillmentUtxo(op, u[i]) => u[i] \in K
    BY <1>1, <1>2, <1>11 DEF v
  <2>5. acc.mismatch => \E i \in 1..(n + 1) : IsFulfillmentUtxo(op, u[i])
                                              /\ u[i].amount # op.fulfillment_fee
    BY <1>1, <1>2
  <2>6. K \subseteq Seen \cup {v}
    BY <1>1
  <2>7. Taken(op, u, n + 1, r, K)
    BY <1>1, <1>3, <1>11, <2>2, <2>3, <2>4, <2>5, <2>6 DEF Taken
  <2> QED
    BY <2>1, <2>7 DEF v
<1> QED
  BY <1>7, <1>8, <1>9, <1>10, <1>11

\* What the loop takes, in whatever order the UTXOs come.
LEMMA SelectionTakes ==
    ASSUME NEW op, op.amount \in Nat, NEW S, Coins(S), NEW u, Lists(u, S)
    PROVE  \E K : Taken(op, u, Len(u), Selection(op, u), K)
<1> DEFINE n == Len(u)
           t == CHOOSE g : Turns(op, u, n, g)
<1>1. n \in Nat /\ DOMAIN u = 1..n
  BY DEF Lists
<1>2. Selection(op, u) = t[n]
  BY DEF Selection, Turns
<1>3. Turns(op, u, n, t)
  BY <1>1, TurnsExist
<1> HIDE DEF t, n
<1>4. \A i \in 0..n : t[i] = IF i = 0 THEN NothingSelected ELSE Consume(op, t[i - 1], u[i])
  BY <1>3 DEF Turns
<1> DEFINE T == {i \in Nat : i \in 0..n => \E K : Taken(op, u, i, t[i], K)}
<1>5. 0 \in T
  <2>1. Taken(op, u, 0, NothingSelected, {})
    <3>1. Rest(op, << >>) = {} /\ Others(op, {}) = {}
      BY DEF Rest, Others
    <3>2. Spending({}, << >>, << >>)
      BY FS_EmptySet DEF Spending
    <3>3. Sparing(op, << >>, << >>)
      BY <3>1 DEF Sparing
    <3>4. Values(<< >>, Rest(op, << >>)) = 0 /\ Amounts(Others(op, {})) = 0
      BY <3>1, ValuesEmpty, AmountsEmpty
    <3>5. {u[i] : i \in 1..0} = {} /\ \A i \in 1..0 : FALSE
      OBVIOUS
    <3>6. /\ DOMAIN NothingSelected = Loop /\ NothingSelected.found = FALSE
          /\ NothingSelected.mismatch = FALSE /\ NothingSelected.stop = FALSE
          /\ NothingSelected.total = 0 /\ NothingSelected.input = << >>
          /\ NothingSelected.prevouts = << >>
      BY DEF NothingSelected, Loop
    <3> QED
      BY <3>2, <3>3, <3>4, <3>5, <3>6 DEF Taken
  <2>2. 0 \in 0..n => t[0] = NothingSelected
    BY <1>4
  <2> QED
    BY <2>1, <2>2
<1>6. ASSUME NEW i \in T PROVE i + 1 \in T
  <2> SUFFICES ASSUME i + 1 \in 0..n PROVE \E K : Taken(op, u, i + 1, t[i + 1], K)
    OBVIOUS
  <2>1. i \in Nat /\ i \in 0..n /\ i + 1 \in DOMAIN u /\ i + 1 # 0 /\ (i + 1) - 1 = i
    BY <1>1
  <2>2. PICK K : Taken(op, u, i, t[i], K)
    BY <2>1
  <2>3. t[i + 1] = Consume(op, t[i], u[i + 1])
    BY <1>4, <2>1
  <2> QED
    BY <2>1, <2>2, <2>3, TakenByConsume
<1>7. n \in T
  <2> HIDE DEF T
  <2>1. T \in SUBSET Nat
    BY DEF T
  <2> QED
    BY <1>1, <1>5, <1>6, <2>1, Induction
<1> QED
  BY <1>1, <1>2, <1>7 DEF n

\* The fulfilment tx of op spends K, and leaves the fee and less than the dust
\* limit to the miner.
Balanced(op, tx, K) ==
    /\ Spending(K, tx.input, tx.prevouts) /\ Sparing(op, tx.input, tx.prevouts)
    /\ ExpectedResult(op, K) = "Ok"
    /\ Amounts(K) - Values(tx.output, DOMAIN tx.output) - op.fulfillment_fee \in 0..(DUST - 1)
    /\ tx.output[2].value = op.amount
    /\ \A i \in 2..Len(tx.output) : tx.output[i].value \in Nat

\* What the outputs are worth.
LEMMA OutputsWorth ==
    ASSUME NEW op, op.amount \in Nat, NEW key, NEW change \in Nat
    PROVE  LET outs == Outputs(op, key, change)
           IN  /\ outs[2].value = op.amount /\ \A i \in 2..Len(outs) : outs[i].value \in Nat
               /\ Values(outs, DOMAIN outs) =
                     op.amount + (IF change >= DUST THEN change ELSE 0)
<1> DEFINE outs == Outputs(op, key, change)
<1>1. outs[1].value = 0 /\ outs[2].value = op.amount /\ Len(outs) >= 2
  BY DEF Outputs
<1> DEFINE I1 == {} \cup {1}
           I2 == I1 \cup {2}
           I3 == I2 \cup {3}
<1>2. /\ change >= DUST => DOMAIN outs = I3 /\ outs[3].value = change /\ Len(outs) = 3
      /\ ~(change >= DUST) => DOMAIN outs = I2 /\ Len(outs) = 2
  BY DEF Outputs
<1>3. 1 \notin {} /\ 2 \notin I1 /\ 3 \notin I2
  OBVIOUS
<1>4. IsFiniteSet({}) /\ IsFiniteSet(I1) /\ IsFiniteSet(I2)
  BY FS_EmptySet, FS_AddElement
<1>5. /\ \A i \in I1 : outs[i].value \in Nat
      /\ \A i \in I2 : outs[i].value \in Nat
      /\ change >= DUST => \A i \in I3 : outs[i].value \in Nat
  <2> HIDE DEF outs
  <2> QED
    BY <1>1, <1>2
<1> HIDE DEF outs
<1>6. Values(outs, I1) = 0
  <2>1. Values(outs, I1) = outs[1].value + Values(outs, {})
    BY <1>3, <1>4, <1>5, ValuesAdd
  <2>2. Values(outs, {}) = 0
    BY ValuesEmpty
  <2> HIDE DEF I1
  <2> QED
    BY <1>1, <2>1, <2>2
<1>7. Values(outs, I2) = op.amount
  <2> HIDE DEF I1
  <2>1. Values(outs, I2) = outs[2].value + Values(outs, I1)
    BY <1>3, <1>4, <1>5, ValuesAdd
  <2> HIDE DEF I2
  <2> QED
    BY <1>1, <1>6, <2>1
<1>8. change >= DUST => Values(outs, I3) = op.amount + change
  <2> SUFFICES ASSUME change >= DUST PROVE Values(outs, I3) = op.amount + change
    OBVIOUS
  <2> HIDE DEF I1, I2
  <2>1. Values(outs, I3) = outs[3].value + Values(outs, I2)
    BY <1>3, <1>4, <1>5, ValuesAdd
  <2> HIDE DEF I3
  <2> QED
    BY <1>2, <1>7, <2>1
<1>9. \A i \in 2..Len(outs) : outs[i].value \in Nat
  BY <1>1, <1>2
<1>10. Values(outs, DOMAIN outs) = op.amount + (IF change >= DUST THEN change ELSE 0)
  <2> HIDE DEF I1, I2, I3
  <2> QED
    BY <1>2, <1>7, <1>8
<1> QED
  BY <1>1, <1>9, <1>10 DEF outs

\* The UTXOs that are not taken change nothing, in whatever order they come:
\* the loop ends as the set calls for, and what it builds is balanced.
LEMMA FulfilmentMatches ==
    ASSUME NEW op, op.amount \in Nat, op.fulfillment_fee \in Nat, NEW key,
           NEW S, Coins(S), NEW u, Lists(u, S)
    PROVE  LET tx == fulfill_peg_out(op, key, u)
           IN  /\ ExpectedResult(op, S) = IF "err" \in DOMAIN tx THEN tx.err ELSE "Ok"
               /\ "err" \notin DOMAIN tx => \E K \in SUBSET S : Balanced(op, tx, K)
<1> DEFINE tx == fulfill_peg_out(op, key, u)
           sel == Selection(op, u)
           n == Len(u)
           own == {v \in S : IsFulfillmentUtxo(op, v)}
<1>1. PICK K : Taken(op, u, n, sel, K)
  BY SelectionTakes
<1>2. {u[i] : i \in 1..n} = S /\ 1..n = DOMAIN u
  BY DEF Lists
<1> HIDE DEF n, sel
<1>3. /\ sel.found \in BOOLEAN /\ sel.mismatch \in BOOLEAN /\ sel.stop \in BOOLEAN /\ K \in SUBSET S
      /\ Spending(K, sel.input, sel.prevouts) /\ Sparing(op, sel.input, sel.prevouts)
      /\ sel.total = Amounts(Others(op, K))
      /\ sel.found <=> \E v \in K : IsFulfillmentUtxo(op, v)
      /\ \A v \in K : IsFulfillmentUtxo(op, v) => v.amount = op.fulfillment_fee
      /\ sel.mismatch => \E v \in own : v.amount # op.fulfillment_fee
      /\ sel.stop => sel.mismatch \/ (sel.found /\ sel.total >= op.amount)
      /\ ~sel.stop => own \subseteq K
      /\ ~sel.stop /\ sel.total < op.amount => K = S
  BY <1>1, <1>2 DEF Taken
<1>4. tx = CASE sel.mismatch -> [err |-> "MismatchedFulfillmentFee"]
             [] ~sel.mismatch /\ ~sel.found -> [err |-> "MissingFulfillmentUTXO"]
             [] ~sel.mismatch /\ sel.found /\ sel.total < op.amount ->
                   [err |-> "InsufficientFunds"]
             [] OTHER -> [input |-> sel.input, prevouts |-> sel.prevouts,
                          output |-> Outputs(op, key, sel.total - op.amount)]
  BY DEF fulfill_peg_out, sel
<1>5. ExpectedResult(op, S) =
         CASE own = {} -> "MissingFulfillmentUTXO"
           [] \E v \in own : v.amount # op.fulfillment_fee -> "MismatchedFulfillmentFee"
           [] own # {} /\ (\A v \in own : v.amount = op.fulfillment_fee)
                 /\ Amounts(S \ own) < op.amount -> "InsufficientFunds"
           [] OTHER -> "Ok"
  BY DEF ExpectedResult
<1> HIDE DEF tx
<1>6. \A v, x \in own : v = x
  BY DEF Coins, IsFulfillmentUtxo, utxo_to_input
<1>7. /\ Others(op, K) \in SUBSET (S \ own) /\ IsFiniteSet(S \ own)
      /\ \A v \in S \ own : v.amount \in Nat
  BY <1>3, FS_Difference DEF Others, Coins
<1> DEFINE o == S \ own
<1>8. Amounts(Others(op, K)) \in Nat /\ Amounts(o) \in Nat /\ Amounts(Others(op, K)) <= Amounts(o)
  <2>1. o \in SUBSET o
    OBVIOUS
  <2> HIDE DEF o
  <2> QED
    BY <1>7, <2>1, AmountsPart DEF o
<1>9. K = S => Others(op, K) = o
  BY DEF Others
<1>10. sel.total \in Nat
  BY <1>3, <1>8
<1>11. CASE sel.mismatch
  <2>1. own # {} /\ \E v \in own : v.amount # op.fulfillment_fee
    BY <1>3, <1>11
  <2>2. tx = [err |-> "MismatchedFulfillmentFee"]
    BY <1>4, <1>11
  <2>3. ExpectedResult(op, S) = "MismatchedFulfillmentFee"
    <3> HIDE DEF own
    <3> QED
      BY <1>5, <2>1
  <2> QED
    BY <2>2, <2>3 DEF tx
<1>12. CASE ~sel.mismatch /\ ~sel.found
  <2>1. own = {}
    BY <1>3, <1>12
  <2>2. tx = [err |-> "MissingFulfillmentUTXO"]
    BY <1>4, <1>12
  <2>3. ExpectedResult(op, S) = "MissingFulfillmentUTXO"
    <3> HIDE DEF own
    <3> QED
      BY <1>5, <2>1
  <2> QED
    BY <2>2, <2>3 DEF tx
<1>13. CASE ~sel.mismatch /\ sel.found
  <2>1. PICK f \in K : IsFulfillmentUtxo(op, f) /\ f.amount = op.fulfillment_fee
    BY <1>3, <1>13
  <2>2. own = {f} /\ own # {} /\ (\A v \in own : v.amount = op.fulfillment_fee)
        /\ ~(\E v \in own : v.amount # op.fulfillment_fee)
    BY <1>3, <1>6, <2>1
  <2>3. CASE sel.total < op.amount
    <3>1. tx = [err |-> "InsufficientFunds"]
      BY <1>4, <1>13, <2>3
    <3>2. K = S
      BY <1>3, <1>10, <1>13, <2>3
    <3>3. Amounts(S \ own) < op.amount
      BY <1>3, <1>9, <2>3, <3>2
    <3>4. ExpectedResult(op, S) = "InsufficientFunds"
      <4> HIDE DEF own
      <4> QED
        BY <1>5, <2>2, <3>3
    <3> QED
      BY <3>1, <3>4 DEF tx
  <2>4. CASE ~(sel.total < op.amount)
    <3> DEFINE change == sel.total - op.amount
               outs == Outputs(op, key, change)
    <3>1. tx = [input |-> sel.input, prevouts |-> sel.prevouts, output |-> outs]
      BY <1>4, <1>13, <2>4
    <3>2. change \in Nat
      BY <1>10, <2>4
    <3>3. tx.input = sel.input /\ tx.prevouts = sel.prevouts /\ tx.output = outs
          /\ "err" \notin DOMAIN tx
      <4> HIDE DEF outs
      <4> QED
        BY <3>1
    <3>4. ~(Amounts(S \ own) < op.amount)
      BY <1>3, <1>8, <1>10, <2>4
    <3>5. ExpectedResult(op, S) = "Ok"
      <4> HIDE DEF own
      <4> QED
        BY <1>5, <2>2, <3>4
    <3>6. {v \in K : IsFulfillmentUtxo(op, v)} = {f} /\ K \ {f} = Others(op, K)
      BY <1>3, <2>1, <2>2 DEF Others
    <3>7. ExpectedResult(op, K) = "Ok"
      <4> DEFINE mine == {v \in K : IsFulfillmentUtxo(op, v)}
      <4>1. mine = {f} /\ ~(Amounts(K \ mine) < op.amount)
        BY <1>3, <2>4, <3>6
      <4>2. ExpectedResult(op, K) =
               CASE mine = {} -> "MissingFulfillmentUTXO"
                 [] \E v \in mine : v.amount # op.fulfillment_fee -> "MismatchedFulfillmentFee"
                 [] mine # {} /\ (\A v \in mine : v.amount = op.fulfillment_fee)
                       /\ Amounts(K \ mine) < op.amount -> "InsufficientFunds"
                 [] OTHER -> "Ok"
        BY DEF ExpectedResult
      <4> HIDE DEF mine
      <4>3. mine # {} /\ ~(\E v \in mine : v.amount # op.fulfillment_fee)
        BY <2>1, <4>1
      <4> QED
        BY <4>1, <4>2, <4>3
    <3>8. Amounts(K) = op.fulfillment_fee + sel.total
      <4> DEFINE r == Others(op, K)
      <4>1. f \notin r /\ r \cup {f} = K /\ r \in SUBSET S
        BY <1>3, <2>1, <3>6 DEF Others
      <4>2. IsFiniteSet(r) /\ (\A v \in r : v.amount \in Nat) /\ f.amount \in Nat
        BY <1>3, <2>1, <4>1, FS_Subset DEF Coins
      <4> HIDE DEF r
      <4>3. Amounts(r \cup {f}) = f.amount + Amounts(r)
        BY <4>1, <4>2, AmountsAdd
      <4> QED
        BY <1>3, <2>1, <4>1, <4>3 DEF r
    <3>9. /\ outs[2].value = op.amount /\ \A i \in 2..Len(outs) : outs[i].value \in Nat
          /\ Values(outs, DOMAIN outs) = op.amount + (IF change >= DUST THEN change ELSE 0)
      <4> HIDE DEF change
      <4> QED
        BY <3>2, OutputsWorth
    <3>10. Amounts(K) - Values(outs, DOMAIN outs) - op.fulfillment_fee \in 0..(DUST - 1)
      <4> HIDE DEF outs
      <4>1. change = sel.total - op.amount
        OBVIOUS
      <4> HIDE DEF change
      <4>2. PICK spent, worth, fee, amount, rest :
               /\ spent = Amounts(K) /\ worth = Values(outs, DOMAIN outs)
               /\ fee = op.fulfillment_fee /\ amount = op.amount /\ rest = change
        OBVIOUS
      <4>3. fee \in Nat /\ amount \in Nat /\ rest \in Nat /\ spent = fee + (rest + amount)
            /\ worth = amount + (IF rest >= DUST THEN rest ELSE 0)
        BY <1>10, <3>2, <3>8, <3>9, <4>1, <4>2
      <4>4. spent - worth - fee \in 0..(DUST - 1)
        BY <4>3, DustAssumption
      <4> QED
        BY <4>2, <4>4
    <3> HIDE DEF outs, change
    <3>11. Balanced(op, tx, K)
      BY <1>3, <3>3, <3>7, <3>9, <3>10 DEF Balanced
    <3> QED
      BY <1>3, <3>3, <3>5, <3>11 DEF tx
  <2> QED
    BY <2>3, <2>4
<1> QED
  BY <1>3, <1>11, <1>12, <1>13

-----------------------------------------------------------------------------
(* The invariant.                                                          *)

\* A transaction with one of these calls is being made.
Calling(calls) == pc \in {"nonce", "broadcast"} /\ self.task.call \in calls

\* An operation is in hand; its fulfilment is.
InHand == pc \in {"unspent", "sign", "btc"} \/ Calling({"mint!", "burn!"})
Fulfilling == pc \in {"sign", "btc"} \/ Calling({"burn!"})

\* tx can fulfil o, and spends its fulfilment UTXO.
Fulfils(o, tx) ==
    /\ ~PegIn(o) /\ Detail[o].paid = Detail[o].fulfillment_fee
    /\ \E i \in DOMAIN tx.input : tx.input[i] = [txid |-> o, vout |-> 2]
    /\ Len(tx.output) \in 2..3

\* Nonces and retries stay within their bounds.
CountersInv ==
    /\ account_nonce \in 0..(MaxNonce + 1)
    /\ next_nonce \in 0..MaxNonce \cup {None}
    /\ nonce \in 0..MaxNonce \cup {None}
    /\ pc = "broadcast" => nonce \in 0..MaxNonce
    /\ \A t \in txs : t.nonce \in 0..MaxNonce /\ t.call \in Call
    /\ signer_key \in Nat

\* What the process holds at each point.
HoldsInv ==
    /\ pc \in Label /\ DOMAIN self = Fields
    /\ IF pc \in {"nonce", "broadcast"}
       THEN self.task \in [call : Call, arg : Op \cup Nat \cup {ADDRESS}]
       ELSE self.task = None
    /\ IF InHand THEN self.cur \in Op \cap requested ELSE self.cur = None
    /\ Calling({"mint!"}) => PegIn(self.cur) /\ self.task.arg = self.cur
    /\ Calling({"burn!"}) => self.task.arg = self.cur
    /\ pc = "unspent" => ~PegIn(self.cur)
    /\ IF Fulfilling THEN Fulfils(self.cur, self.fulfill_tx) ELSE self.fulfill_tx = None
    /\ pc = "write" => self.key \in Nat
    /\ self.nonce_retries \in 0..MAX_NONCE_RETRIES
    /\ self.fee_retries \in 0..MAX_FEE_RETRIES

\* The transactions of an operation on the Stacks chain: no more than it was
\* handed out for, one of which is still to come if the operation is in hand
\* before its transaction is accepted.
Coming(o) == IF self.cur = o /\ pc # "btc" THEN 1 ELSE 0
StacksInv ==
    /\ IsFiniteSet(txs)
    /\ hands \in [Op -> Nat]
    /\ \A o \in Op : Cardinality(OpTxs(o)) + Coming(o) <= hands[o]
    /\ \A t \in txs : t.call = "mint!" => PegIn(t.arg)
    /\ \A t \in txs : t.call = "burn!" =>
          Detail[t.arg].burnable /\ Detail[t.arg].paid = Detail[t.arg].fulfillment_fee
    /\ pc = "btc" => OpTxs(self.cur) # {}

\* u is the output of o that pays for the fulfilment.
FulfilmentOutput(o, u) == u.txid = o /\ u.vout = 2

\* The UTXOs of the operations: a fulfilment UTXO holds what was paid, and is
\* spent once its request is fulfilled.
BitcoinInv ==
    /\ IsFiniteSet(utxos)
    /\ \A u \in utxos : \A o \in Op :
          FulfilmentOutput(o, u) => o \in requested /\ u.amount = Detail[o].paid
    /\ \A s \in sent : s.op \in Op \cap requested /\ OpTxs(s.op) # {}
    /\ \A s \in sent : ~PegIn(s.op) /\ \A u \in utxos : ~FulfilmentOutput(s.op, u)
    /\ \A s, r \in sent : s.op = r.op => s = r

\* What is marked, ended or done was requested; what is done has been done.
QueueInv ==
    /\ marked \cup cut \cup done \subseteq requested /\ requested \subseteq Op
    /\ \A o \in done : OpTxs(o) # {} /\ (~PegIn(o) => \E s \in sent : s.op = o)

\* The inductive invariant.
OperationInv == CountersInv /\ HoldsInv /\ StacksInv /\ BitcoinInv /\ QueueInv

\* It holds at first.
LEMMA InitOperationInv == Init => OperationInv
<1> SUFFICES ASSUME Init PROVE OperationInv
  OBVIOUS
<1>1. /\ txs = {} /\ account_nonce = 0 /\ next_nonce = None /\ pc = "down" /\ self = NoProcess
      /\ nonce = None /\ signer_key = 0 /\ marked = {} /\ requested = {} /\ done = {} /\ cut = {}
      /\ hands = [o \in Op |-> 0] /\ utxos = {} /\ sent = {}
  BY DEF Init, NodeInit, BitcoinInit
<1>2. CountersInv
  BY <1>1, ClientAssumption DEF CountersInv
<1>3. HoldsInv
  BY <1>1, CoordinatorAssumption
  DEF HoldsInv, InHand, Fulfilling, Calling, Label, NoProcess, Fields
<1>4. StacksInv
  <2>1. self.cur = None /\ None \notin Op
    BY <1>1, CoordinatorAssumption DEF NoProcess
  <2>2. ASSUME NEW o \in Op
        PROVE  Cardinality(OpTxs(o)) + Coming(o) <= hands[o]
    <3>1. OpTxs(o) = {} /\ Coming(o) = 0 /\ hands[o] = 0
      BY <1>1, <2>1 DEF OpTxs, Coming
    <3> QED
      BY <3>1, FS_EmptySet
  <2> QED
    BY <1>1, <2>2, FS_EmptySet DEF StacksInv
<1>5. BitcoinInv
  BY <1>1, FS_EmptySet DEF BitcoinInv
<1>6. QueueInv
  BY <1>1 DEF QueueInv
<1> QED
  BY <1>2, <1>3, <1>4, <1>5, <1>6 DEF OperationInv

\* The transactions of one operation are finitely many.
LEMMA OpTxsFinite ==
    ASSUME IsFiniteSet(txs), NEW o
    PROVE  IsFiniteSet(OpTxs(o)) /\ Cardinality(OpTxs(o)) \in Nat
<1>1. OpTxs(o) \in SUBSET txs
  BY DEF OpTxs
<1> QED
  BY <1>1, FS_Subset, FS_CardinalityType

\* A step that leaves the Stacks chain alone.
LEMMA StacksKept ==
    ASSUME OperationInv, UNCHANGED <<txs, hands>>, \A o \in Op : Coming(o)' <= Coming(o),
           pc' = "btc" => pc = "btc" /\ self'.cur = self.cur
    PROVE  StacksInv'
<1>1. \A o : OpTxs(o)' = OpTxs(o)
  BY DEF OpTxs
<1>2. ASSUME NEW o \in Op
      PROVE  Cardinality(OpTxs(o)') + Coming(o)' <= hands'[o]
  <2>1. Cardinality(OpTxs(o)) \in Nat
    BY OpTxsFinite DEF OperationInv, StacksInv
  <2>2. Coming(o) \in {0, 1} /\ Coming(o)' \in {0, 1} /\ Coming(o)' <= Coming(o)
    BY DEF Coming
  <2>3. hands'[o] \in Nat /\ hands' = hands /\ OpTxs(o)' = OpTxs(o)
        /\ Cardinality(OpTxs(o)) + Coming(o) <= hands[o]
    BY <1>1 DEF OperationInv, StacksInv
  <2> HIDE DEF Coming
  <2> QED
    BY <2>1, <2>2, <2>3
<1> QED
  BY <1>1, <1>2 DEF OperationInv, StacksInv

\* A step that leaves both chains and the queue alone.
LEMMA ChainsKept ==
    ASSUME OperationInv, UNCHANGED <<txs, utxos, sent, marked, requested, hands, done>>,
           cut' \subseteq cut \cup (requested \cap {self.cur}),
           CountersInv', HoldsInv', \A o \in Op : Coming(o)' <= Coming(o),
           pc' = "btc" => pc = "btc" /\ self'.cur = self.cur
    PROVE  OperationInv'
<1>1. \A o : OpTxs(o)' = OpTxs(o)
  BY DEF OpTxs
<1>2. StacksInv'
  BY StacksKept
<1>3. BitcoinInv'
  BY <1>1 DEF OperationInv, BitcoinInv, FulfilmentOutput
<1>4. QueueInv'
  BY <1>1 DEF OperationInv, QueueInv
<1> QED
  BY <1>2, <1>3, <1>4 DEF OperationInv

\* The process ends.
LEMMA AfterExit ==
    ASSUME OperationInv, Exit, UNCHANGED <<txs, account_nonce, utxos, sent>>, signer_key' \in Nat
    PROVE  OperationInv'
<1>1. CountersInv'
  BY DEF OperationInv, CountersInv, Exit
<1>2. HoldsInv'
  BY CoordinatorAssumption
  DEF HoldsInv, InHand, Fulfilling, Calling, Label, NoProcess, Fields, Exit
<1>3. \A o \in Op : Coming(o)' <= Coming(o)
  BY CoordinatorAssumption DEF Coming, Exit, NoProcess
<1>4. cut' \subseteq cut \cup (requested \cap {self.cur})
  BY DEF OperationInv, HoldsInv, Exit
<1> QED
  BY <1>1, <1>2, <1>3, <1>4, ChainsKept DEF Exit

\* Points at which no operation and no transaction is in hand.
Resting == {"coordinator", "dkg_data", "dkg", "write", "wallet", "import", "queue", "round", "idle"}

\* A step between two points at which neither an operation nor a transaction
\* is in hand.
LEMMA AtRest ==
    ASSUME OperationInv, pc \in Resting \cup {"down"}, pc' \in Resting,
           UNCHANGED <<txs, account_nonce, next_nonce, nonce, utxos, sent, queueVars>>,
           signer_key' \in Nat, DOMAIN self' = Fields,
           self'.task = self.task, self'.cur = self.cur, self'.fulfill_tx = self.fulfill_tx,
           self'.nonce_retries \in {0, self.nonce_retries},
           self'.fee_retries \in {0, self.fee_retries},
           pc' = "write" => self'.key \in Nat
    PROVE  OperationInv'
<1>1. CountersInv'
  BY DEF OperationInv, CountersInv, Resting
<1>2. self.cur = None /\ self.task = None /\ self.fulfill_tx = None
  BY DEF OperationInv, HoldsInv, InHand, Fulfilling, Calling, Resting
<1>3. HoldsInv'
  BY <1>2, CoordinatorAssumption
  DEF OperationInv, HoldsInv, InHand, Fulfilling, Calling, Resting, Label
<1>4. \A o \in Op : Coming(o)' <= Coming(o)
  BY <1>2, CoordinatorAssumption DEF Coming
<1> QED
  BY <1>1, <1>3, <1>4, ChainsKept DEF queueVars, Resting

\* The start asks for a transaction that is about no operation.
LEMMA SettingUp ==
    ASSUME OperationInv, pc \in Resting, pc' = "nonce",
           UNCHANGED <<txs, account_nonce, next_nonce, nonce, utxos, sent, queueVars>>,
           signer_key' \in Nat, NEW mem, NEW call \in Call \ {"mint!", "burn!"},
           NEW arg \in Nat \cup {ADDRESS},
           DOMAIN mem = Fields, mem.cur = self.cur, mem.fulfill_tx = self.fulfill_tx,
           mem.nonce_retries = self.nonce_retries, mem.fee_retries = self.fee_retries,
           self' = [mem EXCEPT !.task = Task(call, arg)]
    PROVE  OperationInv'
<1>1. CountersInv'
  BY DEF OperationInv, CountersInv
<1>2. self.cur = None /\ self.fulfill_tx = None
  BY DEF OperationInv, HoldsInv, InHand, Fulfilling, Calling, Resting
<1>3. /\ DOMAIN self' = Fields /\ self'.cur = None /\ self'.fulfill_tx = None
      /\ self'.nonce_retries = self.nonce_retries /\ self'.fee_retries = self.fee_retries
      /\ self'.task = Task(call, arg)
  BY <1>2 DEF Fields
<1>4. Task(call, arg) \in [call : Call, arg : Op \cup Nat \cup {ADDRESS}]
      /\ Task(call, arg).call = call
  BY DEF Task
<1>5. HoldsInv'
  BY <1>3, <1>4 DEF OperationInv, HoldsInv, InHand, Fulfilling, Calling, Label
<1>6. \A o \in Op : Coming(o)' <= Coming(o)
  BY <1>2, <1>3, CoordinatorAssumption DEF Coming
<1> QED
  BY <1>1, <1>5, <1>6, ChainsKept DEF queueVars

\* The node accepts the transaction in hand.  It is the one that was to come
\* if it is an operation's; a burn was built, and its fulfilment too.
LEMMA StacksAccepts ==
    ASSUME OperationInv, pc = "broadcast", Buildable,
           Accept(nonce, self.task.call, self.task.arg)
    PROVE  /\ IsFiniteSet(txs')
           /\ \A o \in Op : Cardinality(OpTxs(o)') <= Cardinality(OpTxs(o)) + Coming(o)
           /\ \A o : OpTxs(o) \subseteq OpTxs(o)'
           /\ self.task.call \in {"mint!", "burn!"} => \A o : o = self.cur => OpTxs(o)' # {}
           /\ \A t \in txs' : /\ t.nonce \in 0..MaxNonce /\ t.call \in Call
                              /\ t.call = "mint!" => PegIn(t.arg)
                              /\ t.call = "burn!" =>
                                    Detail[t.arg].burnable
                                    /\ Detail[t.arg].paid = Detail[t.arg].fulfillment_fee
<1> DEFINE new == [nonce |-> nonce, call |-> self.task.call, arg |-> self.task.arg]
<1>1. /\ txs' = txs \cup {new} /\ new.nonce = nonce /\ new.call = self.task.call
      /\ new.arg = self.task.arg
  BY DEF Accept, build_transaction_signed
<1>2. nonce \in 0..MaxNonce /\ self.task.call \in Call
  BY DEF OperationInv, CountersInv, HoldsInv
<1>3. self.task.call = "mint!" => PegIn(self.cur) /\ self.task.arg = self.cur
  BY DEF OperationInv, HoldsInv, Calling
<1>4. self.task.call = "burn!" =>
         /\ self.task.arg = self.cur /\ Detail[self.cur].burnable
         /\ Detail[self.cur].paid = Detail[self.cur].fulfillment_fee
  BY DEF OperationInv, HoldsInv, Calling, Fulfilling, Fulfils, Buildable
<1> HIDE DEF new
<1>5. IsFiniteSet(txs) /\ IsFiniteSet(txs')
  BY <1>1, FS_AddElement DEF OperationInv, StacksInv
<1>6. ASSUME NEW o
      PROVE  OpTxs(o)' = OpTxs(o) \/ (/\ OpTxs(o)' = OpTxs(o) \cup {new}
                                      /\ self.task.call \in {"mint!", "burn!"}
                                      /\ self.task.arg = o)
  <2>1. CASE new.call \in {"mint!", "burn!"} /\ new.arg = o
    BY <1>1, <2>1 DEF OpTxs
  <2>2. CASE ~(new.call \in {"mint!", "burn!"} /\ new.arg = o)
    BY <1>1, <2>2 DEF OpTxs
  <2> QED
    BY <2>1, <2>2
<1>7. ASSUME NEW o \in Op
      PROVE  Cardinality(OpTxs(o)') <= Cardinality(OpTxs(o)) + Coming(o)
  <2>1. IsFiniteSet(OpTxs(o)) /\ Cardinality(OpTxs(o)) \in Nat
    BY <1>5, OpTxsFinite
  <2>2. Coming(o) \in {0, 1}
    BY DEF Coming
  <2>3. CASE OpTxs(o)' = OpTxs(o)
    <3> HIDE DEF Coming
    <3> QED
      BY <2>1, <2>2, <2>3
  <2>4. CASE OpTxs(o)' # OpTxs(o)
    <3>1. OpTxs(o)' = OpTxs(o) \cup {new} /\ Coming(o) = 1
      BY <1>3, <1>4, <1>6, <2>4 DEF Coming
    <3>2. Cardinality(OpTxs(o) \cup {new}) \in {Cardinality(OpTxs(o)), Cardinality(OpTxs(o)) + 1}
      BY <2>1, FS_AddElement
    <3> QED
      BY <2>1, <3>1, <3>2
  <2> QED
    BY <2>3, <2>4
<1>8. ASSUME self.task.call \in {"mint!", "burn!"}, NEW o, o = self.cur
      PROVE  OpTxs(o)' # {}
  <2>1. new \in OpTxs(o)'
    BY <1>1, <1>3, <1>4, <1>8 DEF OpTxs
  <2> QED
    BY <2>1
<1>9. \A t \in txs' : /\ t.nonce \in 0..MaxNonce /\ t.call \in Call
                      /\ t.call = "mint!" => PegIn(t.arg)
                      /\ t.call = "burn!" =>
                            Detail[t.arg].burnable
                            /\ Detail[t.arg].paid = Detail[t.arg].fulfillment_fee
  BY <1>1, <1>2, <1>3, <1>4 DEF OperationInv, CountersInv, StacksInv
<1> QED
  BY <1>5, <1>6, <1>7, <1>8, <1>9

\* The invariants of both chains and the queue after a transaction of the
\* Stacks chain, whatever the process does next.
LEMMA AfterAccept ==
    ASSUME OperationInv, pc = "broadcast", Buildable,
           Accept(nonce, self.task.call, self.task.arg),
           UNCHANGED <<account_nonce, signer_key, utxos, sent, marked, requested, hands>>,
           next_nonce' \in {next_nonce, None}, nonce' = None, pc' # "broadcast",
           HoldsInv', self'.cur = None \/ (pc' = "btc" /\ self'.cur = self.cur /\ InHand),
           cut' \subseteq cut \cup (requested \cap {self.cur}),
           done' = done \/ (done' = done \cup {self.cur} /\ self.task.call = "mint!")
    PROVE  OperationInv'
<1>0. self.task.call \in {"mint!", "burn!"} <=> InHand
  BY DEF InHand, Calling
<1>1. CountersInv'
  <2>1. \A t \in txs' : t.nonce \in 0..MaxNonce /\ t.call \in Call
    BY StacksAccepts
  <2> QED
    BY <2>1 DEF OperationInv, CountersInv
<1>2. StacksInv'
  <2>1. ASSUME NEW o \in Op
        PROVE  Cardinality(OpTxs(o)') + Coming(o)' <= hands'[o]
    <3>1. Coming(o) \in {0, 1} /\ Coming(o)' = 0
      BY CoordinatorAssumption DEF Coming
    <3>2. /\ Cardinality(OpTxs(o)) \in Nat /\ Cardinality(OpTxs(o)') \in Nat
          /\ Cardinality(OpTxs(o)') <= Cardinality(OpTxs(o)) + Coming(o)
      <4>1. IsFiniteSet(txs)
        BY DEF OperationInv, StacksInv
      <4>2. IsFiniteSet(txs')
        BY StacksAccepts
      <4>3. OpTxs(o)' \in SUBSET txs'
        BY DEF OpTxs
      <4> QED
        BY <4>1, <4>2, <4>3, StacksAccepts, OpTxsFinite, FS_Subset, FS_CardinalityType
    <3>3. hands'[o] \in Nat /\ hands' = hands
          /\ Cardinality(OpTxs(o)) + Coming(o) <= hands[o]
      BY DEF OperationInv, StacksInv
    <3> HIDE DEF Coming
    <3> QED
      BY <3>1, <3>2, <3>3
  <2>2. pc' = "btc" => OpTxs(self.cur)' # {}
    <3>1. CASE self'.cur = None
      BY <3>1, CoordinatorAssumption DEF HoldsInv, InHand
    <3>2. CASE self'.cur = self.cur /\ InHand
      <4>1. \A o : o = self.cur => OpTxs(o)' # {}
        BY <1>0, <3>2, StacksAccepts
      <4> QED
        BY <3>2, <4>1
    <3> QED
      BY <3>1, <3>2
  <2>3. /\ IsFiniteSet(txs')
        /\ \A t \in txs' : /\ t.call = "mint!" => PegIn(t.arg)
                           /\ t.call = "burn!" =>
                                 Detail[t.arg].burnable
                                 /\ Detail[t.arg].paid = Detail[t.arg].fulfillment_fee
    BY StacksAccepts
  <2> QED
    BY <2>1, <2>2, <2>3 DEF OperationInv, StacksInv
<1>3. BitcoinInv'
  BY StacksAccepts DEF OperationInv, BitcoinInv, FulfilmentOutput
<1>4. QueueInv'
  <2>1. self.task.call = "mint!" =>
           /\ PegIn(self.cur) /\ self.cur \in requested
           /\ \A o : o = self.cur => OpTxs(o)' # {}
    BY <1>0, StacksAccepts DEF OperationInv, HoldsInv, Calling
  <2> QED
    BY <2>1, StacksAccepts DEF OperationInv, QueueInv
<1> QED
  BY <1>1, <1>2, <1>3, <1>4 DEF OperationInv

\* A fulfilment that can be broadcast is the first of its request: it spends
\* the fulfilment UTXO, which no later fulfilment of the request will find.
LEMMA BitcoinPays ==
    ASSUME OperationInv, pc = "btc", UNCHANGED <<txs, requested>>,
           broadcast_bitcoin(self.cur, self.fulfill_tx)
    PROVE  /\ BitcoinInv' /\ \A o : OpTxs(o)' = OpTxs(o)
           /\ sent \subseteq sent' /\ \E s \in sent' : s.op = self.cur
           /\ self.cur \in requested /\ OpTxs(self.cur) # {} /\ ~PegIn(self.cur)
<1> DEFINE o == self.cur
           tx == self.fulfill_tx
           new == [op |-> o, input |-> tx.input, output |-> tx.output]
           out == [txid |-> o, vout |-> 2]
<1>1. o \in Op /\ o \in requested /\ Fulfils(o, tx) /\ OpTxs(o) # {}
  BY DEF OperationInv, HoldsInv, StacksInv, InHand, Fulfilling
<1>2. /\ Spendable(tx) /\ utxos' = (utxos \ Spends(tx)) \cup Creates(o, tx)
      /\ sent' = sent \cup {new}
  BY DEF broadcast_bitcoin
<1> HIDE DEF o, tx
<1>3. PICK k \in DOMAIN tx.input : tx.input[k] = out
  BY <1>1 DEF Fulfils
<1>4. PICK w \in utxos : w.txid = o /\ w.vout = 2
  <2>1. PICK w \in utxos : tx.input[k] = [txid |-> w.txid, vout |-> w.vout]
    BY <1>2 DEF Spendable
  <2>2. [txid |-> w.txid, vout |-> w.vout] = out
    BY <1>3, <2>1
  <2> QED
    BY <2>2
<1>5. \A s \in sent : s.op # o
  BY <1>4 DEF OperationInv, BitcoinInv, FulfilmentOutput
<1>6. new.op = o /\ new.input = tx.input
  OBVIOUS
<1> HIDE DEF new
<1>7. \A p : OpTxs(p)' = OpTxs(p)
  BY DEF OpTxs
<1>8. \A u \in Creates(o, tx) : \A p \in Op : ~FulfilmentOutput(p, u)
  BY <1>1, CoordinatorAssumption DEF Creates, FulfilmentOutput
<1>9. \A u \in Creates(o, tx) :
          \/ u = [txid |-> <<"tx", o>>, vout |-> 2 - 1, amount |-> tx.output[2].value,
                  key |-> tx.output[2].script]
          \/ u = [txid |-> <<"tx", o>>, vout |-> 3 - 1, amount |-> tx.output[3].value,
                  key |-> tx.output[3].script]
  <2>1. \A i \in 2..Len(tx.output) : i = 2 \/ i = 3
    <3>1. \A n \in 2..3 : \A i \in 2..n : i = 2 \/ i = 3
      OBVIOUS
    <3>2. Len(tx.output) \in 2..3
      BY <1>1 DEF Fulfils
    <3> QED
      BY <3>1, <3>2, Zenon
  <2> QED
    BY <2>1 DEF Creates
<1>10. IsFiniteSet(utxos')
  <2> DEFINE a == [txid |-> <<"tx", o>>, vout |-> 2 - 1, amount |-> tx.output[2].value,
                   key |-> tx.output[2].script]
             b == [txid |-> <<"tx", o>>, vout |-> 3 - 1, amount |-> tx.output[3].value,
                   key |-> tx.output[3].script]
  <2>1. \A u \in Creates(o, tx) : u = a \/ u = b
    BY <1>9
  <2> HIDE DEF a, b
  <2>2. IsFiniteSet(utxos \cup {a})
    BY FS_AddElement DEF OperationInv, BitcoinInv
  <2>3. IsFiniteSet((utxos \cup {a}) \cup {b})
    BY <2>2, FS_AddElement
  <2>4. utxos' \in SUBSET ((utxos \cup {a}) \cup {b})
    BY <1>2, <2>1
  <2> QED
    BY <2>3, <2>4, FS_Subset
<1>11. \A u \in utxos' : \A p \in Op : FulfilmentOutput(p, u) => u \in utxos /\ p # o
  <2> SUFFICES ASSUME NEW u \in utxos', NEW p \in Op, FulfilmentOutput(p, u)
               PROVE  u \in utxos /\ p # o
    OBVIOUS
  <2>1. u \in utxos \ Spends(tx)
    BY <1>2, <1>8
  <2>2. u.txid = p /\ u.vout = 2
    BY DEF FulfilmentOutput
  <2>3. p = o => [txid |-> u.txid, vout |-> u.vout] = out
    BY <2>2
  <2> QED
    BY <1>3, <2>1, <2>3 DEF Spends
<1>12. \A s \in sent' : /\ s.op \in Op \cap requested /\ OpTxs(s.op) # {} /\ ~PegIn(s.op)
                        /\ \A u \in utxos' : ~FulfilmentOutput(s.op, u)
  <2>1. \A s \in sent : /\ s.op \in Op \cap requested /\ OpTxs(s.op) # {} /\ ~PegIn(s.op)
                        /\ \A u \in utxos : ~FulfilmentOutput(s.op, u)
    BY DEF OperationInv, BitcoinInv
  <2> QED
    BY <1>1, <1>2, <1>6, <1>11, <2>1 DEF Fulfils
<1>13. \A s, r \in sent' : s.op = r.op => s = r
  BY <1>2, <1>5, <1>6 DEF OperationInv, BitcoinInv
<1>14. \A u \in utxos' : \A p \in Op :
          FulfilmentOutput(p, u) => p \in requested' /\ u.amount = Detail[p].paid
  BY <1>11 DEF OperationInv, BitcoinInv
<1>15. BitcoinInv'
  <2>1. \A s \in sent' : OpTxs(s.op)' # {}
    BY <1>7, <1>12
  <2> QED
    BY <1>10, <1>12, <1>13, <1>14, <2>1 DEF BitcoinInv, FulfilmentOutput
<1> QED
  BY <1>1, <1>2, <1>6, <1>7, <1>15 DEF o, Fulfils

\* What the UTXOs in whatever order yield, if it is a transaction.
LEMMA FulfilmentIsFor ==
    ASSUME OperationInv, pc = "unspent", NEW available \in list_unspent(self.key),
           "err" \notin DOMAIN fulfill_peg_out(Detail[self.cur], self.key, available)
    PROVE  Fulfils(self.cur, fulfill_peg_out(Detail[self.cur], self.key, available))
<1> DEFINE o == self.cur
           tx == fulfill_peg_out(Detail[o], self.key, available)
<1>1. o \in Op /\ ~PegIn(o) /\ Detail[o].txid = o
  BY CoordinatorAssumption DEF OperationInv, HoldsInv, InHand
<1>2. available \in Seq(utxos)
  <2>1. Unspent(self.key) \in SUBSET utxos
    BY DEF Unspent
  <2>2. Cardinality(Unspent(self.key)) \in Nat
    BY <2>1, FS_Subset, FS_CardinalityType DEF OperationInv, BitcoinInv
  <2>3. available \in [1..Cardinality(Unspent(self.key)) -> Unspent(self.key)]
    BY DEF list_unspent, SetToSeqs
  <2>4. available \in [1..Cardinality(Unspent(self.key)) -> utxos]
    BY <2>1, <2>3
  <2> QED
    BY <2>2, <2>4
<1>3. /\ \E i \in DOMAIN available : IsFulfillmentUtxo(Detail[o], available[i])
                                     /\ available[i].amount = Detail[o].fulfillment_fee
      /\ \E i \in DOMAIN tx.input : tx.input[i] = [txid |-> Detail[o].txid, vout |-> 2]
      /\ Len(tx.output) \in 2..3
  BY <1>2, FulfilmentBuilt
<1>4. PICK i \in DOMAIN available : IsFulfillmentUtxo(Detail[o], available[i])
                                    /\ available[i].amount = Detail[o].fulfillment_fee
  BY <1>3
<1>5. available[i] \in utxos /\ FulfilmentOutput(o, available[i])
  BY <1>1, <1>2, <1>4 DEF IsFulfillmentUtxo, FulfilmentOutput
<1>6. Detail[o].paid = Detail[o].fulfillment_fee
  BY <1>1, <1>4, <1>5 DEF OperationInv, BitcoinInv
<1> HIDE DEF tx
<1> QED
  BY <1>1, <1>3, <1>6 DEF Fulfils, tx

\* A step of the others that is not about operations.
LEMMA Unmoved ==
    ASSUME OperationInv,
           UNCHANGED <<pc, self, nonce, next_nonce, txs, account_nonce, utxos, sent,
                       signer_key, queueVars>>
    PROVE  OperationInv'
<1>1. CountersInv'
  BY DEF OperationInv, CountersInv
<1>2. HoldsInv'
  BY DEF OperationInv, HoldsInv, InHand, Fulfilling, Calling, queueVars
<1>3. \A o \in Op : Coming(o)' <= Coming(o)
  BY DEF Coming
<1> QED
  BY <1>1, <1>2, <1>3, ChainsKept DEF queueVars

\* One step per action.
LEMMA NextOperationInv ==
    ASSUME OperationInv, [Next]_vars
    PROVE  OperationInv'
<1> USE DEF nodeVars, keyVars, queueVars
<1>0. /\ DOMAIN self = Fields /\ signer_key \in Nat
      /\ CountersInv /\ HoldsInv /\ StacksInv /\ BitcoinInv /\ QueueInv
  BY DEF OperationInv, HoldsInv, CountersInv
<1>1. CASE UNCHANGED vars
  BY <1>1, Unmoved DEF vars, procVars, btcVars
<1>2. ASSUME NEW cli \in world.clis, Start(cli)
      PROVE  OperationInv'
  <2>1. CASE C!Starts(world.raw, cli)
    <3>1. /\ pc = "down" /\ pc' = "coordinator"
          /\ self' = [NoProcess EXCEPT !.config = C!Configured(world.raw, cli),
                        !.command = cli.command,
                        !.fee = C!Configured(world.raw, cli).transaction_fee]
          /\ UNCHANGED <<txs, account_nonce, next_nonce, nonce, utxos, sent, queueVars, signer_key>>
      BY <1>2, <2>1 DEF Start, btcVars
    <3>2. self.cur = None /\ self.task = None /\ self.fulfill_tx = None
      BY <1>0, <3>1 DEF HoldsInv, InHand, Fulfilling, Calling
    <3> QED
      BY <1>0, <3>1, <3>2, AtRest DEF NoProcess, Fields, Resting
  <2>2. CASE ~C!Starts(world.raw, cli)
    BY <1>2, <2>2, Unmoved DEF Start, btcVars
  <2> QED
    BY <2>1, <2>2
<1>3. CASE create_frost_coordinator_from_path
  <2>0. UNCHANGED <<txs, account_nonce, utxos, sent, signer_key>>
    BY <1>3 DEF create_frost_coordinator_from_path, btcVars
  <2>1. CASE Exit
    BY <1>0, <2>0, <2>1, AfterExit
  <2>2. CASE ~Exit
    <3>1. /\ pc = "coordinator" /\ UNCHANGED <<nonce, next_nonce, queueVars>>
          /\ \/ pc' = "dkg_data" /\ self' = self
             \/ pc' = "nonce" /\ self' = [self EXCEPT !.task =
                                             Task("set-coordinator-data", ADDRESS)]
      BY <1>3, <2>2, Built DEF create_frost_coordinator_from_path, Step
    <3>2. CASE pc' = "dkg_data" /\ self' = self
      BY <1>0, <2>0, <3>1, <3>2, AtRest DEF Resting
    <3>3. CASE pc' = "nonce" /\ self' = [self EXCEPT !.task =
                                            Task("set-coordinator-data", ADDRESS)]
      <4>1. "set-coordinator-data" \in Call \ {"mint!", "burn!"} /\ pc \in Resting
        BY <3>1 DEF Call, Resting
      <4> QED
        BY <1>0, <2>0, <3>1, <3>3, <4>1, SettingUp
    <3> QED
      BY <3>1, <3>2, <3>3
  <2> QED
    BY <2>1, <2>2
<1>4. CASE create_frost_coordinator_from_contract
  <2>1. /\ UNCHANGED <<txs, account_nonce, utxos, sent, signer_key>>
        /\ \/ Exit
           \/ /\ pc = "coordinator" /\ pc' = "dkg_data" /\ self' = self
              /\ UNCHANGED <<nonce, next_nonce, queueVars>>
    BY <1>4 DEF create_frost_coordinator_from_contract, Step, btcVars
  <2> QED
    BY <1>0, <2>1, AfterExit, AtRest DEF Resting
<1>5. CASE load_dkg_data
  <2>1. /\ UNCHANGED <<txs, account_nonce, utxos, sent, signer_key>>
        /\ \/ Exit
           \/ /\ pc = "dkg_data" /\ pc' \in {"dkg", "wallet"}
              /\ UNCHANGED <<nonce, next_nonce, queueVars>>
              /\ \/ self' = self
                 \/ \E k : self' = [self EXCEPT !.key = k]
                 \/ \E k, f : self' = [self EXCEPT !.key = k, !.shares = f]
    BY <1>5 DEF load_dkg_data, Step, btcVars
  <2>2. CASE ~Exit
    <3>1. /\ DOMAIN self' = Fields /\ self'.task = self.task /\ self'.cur = self.cur
          /\ self'.fulfill_tx = self.fulfill_tx
          /\ self'.nonce_retries = self.nonce_retries /\ self'.fee_retries = self.fee_retries
      BY <1>0, <2>1, <2>2 DEF Fields
    <3> QED
      BY <1>0, <2>1, <2>2, <3>1, AtRest DEF Resting
  <2> QED
    BY <1>0, <2>1, <2>2, AfterExit
<1>6. CASE run_distributed_key_generation
  <2> DEFINE mem == [self EXCEPT !.key = signer_key + 1, !.shares = signer_key + 1]
  <2>1. /\ UNCHANGED <<txs, account_nonce, utxos, sent, nonce, next_nonce, queueVars>>
        /\ pc = "dkg" /\ signer_key' = signer_key + 1
        /\ \/ pc' = "write" /\ self' = mem
           \/ /\ pc' = "nonce"
              /\ self' = [mem EXCEPT !.task = Task("set-bitcoin-wallet-public-key", mem.key)]
    BY <1>6, Built DEF run_distributed_key_generation, SetKey, Step, NewRound, btcVars
  <2>2. /\ DOMAIN mem = Fields /\ mem.task = self.task /\ mem.cur = self.cur
        /\ mem.fulfill_tx = self.fulfill_tx /\ mem.key = signer_key + 1
        /\ mem.nonce_retries = self.nonce_retries /\ mem.fee_retries = self.fee_retries
    BY <1>0 DEF Fields
  <2> HIDE DEF mem
  <2>3. signer_key + 1 \in Nat
        /\ "set-bitcoin-wallet-public-key" \in Call \ {"mint!", "burn!"} /\ pc \in Resting
    BY <1>0, <2>1 DEF Call, Resting
  <2>4. CASE pc' = "write" /\ self' = mem
    BY <2>1, <2>2, <2>3, <2>4, AtRest DEF Resting
  <2>5. CASE pc' = "nonce"
    BY <2>1, <2>2, <2>3, <2>5, SettingUp
  <2> QED
    BY <2>1, <2>4, <2>5
<1>7. CASE write_dkg_public_shares
  <2>1. /\ UNCHANGED <<txs, account_nonce, utxos, sent, nonce, next_nonce, queueVars, signer_key>>
        /\ pc = "write" /\ pc' = "nonce"
        /\ self' = [self EXCEPT !.task = Task("set-bitcoin-wallet-public-key", self.key)]
    BY <1>7, Built DEF write_dkg_public_shares, SetKey, Step, btcVars
  <2>2. self.key \in Nat
        /\ "set-bitcoin-wallet-public-key" \in Call \ {"mint!", "burn!"} /\ pc \in Resting
    BY <1>0, <2>1 DEF Call, Resting, HoldsInv
  <2> QED
    BY <1>0, <2>1, <2>2, SettingUp
<1>8. CASE LoadWallet
  BY <1>0, <1>8, AtRest DEF LoadWallet, Step, create_empty_wallet, Resting
<1>9. CASE ImportAddress
  BY <1>0, <1>9, AtRest DEF ImportAddress, Step, import_address, Resting
<1>10. CASE OpenQueue
  <2>1. /\ pc = "queue" /\ pc' \in {"idle", "round"} /\ marked' \subseteq requested
        /\ UNCHANGED <<txs, account_nonce, next_nonce, nonce, requested, hands, done, cut,
                       signer_key, btcVars>>
        /\ \/ self' = self
           \/ \E S : self' = [self EXCEPT !.marked = S]
    BY <1>0, <1>10 DEF OpenQueue, LeftOut, Stays, QueueInv
  <2>2. /\ self'.task = self.task /\ self'.cur = self.cur /\ self'.fulfill_tx = self.fulfill_tx
        /\ self'.nonce_retries = self.nonce_retries /\ self'.fee_retries = self.fee_retries
        /\ DOMAIN self' = Fields
    BY <1>0, <2>1 DEF Fields
  <2>3. self.cur = None /\ self.task = None /\ self.fulfill_tx = None
    BY <1>0, <2>1 DEF HoldsInv, InHand, Fulfilling, Calling
  <2>4. CountersInv'
    BY <1>0, <2>1 DEF CountersInv
  <2>5. HoldsInv'
    BY <1>0, <2>1, <2>2, <2>3, CoordinatorAssumption
    DEF HoldsInv, InHand, Fulfilling, Calling, Label
  <2>6. \A o \in Op : Coming(o)' <= Coming(o)
    BY <2>2, <2>3, CoordinatorAssumption DEF Coming
  <2>7. \A o : OpTxs(o)' = OpTxs(o)
    BY <2>1 DEF OpTxs
  <2>8. StacksInv'
    BY <2>1, <2>6, StacksKept
  <2>9. BitcoinInv'
    BY <1>0, <2>1, <2>7 DEF BitcoinInv, FulfilmentOutput, btcVars
  <2>10. QueueInv'
    BY <1>0, <2>1, <2>7 DEF QueueInv, btcVars
  <2> QED
    BY <2>4, <2>5, <2>8, <2>9, <2>10 DEF OperationInv
<1>11. CASE run_dkg_round
  BY <1>0, <1>11, AfterExit DEF run_dkg_round, NewRound, btcVars
<1>12. CASE NextNonce
  <2>1. PICK n \in 0..MaxNonce : next_nonce' = n /\ nonce' = n
    BY <1>12 DEF NextNonce, take_nonce
  <2>2. /\ pc = "nonce" /\ pc' = "broadcast" /\ self' = self
        /\ UNCHANGED <<txs, account_nonce, btcVars, queueVars, signer_key>>
    BY <1>12 DEF NextNonce
  <2>3. CountersInv'
    BY <1>0, <2>1, <2>2 DEF CountersInv
  <2>4. HoldsInv'
    BY <1>0, <2>2 DEF HoldsInv, InHand, Fulfilling, Calling, Label, btcVars
  <2>5. \A o \in Op : Coming(o)' <= Coming(o)
    BY <2>2 DEF Coming
  <2> QED
    BY <2>2, <2>3, <2>4, <2>5, ChainsKept DEF btcVars
<1>13. CASE BuildFails
  BY <1>0, <1>13, AfterExit DEF BuildFails, btcVars
<1>14. CASE Accepted
  <2>1. /\ pc = "broadcast" /\ Buildable /\ Accept(nonce, self.task.call, self.task.arg)
        /\ UNCHANGED <<account_nonce, next_nonce, signer_key, btcVars>> /\ nonce' = None
    BY <1>14 DEF Accepted, Posted
  <2>2. CASE self.task.call = "mint!"
    <3>1. /\ pc' = "idle" /\ done' = done \cup {self.cur}
          /\ UNCHANGED <<marked, requested, hands, cut>>
          /\ self' = [self EXCEPT !.cur = None, !.task = None, !.nonce_retries = 0,
                                  !.fee_retries = 0, !.fulfill_tx = None]
      BY <1>14, <2>2 DEF Accepted, FinishOp
    <3>2. /\ DOMAIN self' = Fields /\ self'.cur = None /\ self'.task = None
          /\ self'.nonce_retries = 0 /\ self'.fee_retries = 0 /\ self'.fulfill_tx = None
          /\ self'.key = self.key
      BY <1>0, <3>1 DEF Fields
    <3>4. HoldsInv'
      BY <2>1, <3>1, <3>2, CoordinatorAssumption
      DEF HoldsInv, InHand, Fulfilling, Calling, Label, btcVars
    <3> QED
      BY <2>1, <2>2, <3>1, <3>2, <3>4, AfterAccept DEF btcVars
  <2>3. CASE self.task.call # "mint!"
    <3>1. /\ pc' = (CASE self.task.call = "set-coordinator-data" -> "dkg_data"
                      [] self.task.call = "set-bitcoin-wallet-public-key" -> "wallet"
                      [] OTHER -> "btc")
          /\ self' = [self EXCEPT !.task = None] /\ UNCHANGED queueVars
      BY <1>14, <2>3 DEF Accepted
    <3>2. /\ DOMAIN self' = Fields /\ self'.cur = self.cur /\ self'.task = None
          /\ self'.nonce_retries = self.nonce_retries /\ self'.fee_retries = self.fee_retries
          /\ self'.fulfill_tx = self.fulfill_tx /\ self'.key = self.key
      BY <1>0, <3>1 DEF Fields
    <3>3. CASE self.task.call = "burn!"
      <4>1. pc' = "btc" /\ InHand
        BY <2>1, <3>1, <3>3 DEF InHand, Calling
      <4>2. HoldsInv'
        BY <1>0, <2>1, <3>1, <3>2, <3>3, <4>1
        DEF HoldsInv, InHand, Fulfilling, Calling, Label, btcVars
      <4> QED
        BY <2>1, <3>1, <3>2, <4>1, <4>2, AfterAccept DEF btcVars
    <3>4. CASE self.task.call # "burn!"
      <4>1. self.task.call \in Call
        BY <1>0, <2>1 DEF HoldsInv
      <4>2. pc' \in {"dkg_data", "wallet"} /\ self.cur = None /\ self.fulfill_tx = None
        BY <1>0, <2>1, <2>3, <3>1, <3>4, <4>1
        DEF HoldsInv, InHand, Fulfilling, Calling, Call
      <4>3. HoldsInv'
        BY <1>0, <2>1, <3>2, <4>2
        DEF HoldsInv, InHand, Fulfilling, Calling, Label
      <4> QED
        BY <2>1, <3>1, <3>2, <4>2, <4>3, AfterAccept DEF btcVars
    <3> QED
      BY <3>3, <3>4
  <2> QED
    BY <2>2, <2>3
<1>15. CASE ConflictingNonce
  <2>1. /\ UNCHANGED <<txs, account_nonce, btcVars, signer_key>> /\ pc = "broadcast"
        /\ \/ Exit
           \/ /\ self.nonce_retries + 1 <= MAX_NONCE_RETRIES /\ pc' = "nonce"
              /\ self' = [self EXCEPT !.nonce_retries = @ + 1]
              /\ UNCHANGED <<nonce, next_nonce, queueVars>>
    BY <1>15 DEF ConflictingNonce, Posted, Step
  <2>2. CASE ~Exit
    <3>1. /\ DOMAIN self' = Fields /\ self'.cur = self.cur /\ self'.task = self.task
          /\ self'.nonce_retries = self.nonce_retries + 1
          /\ self'.fee_retries = self.fee_retries
          /\ self'.fulfill_tx = self.fulfill_tx /\ self'.key = self.key
      BY <1>0, <2>1, <2>2 DEF Fields
    <3>2. self'.nonce_retries \in 0..MAX_NONCE_RETRIES
      BY <1>0, <2>1, <2>2, <3>1, CoordinatorAssumption DEF HoldsInv
    <3>3. HoldsInv'
      BY <1>0, <2>1, <2>2, <3>1, <3>2
      DEF HoldsInv, InHand, Fulfilling, Calling, Label, btcVars
    <3>4. CountersInv'
      BY <1>0, <2>1, <2>2 DEF CountersInv
    <3>5. \A o \in Op : Coming(o)' <= Coming(o)
      BY <2>1, <2>2, <3>1 DEF Coming
    <3> QED
      BY <2>1, <2>2, <3>3, <3>4, <3>5, ChainsKept DEF btcVars
  <2> QED
    BY <1>0, <2>1, <2>2, AfterExit DEF btcVars
<1>16. CASE FeeTooLow
  <2>1. /\ UNCHANGED <<txs, account_nonce, btcVars, signer_key>> /\ pc = "broadcast"
        /\ \/ Exit
           \/ /\ self.fee_retries + 1 <= MAX_FEE_RETRIES /\ pc' = "broadcast"
              /\ \E e : self' = [self EXCEPT !.fee_retries = @ + 1, !.fee = e]
              /\ UNCHANGED <<nonce, next_nonce, queueVars>>
    BY <1>16 DEF FeeTooLow, Posted, Step
  <2>2. CASE ~Exit
    <3>1. /\ DOMAIN self' = Fields /\ self'.cur = self.cur /\ self'.task = self.task
          /\ self'.fee_retries = self.fee_retries + 1
          /\ self'.nonce_retries = self.nonce_retries
          /\ self'.fulfill_tx = self.fulfill_tx /\ self'.key = self.key
      BY <1>0, <2>1, <2>2 DEF Fields
    <3>0. pc = "broadcast" /\ pc' = "broadcast" /\ self.fee_retries + 1 <= MAX_FEE_RETRIES
      BY <2>1, <2>2
    <3>2. self'.fee_retries \in 0..MAX_FEE_RETRIES
      BY <1>0, <3>0, <3>1, CoordinatorAssumption DEF HoldsInv
    <3>3. HoldsInv'
      BY <1>0, <2>1, <2>2, <3>1, <3>2
      DEF HoldsInv, InHand, Fulfilling, Calling, Label, btcVars
    <3>4. CountersInv'
      BY <1>0, <2>1, <2>2 DEF CountersInv
    <3>5. \A o \in Op : Coming(o)' <= Coming(o)
      BY <3>0, <3>1 DEF Coming
    <3> QED
      BY <2>1, <2>2, <3>3, <3>4, <3>5, ChainsKept DEF btcVars
  <2> QED
    BY <1>0, <2>1, <2>2, AfterExit DEF btcVars
<1>17. CASE Refused
  BY <1>0, <1>17, AfterExit DEF Refused, btcVars
<1>18. ASSUME NEW o \in Op, TakeOp(o)
       PROVE  OperationInv'
  <2>1. /\ pc = "idle" /\ o \in requested /\ hands' = [hands EXCEPT ![o] = @ + 1]
        /\ marked' \subseteq marked \cup {o}
        /\ UNCHANGED <<txs, account_nonce, next_nonce, nonce, btcVars, signer_key,
                       requested, done, cut>>
    BY <1>18 DEF TakeOp
  <2>2. /\ DOMAIN self' = Fields /\ self'.cur = o /\ self'.key = self.key
        /\ self'.nonce_retries = self.nonce_retries /\ self'.fee_retries = self.fee_retries
        /\ self'.fulfill_tx = self.fulfill_tx
        /\ IF PegIn(o) THEN pc' = "nonce" /\ self'.task = Task("mint!", o)
           ELSE pc' = "unspent" /\ self'.task = self.task
    <3> DEFINE mem == [self EXCEPT !.cur = o,
                                   !.marked = IF InMemory THEN @ \cup {o} ELSE @]
    <3>1. /\ DOMAIN mem = Fields /\ mem.cur = o /\ mem.key = self.key
          /\ mem.nonce_retries = self.nonce_retries /\ mem.fee_retries = self.fee_retries
          /\ mem.fulfill_tx = self.fulfill_tx /\ mem.task = self.task
      BY <1>0 DEF Fields
    <3>2. IF PegIn(o) THEN pc' = "nonce" /\ self' = [mem EXCEPT !.task = Task("mint!", o)]
          ELSE pc' = "unspent" /\ self' = mem
      BY <1>18, Built DEF TakeOp
    <3> HIDE DEF mem
    <3> QED
      BY <3>1, <3>2 DEF Fields
  <2>3. self.cur = None /\ self.task = None /\ self.fulfill_tx = None
    BY <1>0, <2>1 DEF HoldsInv, InHand, Fulfilling, Calling
  <2>4. Task("mint!", o) \in [call : Call, arg : Op \cup Nat \cup {ADDRESS}]
        /\ Task("mint!", o).call = "mint!" /\ Task("mint!", o).arg = o
    BY DEF Task, Call
  <2>5. HoldsInv'
    BY <1>0, <2>1, <2>2, <2>3, <2>4
    DEF HoldsInv, InHand, Fulfilling, Calling, Label, btcVars
  <2>6. CountersInv'
    BY <1>0, <2>1, <2>2 DEF CountersInv
  <2>7. \A p : OpTxs(p)' = OpTxs(p)
    BY <2>1 DEF OpTxs
  <2>8. StacksInv'
    <3>1. ASSUME NEW p \in Op
          PROVE  Cardinality(OpTxs(p)') + Coming(p)' <= hands'[p]
      <4>1. Cardinality(OpTxs(p)) \in Nat /\ hands[p] \in Nat
            /\ Cardinality(OpTxs(p)) + Coming(p) <= hands[p]
        BY <1>0, OpTxsFinite DEF StacksInv
      <4>2. Coming(p) = 0 /\ Coming(p)' = IF p = o THEN 1 ELSE 0
        BY <2>2, <2>3, CoordinatorAssumption DEF Coming
      <4>3. hands'[p] = IF p = o THEN hands[p] + 1 ELSE hands[p]
        BY <1>0, <2>1 DEF StacksInv
      <4> HIDE DEF Coming
      <4> QED
        BY <2>7, <4>1, <4>2, <4>3
    <3>2. hands' \in [Op -> Nat]
      BY <1>0, <2>1 DEF StacksInv
    <3> QED
      BY <1>0, <2>1, <2>2, <3>1, <3>2 DEF StacksInv
  <2>9. BitcoinInv'
    BY <1>0, <2>1, <2>7 DEF BitcoinInv, FulfilmentOutput, btcVars
  <2>10. QueueInv'
    BY <1>0, <2>1, <2>7 DEF QueueInv, btcVars
  <2> QED
    BY <2>5, <2>6, <2>8, <2>9, <2>10 DEF OperationInv
<1>19. CASE FulfillPegOut
  <2>1. PICK available \in list_unspent(self.key) :
           LET tx == fulfill_peg_out(Detail[self.cur], self.key, available)
           IN  IF "err" \in DOMAIN tx THEN Exit /\ Stays
               ELSE Step("sign", [self EXCEPT !.fulfill_tx = tx])
    BY <1>19 DEF FulfillPegOut
  <2>2. pc = "unspent" /\ UNCHANGED <<txs, account_nonce, btcVars, signer_key>>
    BY <1>19 DEF FulfillPegOut
  <2> DEFINE tx == fulfill_peg_out(Detail[self.cur], self.key, available)
  <2>3. CASE "err" \in DOMAIN tx
    BY <1>0, <2>1, <2>2, <2>3, AfterExit DEF btcVars
  <2>4. CASE "err" \notin DOMAIN tx
    <3>1. Fulfils(self.cur, tx)
      BY <2>2, <2>4, FulfilmentIsFor
    <3>2. /\ pc' = "sign" /\ self' = [self EXCEPT !.fulfill_tx = tx]
          /\ UNCHANGED <<nonce, next_nonce, queueVars>>
      BY <2>1, <2>4 DEF Step
    <3> HIDE DEF tx
    <3>3. /\ DOMAIN self' = Fields /\ self'.cur = self.cur /\ self'.task = self.task
          /\ self'.nonce_retries = self.nonce_retries /\ self'.fee_retries = self.fee_retries
          /\ self'.fulfill_tx = tx /\ self'.key = self.key
      BY <1>0, <3>2 DEF Fields
    <3>4. HoldsInv'
      BY <1>0, <2>2, <3>1, <3>2, <3>3
      DEF HoldsInv, InHand, Fulfilling, Calling, Label, btcVars
    <3>5. CountersInv'
      BY <1>0, <2>2, <3>2 DEF CountersInv
    <3>6. \A o \in Op : Coming(o)' <= Coming(o)
      BY <2>2, <3>2, <3>3 DEF Coming
    <3> QED
      BY <2>2, <3>2, <3>4, <3>5, <3>6, ChainsKept DEF btcVars
  <2> QED
    BY <2>3, <2>4
<1>20. CASE SignInputs
  <2>1. /\ UNCHANGED <<txs, account_nonce, btcVars, signer_key>> /\ pc = "sign"
        /\ \/ Exit
           \/ /\ pc' = "nonce" /\ self' = [self EXCEPT !.task = Task("burn!", self.cur)]
              /\ UNCHANGED <<nonce, next_nonce, queueVars>>
    <3>1. pc = "sign" => build_transaction(self.cur) = Task("burn!", self.cur)
      BY <1>0, Built DEF HoldsInv, Fulfilling, Fulfils
    <3> QED
      BY <1>20, <3>1 DEF SignInputs, Step
  <2>2. CASE ~Exit
    <3>1. /\ DOMAIN self' = Fields /\ self'.cur = self.cur /\ self'.task = Task("burn!", self.cur)
          /\ self'.nonce_retries = self.nonce_retries /\ self'.fee_retries = self.fee_retries
          /\ self'.fulfill_tx = self.fulfill_tx /\ self'.key = self.key
      BY <1>0, <2>1, <2>2 DEF Fields
    <3>2. self.cur \in Op \cap requested
      BY <1>0, <2>1 DEF HoldsInv, InHand
    <3>3. Task("burn!", self.cur) \in [call : Call, arg : Op \cup Nat \cup {ADDRESS}]
          /\ Task("burn!", self.cur).call = "burn!" /\ Task("burn!", self.cur).arg = self.cur
      BY <3>2 DEF Task, Call
    <3>4. HoldsInv'
      BY <1>0, <2>1, <2>2, <3>1, <3>2, <3>3
      DEF HoldsInv, InHand, Fulfilling, Calling, Label, btcVars
    <3>5. CountersInv'
      BY <1>0, <2>1, <2>2 DEF CountersInv
    <3>6. \A o \in Op : Coming(o)' <= Coming(o)
      BY <2>1, <2>2, <3>1 DEF Coming
    <3> QED
      BY <2>1, <2>2, <3>4, <3>5, <3>6, ChainsKept DEF btcVars
  <2> QED
    BY <1>0, <2>1, <2>2, AfterExit DEF btcVars
<1>21. CASE BroadcastBitcoin
  <2>1. UNCHANGED <<txs, account_nonce, signer_key>> /\ pc = "btc"
    BY <1>21 DEF BroadcastBitcoin
  <2>2. CASE Exit /\ UNCHANGED btcVars
    BY <1>0, <2>1, <2>2, AfterExit DEF btcVars
  <2>3. CASE /\ broadcast_bitcoin(self.cur, self.fulfill_tx)
             /\ Exit \/ (pc' = "idle" /\ FinishOp /\ UNCHANGED <<nonce, next_nonce>>)
    <3>1. /\ BitcoinInv' /\ \A o : OpTxs(o)' = OpTxs(o)
          /\ sent \subseteq sent' /\ \E s \in sent' : s.op = self.cur
          /\ self.cur \in requested /\ OpTxs(self.cur) # {} /\ ~PegIn(self.cur)
      BY <2>1, <2>3, BitcoinPays DEF Exit, FinishOp
    <3>2. /\ pc' \in {"down", "idle"} /\ UNCHANGED <<marked, requested, hands>>
          /\ nonce' \in {nonce, None} /\ next_nonce' \in {next_nonce, None}
          /\ cut' \subseteq cut \cup {self.cur} /\ done' \subseteq done \cup {self.cur}
      BY <2>3 DEF Exit, FinishOp, broadcast_bitcoin
    <3>3. /\ DOMAIN self' = Fields /\ self'.cur = None /\ self'.task = None
          /\ self'.nonce_retries = 0 /\ self'.fee_retries = 0
          /\ self'.fulfill_tx = None
          /\ pc' = "idle" => self'.key = self.key
      <4>1. CASE Exit
        BY <4>1 DEF Exit, NoProcess, Fields
      <4>2. CASE FinishOp
        BY <1>0, <4>2 DEF FinishOp, Fields
      <4> QED
        BY <2>3, <4>1, <4>2
    <3>4. HoldsInv'
      BY <3>2, <3>3, CoordinatorAssumption
      DEF HoldsInv, InHand, Fulfilling, Calling, Label
    <3>5. CountersInv'
      BY <1>0, <2>1, <3>2 DEF CountersInv
    <3>6. \A o \in Op : Coming(o)' <= Coming(o)
      BY <3>3, CoordinatorAssumption DEF Coming
    <3>7. StacksInv'
      BY <2>1, <3>2, <3>6, StacksKept
    <3>8. QueueInv'
      BY <1>0, <3>1, <3>2 DEF QueueInv
    <3> QED
      BY <3>1, <3>4, <3>5, <3>7, <3>8 DEF OperationInv
  <2> QED
    BY <1>21, <2>2, <2>3 DEF BroadcastBitcoin
<1>22. CASE KeyGenerationFails
  BY <1>0, <1>22, AfterExit DEF KeyGenerationFails, NewRound, btcVars
<1>23. CASE StoppedWhileWriting
  BY <1>0, <1>23, AfterExit DEF StoppedWhileWriting, btcVars
<1>24. CASE ImportRefused
  BY <1>0, <1>24, AtRest DEF ImportRefused, btcVars, Resting
<1>25. CASE AcceptedUnheard
  <2>1. /\ pc = "broadcast" /\ Buildable /\ Accept(nonce, self.task.call, self.task.arg)
        /\ UNCHANGED <<account_nonce, signer_key, btcVars>> /\ Exit
    BY <1>25 DEF AcceptedUnheard, Posted
  <2>2. HoldsInv'
    BY <2>1, CoordinatorAssumption
    DEF HoldsInv, InHand, Fulfilling, Calling, Label, NoProcess, Fields, Exit
  <2>3. cut' \subseteq cut \cup (requested \cap {self.cur}) /\ self'.cur = None
    BY <1>0, <2>1 DEF HoldsInv, Exit, NoProcess
  <2> QED
    BY <2>1, <2>2, <2>3, AfterAccept DEF Exit, btcVars
<1>26. CASE Fail
  BY <1>0, <1>26, AfterExit DEF Fail, btcVars
<1>27. CASE MineStep
  <2>1. /\ account_nonce' \in 0..(MaxNonce + 1)
        /\ UNCHANGED <<txs, next_nonce, nonce, pc, self, btcVars, queueVars, signer_key>>
    BY <1>0, <1>27, ClientAssumption DEF MineStep, Mine, Mempool, CountersInv
  <2>2. CountersInv'
    BY <1>0, <2>1 DEF CountersInv
  <2>3. HoldsInv'
    BY <1>0, <2>1 DEF HoldsInv, InHand, Fulfilling, Calling, btcVars
  <2>4. \A o \in Op : Coming(o)' <= Coming(o)
    BY <2>1 DEF Coming
  <2> QED
    BY <2>1, <2>2, <2>3, <2>4, ChainsKept DEF btcVars
<1>28. CASE RaiseFeeStep
  BY <1>28, Unmoved DEF RaiseFeeStep, RaiseFee, btcVars
<1>29. ASSUME NEW o \in Op, Request(o)
       PROVE  OperationInv'
  <2> DEFINE new == [txid |-> o, vout |-> IF PegIn(o) THEN 1 ELSE 2,
                     amount |-> Detail[o].paid, key |-> contract.key]
  <2>1. /\ o \notin requested /\ requested' = requested \cup {o} /\ utxos' = utxos \cup {new}
        /\ UNCHANGED <<procVars, txs, account_nonce, sent, signer_key,
                       marked, hands, done, cut>>
    BY <1>29 DEF Request, Deposit
  <2>2. new.txid = o /\ (~PegIn(o) => new.vout = 2) /\ new.amount = Detail[o].paid
    OBVIOUS
  <2> HIDE DEF new
  <2>3. \A p : OpTxs(p)' = OpTxs(p)
    BY <2>1 DEF OpTxs
  <2>4. CountersInv'
    BY <1>0, <2>1 DEF CountersInv, procVars
  <2>5. HoldsInv'
    BY <1>0, <2>1 DEF HoldsInv, InHand, Fulfilling, Calling, procVars
  <2>6. StacksInv'
    <3>1. \A p \in Op : Coming(p)' <= Coming(p)
      BY <2>1 DEF Coming, procVars
    <3> QED
      BY <2>1, <3>1, StacksKept DEF procVars
  <2>7. BitcoinInv'
    <3>1. IsFiniteSet(utxos')
      BY <1>0, <2>1, FS_AddElement DEF BitcoinInv
    <3>2. \A s \in sent : s.op # o
      BY <1>0, <2>1 DEF BitcoinInv
    <3>3. \A p \in Op : FulfilmentOutput(p, new) => p = o
      BY <2>2 DEF FulfilmentOutput
    <3>5. \A u \in utxos' : \A p \in Op :
             FulfilmentOutput(p, u) => p \in requested' /\ u.amount = Detail[p].paid
      BY <1>0, <2>1, <2>2, <3>3 DEF BitcoinInv
    <3>6. \A s \in sent' : ~PegIn(s.op) /\ \A u \in utxos' : ~FulfilmentOutput(s.op, u)
      BY <1>0, <2>1, <3>2, <3>3 DEF BitcoinInv
    <3>8. \A s \in sent' : s.op \in Op \cap requested' /\ OpTxs(s.op)' # {}
      BY <1>0, <2>1, <2>3 DEF BitcoinInv
    <3> QED
      BY <1>0, <2>1, <3>1, <3>5, <3>6, <3>8 DEF BitcoinInv, FulfilmentOutput
  <2>8. QueueInv'
    BY <1>0, <2>1, <2>3 DEF QueueInv
  <2> QED
    BY <2>4, <2>5, <2>6, <2>7, <2>8 DEF OperationInv
<1>30. CASE HoursPassStep
  BY <1>30, Unmoved DEF HoursPassStep, HoursPass, procVars
<1> QED
  BY <1>1, <1>2, <1>3, <1>4, <1>5, <1>6, <1>7, <1>8, <1>9, <1>10, <1>11, <1>12, <1>13,
     <1>14, <1>15, <1>16, <1>17, <1>18, <1>19, <1>20, <1>21, <1>22, <1>23, <1>24, <1>25,
     <1>26, <1>27, <1>28, <1>29, <1>30
  DEF Next, Process, Faults

-----------------------------------------------------------------------------
\* Each action keeps what the process holds, and the counters, in their types,
\* for every limit on retries and nonces.
THEOREM OperationTypes == Spec => []TypeOK
<1>1. OperationInv => TypeOK
  <2> SUFFICES ASSUME OperationInv PROVE TypeOK
    OBVIOUS
  <2>1. pc \in {"nonce", "broadcast"} <=> self.task # None
    BY CoordinatorAssumption DEF OperationInv, HoldsInv
  <2>2. /\ pc \in {"unspent", "sign", "btc"} => self.cur \in Op
        /\ self.cur # None => pc \in {"nonce", "broadcast", "unspent", "sign", "btc"}
    BY DEF OperationInv, HoldsInv, InHand, Calling
  <2>3. self.fulfill_tx # None => ~PegIn(self.cur)
    BY DEF OperationInv, HoldsInv, Fulfils
  <2>4. pc = "broadcast" => nonce # None
    BY ClientAssumption DEF OperationInv, CountersInv
  <2> QED
    BY <2>1, <2>2, <2>3, <2>4
    DEF TypeOK, OperationInv, CountersInv, HoldsInv, StacksInv, QueueInv
<1> QED
  BY InitOperationInv, NextOperationInv, <1>1, PTL DEF Spec

\* However often an operation is handed out, retried or loses an answer, it
\* has no more Stacks transactions than times it was handed out, and one
\* Bitcoin transaction (peg_in, peg_out, try_broadcast_transaction).
THEOREM TransactionsNotRepeated == Spec => []NoRepeatedTransaction
<1>1. OperationInv => NoRepeatedTransaction
  <2> SUFFICES ASSUME OperationInv, NEW o \in Op
               PROVE  /\ Cardinality(OpTxs(o)) <= hands[o]
                      /\ Cardinality({s \in sent : s.op = o}) <= 1
    BY DEF NoRepeatedTransaction
  <2>1. Cardinality(OpTxs(o)) <= hands[o]
    <3>1. Cardinality(OpTxs(o)) \in Nat /\ hands[o] \in Nat
          /\ Cardinality(OpTxs(o)) + Coming(o) <= hands[o]
      BY OpTxsFinite DEF OperationInv, StacksInv
    <3>2. Coming(o) \in {0, 1}
      BY DEF Coming
    <3> HIDE DEF Coming
    <3> QED
      BY <3>1, <3>2
  <2> DEFINE S == {s \in sent : s.op = o}
  <2>2. CASE S = {}
    BY <2>1, <2>2, FS_EmptySet
  <2>3. CASE S # {}
    <3>1. PICK s : s \in S
      BY <2>3
    <3>2. S = {s}
      BY <3>1 DEF OperationInv, BitcoinInv
    <3> HIDE DEF S
    <3>3. Cardinality(S) = 1
      BY <3>2, FS_Singleton
    <3>4. Cardinality(S) <= 1
      BY <3>3
    <3> QED
      BY <2>1, <3>4 DEF S
  <2> QED
    BY <2>2, <2>3
<1> QED
  BY InitOperationInv, NextOperationInv, <1>1, PTL DEF Spec

\* An operation that is done has its transactions on both chains, and Bitcoin
\* is never paid before the burn was accepted, wherever the process stops.
THEOREM OperationsHandledInFull == Spec => []HandledInFull
<1>1. OperationInv => HandledInFull
  BY DEF OperationInv, BitcoinInv, QueueInv, HandledInFull
<1> QED
  BY InitOperationInv, NextOperationInv, <1>1, PTL DEF Spec

\* A request whose burn or whose fulfilment cannot be built leaves no
\* transaction on either chain, whatever UTXOs there are and in whatever
\* order the node lists them (fulfill_peg_out before the burn is broadcast).
THEOREM UnbuildableStaysOff == Spec => []UnbuildableIsNotBroadcast
<1>1. OperationInv => UnbuildableIsNotBroadcast
  <2> SUFFICES ASSUME OperationInv, NEW o \in Op, ~PegIn(o),
                      ~Detail[o].burnable \/ Detail[o].paid # Detail[o].fulfillment_fee
               PROVE  OpTxs(o) = {} /\ \A s \in sent : s.op # o
    BY DEF UnbuildableIsNotBroadcast
  <2>1. OpTxs(o) = {}
    BY DEF OpTxs, OperationInv, StacksInv
  <2> QED
    BY <2>1 DEF OperationInv, BitcoinInv
<1> QED
  BY InitOperationInv, NextOperationInv, <1>1, PTL DEF Spec

-----------------------------------------------------------------------------
(* The fulfilment in hand.                                                 *)

\* An id names one UTXO: those of the operations are named after the request,
\* those of the fulfilments after the fulfilment.  The fulfilment in hand is
\* balanced by UTXOs that are still there.
FulfilmentInv ==
    /\ Coins(utxos)
    /\ \A u \in utxos : u.txid \in requested \/ \E s \in sent : u.txid = <<"tx", s.op>>
    /\ Fulfilling =>
          \E K \in SUBSET utxos : Balanced(Detail[self.cur], self.fulfill_tx, K)

\* It holds at first.
LEMMA InitFulfilmentInv == Init => FulfilmentInv
<1> SUFFICES ASSUME Init PROVE FulfilmentInv
  OBVIOUS
<1>1. utxos = {} /\ pc = "down"
  BY DEF Init, BitcoinInit
<1>2. Coins({})
  BY FS_EmptySet DEF Coins
<1> QED
  BY <1>1, <1>2 DEF FulfilmentInv, Fulfilling, Calling

\* A step that leaves the Bitcoin chain and the fulfilment alone, or drops it.
LEMMA FulfilmentKept ==
    ASSUME FulfilmentInv, UNCHANGED <<utxos, requested, sent>>,
           Fulfilling' => Fulfilling /\ self'.fulfill_tx = self.fulfill_tx /\ self'.cur = self.cur
    PROVE  FulfilmentInv'
BY DEF FulfilmentInv, Coins

\* What listunspent yields lists the UTXOs of the wallet.
LEMMA UnspentListed ==
    ASSUME Coins(utxos), NEW key, NEW available \in list_unspent(key)
    PROVE  Lists(available, Unspent(key)) /\ Coins(Unspent(key)) /\ Unspent(key) \subseteq utxos
<1> DEFINE S == Unspent(key)
           D == 1..Cardinality(S)
<1>1. S \in SUBSET utxos
  BY DEF Unspent
<1>2. IsFiniteSet(S) /\ Cardinality(S) \in Nat
  BY <1>1, FS_Subset, FS_CardinalityType DEF Coins
<1>3. Coins(S)
  BY <1>1, <1>2 DEF Coins
<1>4. available \in [D -> S] /\ \A i, j \in D : i # j => available[i] # available[j]
  BY DEF list_unspent, SetToSeqs
<1> HIDE DEF S
<1>5. available \in Injection(D, S)
  BY <1>4 DEF Injection, IsInjective
<1>6. IsFiniteSet(D) /\ Cardinality(D) = Cardinality(S)
  BY <1>2, FS_Interval
<1>7. available \in Surjection(D, S)
  BY <1>2, <1>5, <1>6, FS_Injection
<1>8. available \in Seq(S) /\ DOMAIN available = D
  BY <1>2, <1>4
<1>9. \A v \in S : \E i \in D : available[i] = v
  BY <1>7 DEF Surjection
<1> QED
  BY <1>1, <1>3, <1>4, <1>8, <1>9 DEF Lists, S

\* A request that is handled is for an amount and states a fee.
LEMMA RequestAmounts ==
    ASSUME OperationInv, pc = "unspent"
    PROVE  Detail[self.cur].amount \in Nat /\ Detail[self.cur].fulfillment_fee \in Nat
BY CoordinatorAssumption DEF OperationInv, HoldsInv, InHand

\* The Bitcoin node takes the fulfilment in hand.
LEMMA ChainPaid ==
    ASSUME OperationInv, FulfilmentInv, pc = "btc", UNCHANGED requested,
           broadcast_bitcoin(self.cur, self.fulfill_tx), ~Fulfilling', BitcoinInv'
    PROVE  FulfilmentInv'
<1> DEFINE o == self.cur
           tx == self.fulfill_tx
           new == Creates(o, tx)
<1>1. o \in Op /\ o \in requested /\ Fulfils(o, tx)
  BY DEF OperationInv, HoldsInv, InHand, Fulfilling
<1>2. /\ Spendable(tx) /\ utxos' = (utxos \ Spends(tx)) \cup new
      /\ sent' = sent \cup {[op |-> o, input |-> tx.input, output |-> tx.output]}
  BY DEF broadcast_bitcoin
<1>3. \A s \in sent : s.op # o
  <2>1. PICK k \in DOMAIN tx.input : tx.input[k] = [txid |-> o, vout |-> 2]
    BY <1>1 DEF Fulfils
  <2>2. PICK u \in utxos : tx.input[k] = [txid |-> u.txid, vout |-> u.vout]
    BY <1>2, <2>1 DEF Spendable
  <2>3. FulfilmentOutput(o, u)
    <3>1. [txid |-> u.txid, vout |-> u.vout] = [txid |-> o, vout |-> 2]
      BY <2>1, <2>2
    <3> QED
      BY <3>1 DEF FulfilmentOutput
  <2> QED
    BY <2>3 DEF OperationInv, BitcoinInv
<1>4. PICK K \in SUBSET utxos : Balanced(Detail[o], tx, K)
  BY DEF FulfilmentInv, Fulfilling
<1>5. \A u \in new : \E i \in 2..Len(tx.output) :
         /\ u.txid = <<"tx", o>> /\ u.vout = i - 1 /\ u.amount = tx.output[i].value
         /\ u = [txid |-> <<"tx", o>>, vout |-> i - 1, amount |-> tx.output[i].value,
                 key |-> tx.output[i].script]
  BY DEF Creates
<1>6. Len(tx.output) \in Nat
  BY <1>1 DEF Fulfils
<1> HIDE DEF o, tx, new
<1>7. \A u \in new : u.amount \in Nat
  BY <1>4, <1>5 DEF Balanced
<1>8. \A u, v \in new : utxo_to_input(u) = utxo_to_input(v) => u = v
  <2> DEFINE out(i) == [txid |-> <<"tx", o>>, vout |-> i - 1, amount |-> tx.output[i].value,
                        key |-> tx.output[i].script]
  <2> SUFFICES ASSUME NEW u \in new, NEW v \in new, u.vout = v.vout
               PROVE  u = v
    BY DEF utxo_to_input
  <2>1. PICK i \in 2..Len(tx.output) : u.vout = i - 1 /\ u = out(i)
    BY <1>5
  <2>2. PICK j \in 2..Len(tx.output) : v.vout = j - 1 /\ v = out(j)
    BY <1>5
  <2> HIDE DEF out
  <2>3. i \in Int /\ j \in Int
    BY <1>6
  <2>4. i - 1 = j - 1
    BY <2>1, <2>2
  <2>5. i = j
    BY <2>3, <2>4
  <2> QED
    BY <2>1, <2>2, <2>5
<1>9. \A u \in utxos : u.txid # <<"tx", o>>
  <2> SUFFICES ASSUME NEW u \in utxos, u.txid = <<"tx", o>> PROVE FALSE
    OBVIOUS
  <2>1. u.txid \notin requested
    BY <1>1, CoordinatorAssumption DEF OperationInv, QueueInv
  <2>2. PICK s \in sent : u.txid = <<"tx", s.op>>
    BY <2>1 DEF FulfilmentInv
  <2>3. s.op = o
    BY <2>2
  <2> QED
    BY <1>3, <2>3
<1>10. \A u \in utxos, v \in new : utxo_to_input(u) # utxo_to_input(v)
  <2> SUFFICES ASSUME NEW u \in utxos, NEW v \in new PROVE utxo_to_input(u) # utxo_to_input(v)
    OBVIOUS
  <2>1. v.txid = <<"tx", o>> /\ u.txid # v.txid
    BY <1>5, <1>9
  <2> QED
    BY <2>1 DEF utxo_to_input
<1>11. Coins(utxos')
  <2>1. IsFiniteSet(utxos')
    BY DEF BitcoinInv
  <2>2. \A u \in utxos' : u.amount \in Nat
    BY <1>2, <1>7 DEF FulfilmentInv, Coins
  <2>3. \A u, v \in utxos' : utxo_to_input(u) = utxo_to_input(v) => u = v
    <3>1. \A u, v \in utxos : utxo_to_input(u) = utxo_to_input(v) => u = v
      BY DEF FulfilmentInv, Coins
    <3> QED
      BY <1>2, <1>8, <1>10, <3>1
  <2> QED
    BY <2>1, <2>2, <2>3 DEF Coins
<1>12. \A u \in utxos' : u.txid \in requested' \/ \E s \in sent' : u.txid = <<"tx", s.op>>
  <2>1. \E s \in sent' : s.op = o
    <3>1. PICK s : s = [op |-> o, input |-> tx.input, output |-> tx.output]
      OBVIOUS
    <3>2. s.op = o /\ s \in sent'
      BY <1>2, <3>1
    <3> QED
      BY <3>2
  <2>2. \A u \in new : u.txid = <<"tx", o>>
    BY <1>5
  <2>3. \A u \in utxos : u.txid \in requested \/ \E s \in sent : u.txid = <<"tx", s.op>>
    BY DEF FulfilmentInv
  <2> QED
    BY <1>2, <2>1, <2>2, <2>3
<1> QED
  BY <1>11, <1>12 DEF FulfilmentInv, Coins

\* A user pays the wallet.
LEMMA ChainDeposited ==
    ASSUME OperationInv, FulfilmentInv, NEW o \in Op, Request(o)
    PROVE  FulfilmentInv'
<1> DEFINE new == [txid |-> o, vout |-> IF PegIn(o) THEN 1 ELSE 2,
                   amount |-> Detail[o].paid, key |-> contract.key]
<1>1. /\ o \notin requested /\ requested' = requested \cup {o} /\ utxos' = utxos \cup {new}
      /\ UNCHANGED <<pc, self, sent>>
  BY DEF Request, Deposit, procVars
<1>2. new.txid = o /\ new.amount \in Nat
  BY CoordinatorAssumption
<1> HIDE DEF new
<1>3. \A u \in utxos : u.txid # o
  <2> SUFFICES ASSUME NEW u \in utxos, u.txid = o PROVE FALSE
    OBVIOUS
  <2>1. PICK s \in sent : u.txid = <<"tx", s.op>>
    BY <1>1 DEF FulfilmentInv
  <2>2. s.op \in Op
    BY DEF OperationInv, BitcoinInv
  <2> QED
    BY <2>1, <2>2, CoordinatorAssumption
<1>4. \A u \in utxos : utxo_to_input(u) # utxo_to_input(new)
  <2> SUFFICES ASSUME NEW u \in utxos PROVE utxo_to_input(u) # utxo_to_input(new)
    OBVIOUS
  <2>1. u.txid # new.txid
    BY <1>2, <1>3
  <2> QED
    BY <2>1 DEF utxo_to_input
<1>5. Coins(utxos')
  <2>1. IsFiniteSet(utxos')
    BY <1>1, FS_AddElement DEF FulfilmentInv, Coins
  <2>2. \A u, v \in utxos' : utxo_to_input(u) = utxo_to_input(v) => u = v
    <3>1. \A u, v \in utxos : utxo_to_input(u) = utxo_to_input(v) => u = v
      BY DEF FulfilmentInv, Coins
    <3> QED
      BY <1>1, <1>4, <3>1
  <2>3. \A u \in utxos' : u.amount \in Nat
    BY <1>1, <1>2 DEF FulfilmentInv, Coins
  <2> QED
    BY <2>1, <2>2, <2>3 DEF Coins
<1>6. \A u \in utxos' : u.txid \in requested' \/ \E s \in sent' : u.txid = <<"tx", s.op>>
  BY <1>1, <1>2 DEF FulfilmentInv
<1>7. Fulfilling' => \E K \in SUBSET utxos' : Balanced(Detail[self'.cur], self'.fulfill_tx, K)
  <2>1. Fulfilling' => Fulfilling
    BY <1>1 DEF Fulfilling, Calling
  <2>2. SUBSET utxos \subseteq SUBSET utxos'
    BY <1>1
  <2> QED
    BY <1>1, <2>1, <2>2 DEF FulfilmentInv
<1> QED
  BY <1>5, <1>6, <1>7 DEF FulfilmentInv, Coins

\* No fulfilment is in hand after these.
LEMMA NotFulfilling ==
    ASSUME FulfilmentInv, UNCHANGED <<utxos, requested, sent>>,
           \/ pc' \in Label \ {"nonce", "broadcast", "sign", "btc"}
           \/ pc' = "nonce" /\ self'.task.call # "burn!"
    PROVE  FulfilmentInv'
<1>1. ~Fulfilling'
  BY DEF Fulfilling, Calling, Label
<1> QED
  BY <1>1, FulfilmentKept

\* One step per action.
LEMMA NextFulfilmentInv ==
    ASSUME OperationInv, OperationInv', FulfilmentInv, [Next]_vars
    PROVE  FulfilmentInv'
<1> USE DEF btcVars, queueVars
<1>0. DOMAIN self = Fields /\ HoldsInv
  BY DEF OperationInv, HoldsInv
<1>1. ASSUME Exit, UNCHANGED btcVars
      PROVE  FulfilmentInv'
  BY <1>1, NotFulfilling DEF Exit, Label
<1>2. CASE UNCHANGED vars
  BY <1>2, FulfilmentKept DEF vars, procVars, Fulfilling, Calling
<1>3. ASSUME NEW cli \in world.clis, Start(cli)
      PROVE  FulfilmentInv'
  BY <1>3, NotFulfilling DEF Start, Label
<1>4. CASE create_frost_coordinator_from_path
  <2>1. CASE Exit
    BY <1>1, <1>4, <2>1 DEF create_frost_coordinator_from_path
  <2>2. CASE ~Exit
    <3>1. /\ UNCHANGED <<utxos, requested, sent>>
          /\ \/ pc' = "dkg_data"
             \/ pc' = "nonce" /\ self' = [self EXCEPT !.task =
                                             Task("set-coordinator-data", ADDRESS)]
      BY <1>4, <2>2, Built DEF create_frost_coordinator_from_path, Step
    <3>2. pc' = "nonce" => self'.task.call # "burn!"
      BY <1>0, <3>1 DEF Fields, Task
    <3> QED
      BY <3>1, <3>2, NotFulfilling DEF Label
  <2> QED
    BY <2>1, <2>2
<1>5. CASE create_frost_coordinator_from_contract
  BY <1>1, <1>5, NotFulfilling DEF create_frost_coordinator_from_contract, Step, Label
<1>6. CASE load_dkg_data
  BY <1>1, <1>6, NotFulfilling DEF load_dkg_data, Step, Label
<1>7. CASE run_distributed_key_generation
  <2> DEFINE mem == [self EXCEPT !.key = signer_key + 1, !.shares = signer_key + 1]
  <2>1. /\ UNCHANGED <<utxos, requested, sent>>
        /\ \/ pc' = "write"
           \/ /\ pc' = "nonce"
              /\ self' = [mem EXCEPT !.task = Task("set-bitcoin-wallet-public-key", mem.key)]
    BY <1>7, Built DEF run_distributed_key_generation, SetKey, Step
  <2>2. DOMAIN mem = Fields
    BY <1>0
  <2> HIDE DEF mem
  <2>3. pc' = "nonce" => self'.task.call # "burn!"
    BY <2>1, <2>2 DEF Fields, Task
  <2> QED
    BY <2>1, <2>3, NotFulfilling DEF Label
<1>8. CASE write_dkg_public_shares
  <2>1. /\ UNCHANGED <<utxos, requested, sent>> /\ pc' = "nonce"
        /\ self' = [self EXCEPT !.task = Task("set-bitcoin-wallet-public-key", self.key)]
    BY <1>8, Built DEF write_dkg_public_shares, SetKey, Step
  <2>2. self'.task.call # "burn!"
    BY <1>0, <2>1 DEF Fields, Task
  <2> QED
    BY <2>1, <2>2, NotFulfilling
<1>9. CASE LoadWallet
  BY <1>9, NotFulfilling DEF LoadWallet, Step, create_empty_wallet, Label
<1>10. CASE ImportAddress
  BY <1>10, NotFulfilling DEF ImportAddress, Step, import_address, Label
<1>11. CASE OpenQueue
  BY <1>11, NotFulfilling DEF OpenQueue, Label
<1>12. CASE run_dkg_round
  BY <1>1, <1>12 DEF run_dkg_round
<1>13. CASE NextNonce
  BY <1>13, FulfilmentKept DEF NextNonce, Fulfilling, Calling
<1>14. CASE BuildFails
  BY <1>1, <1>14 DEF BuildFails
<1>15. CASE Accepted
  <2>1. pc = "broadcast" /\ UNCHANGED <<utxos, requested, sent>>
    BY <1>15 DEF Accepted, Posted, FinishOp
  <2>2. CASE self.task.call = "burn!"
    <3>1. self' = [self EXCEPT !.task = None]
      BY <1>15, <2>2 DEF Accepted
    <3>2. self'.cur = self.cur /\ self'.fulfill_tx = self.fulfill_tx
      BY <1>0, <3>1 DEF Fields
    <3>3. Fulfilling
      BY <2>1, <2>2 DEF Fulfilling, Calling
    <3> QED
      BY <2>1, <3>2, <3>3, FulfilmentKept
  <2>3. CASE self.task.call # "burn!"
    <3>1. self.task.call \in Call
      BY <1>0, <2>1 DEF HoldsInv
    <3>2. pc' \in {"idle", "dkg_data", "wallet"}
      BY <1>15, <2>3, <3>1 DEF Accepted, Call
    <3> QED
      BY <2>1, <3>2, NotFulfilling DEF Label
  <2> QED
    BY <2>2, <2>3
<1>16. CASE ConflictingNonce
  <2>1. /\ UNCHANGED btcVars /\ pc = "broadcast"
        /\ \/ Exit
           \/ /\ pc' = "nonce" /\ self' = [self EXCEPT !.nonce_retries = @ + 1]
              /\ UNCHANGED queueVars
    BY <1>16 DEF ConflictingNonce, Posted, Step
  <2>2. CASE ~Exit
    <3>1. self'.cur = self.cur /\ self'.task = self.task /\ self'.fulfill_tx = self.fulfill_tx
      BY <1>0, <2>1, <2>2 DEF Fields
    <3> QED
      BY <2>1, <2>2, <3>1, FulfilmentKept DEF Fulfilling, Calling
  <2> QED
    BY <1>1, <2>1, <2>2
<1>17. CASE FeeTooLow
  <2>1. /\ UNCHANGED btcVars /\ pc = "broadcast"
        /\ \/ Exit
           \/ /\ pc' = "broadcast"
              /\ \E e : self' = [self EXCEPT !.fee_retries = @ + 1, !.fee = e]
              /\ UNCHANGED queueVars
    BY <1>17 DEF FeeTooLow, Posted, Step
  <2>2. CASE ~Exit
    <3>1. self'.cur = self.cur /\ self'.task = self.task /\ self'.fulfill_tx = self.fulfill_tx
      BY <1>0, <2>1, <2>2 DEF Fields
    <3> QED
      BY <2>1, <2>2, <3>1, FulfilmentKept DEF Fulfilling, Calling
  <2> QED
    BY <1>1, <2>1, <2>2
<1>18. CASE Refused
  BY <1>1, <1>18 DEF Refused
<1>19. ASSUME NEW o \in Op, TakeOp(o)
       PROVE  FulfilmentInv'
  <2> DEFINE mem == [self EXCEPT !.cur = o,
                                 !.marked = IF InMemory THEN @ \cup {o} ELSE @]
  <2>1. /\ UNCHANGED <<utxos, requested, sent>>
        /\ \/ pc' = "nonce" /\ self' = [mem EXCEPT !.task = Task("mint!", o)]
           \/ pc' = "unspent"
    BY <1>19, Built DEF TakeOp
  <2>2. DOMAIN mem = Fields
    BY <1>0
  <2> HIDE DEF mem
  <2>3. pc' = "nonce" => self'.task.call # "burn!"
    BY <2>1, <2>2 DEF Fields, Task
  <2> QED
    BY <2>1, <2>3, NotFulfilling DEF Label
<1>20. CASE FulfillPegOut
  <2>1. PICK available \in list_unspent(self.key) :
           LET tx == fulfill_peg_out(Detail[self.cur], self.key, available)
           IN  IF "err" \in DOMAIN tx THEN Exit /\ Stays
               ELSE Step("sign", [self EXCEPT !.fulfill_tx = tx])
    BY <1>20 DEF FulfillPegOut
  <2>2. pc = "unspent" /\ UNCHANGED btcVars
    BY <1>20 DEF FulfillPegOut
  <2> DEFINE tx == fulfill_peg_out(Detail[self.cur], self.key, available)
  <2>3. CASE "err" \in DOMAIN tx
    BY <1>1, <2>1, <2>2, <2>3
  <2>4. CASE "err" \notin DOMAIN tx
    <3>1. /\ Lists(available, Unspent(self.key)) /\ Coins(Unspent(self.key))
          /\ Unspent(self.key) \subseteq utxos
      BY UnspentListed DEF FulfilmentInv
    <3>2. \E K \in SUBSET Unspent(self.key) : Balanced(Detail[self.cur], tx, K)
      BY <2>2, <2>4, <3>1, RequestAmounts, FulfilmentMatches
    <3>3. /\ self' = [self EXCEPT !.fulfill_tx = tx] /\ UNCHANGED queueVars
      BY <2>1, <2>4 DEF Step
    <3> HIDE DEF tx
    <3>4. self'.cur = self.cur /\ self'.fulfill_tx = tx
      BY <1>0, <3>3 DEF Fields
    <3>5. \E K \in SUBSET utxos' : Balanced(Detail[self'.cur], self'.fulfill_tx, K)
      BY <2>2, <3>1, <3>2, <3>4
    <3> QED
      BY <2>2, <3>3, <3>5 DEF FulfilmentInv, Coins
  <2> QED
    BY <2>3, <2>4
<1>21. CASE SignInputs
  <2>1. /\ UNCHANGED btcVars /\ pc = "sign"
        /\ \/ Exit
           \/ /\ self' = [self EXCEPT !.task = build_transaction(self.cur)]
              /\ UNCHANGED queueVars
    BY <1>21 DEF SignInputs, Step
  <2>2. CASE ~Exit
    <3>1. self'.cur = self.cur /\ self'.fulfill_tx = self.fulfill_tx
      BY <1>0, <2>1, <2>2 DEF Fields
    <3> QED
      BY <2>1, <2>2, <3>1, FulfilmentKept DEF Fulfilling
  <2> QED
    BY <1>1, <2>1, <2>2
<1>22. CASE BroadcastBitcoin
  <2>1. CASE Exit /\ UNCHANGED btcVars
    BY <1>1, <2>1
  <2>2. CASE broadcast_bitcoin(self.cur, self.fulfill_tx)
             /\ (Exit \/ (pc' = "idle" /\ FinishOp))
    <3>1. pc = "btc" /\ UNCHANGED requested /\ ~Fulfilling'
      BY <1>22, <2>2 DEF BroadcastBitcoin, Exit, FinishOp, Fulfilling, Calling
    <3> QED
      BY <2>2, <3>1, ChainPaid DEF OperationInv
  <2> QED
    BY <1>22, <2>1, <2>2 DEF BroadcastBitcoin
<1>23. CASE KeyGenerationFails
  BY <1>1, <1>23 DEF KeyGenerationFails
<1>24. CASE StoppedWhileWriting
  BY <1>1, <1>24 DEF StoppedWhileWriting
<1>25. CASE ImportRefused
  BY <1>25, NotFulfilling DEF ImportRefused, Label
<1>26. CASE AcceptedUnheard
  BY <1>1, <1>26 DEF AcceptedUnheard
<1>27. CASE Fail
  BY <1>1, <1>27 DEF Fail
<1>28. CASE MineStep
  BY <1>28, FulfilmentKept DEF MineStep, Fulfilling, Calling
<1>29. CASE RaiseFeeStep
  BY <1>29, FulfilmentKept DEF RaiseFeeStep, Fulfilling, Calling
<1>30. ASSUME NEW o \in Op, Request(o)
       PROVE  FulfilmentInv'
  BY <1>30, ChainDeposited
<1>31. CASE HoursPassStep
  BY <1>31, NotFulfilling DEF HoursPassStep, HoursPass, procVars, Label
<1> QED
  BY <1>2, <1>3, <1>4, <1>5, <1>6, <1>7, <1>8, <1>9, <1>10, <1>11, <1>12, <1>13,
     <1>14, <1>15, <1>16, <1>17, <1>18, <1>19, <1>20, <1>21, <1>22, <1>23, <1>24, <1>25,
     <1>26, <1>27, <1>28, <1>29, <1>30, <1>31
  DEF Next, Process, Faults

\* The UTXOs a balanced fulfilment spends are those it was built from.
LEMMA SpendsThose ==
    ASSUME Coins(utxos), NEW tx, NEW K \in SUBSET utxos, Spending(K, tx.input, tx.prevouts)
    PROVE  Spends(tx) = K /\ Spendable(tx)
<1>1. \A u : utxo_to_input(u) = [txid |-> u.txid, vout |-> u.vout]
  BY DEF utxo_to_input
<1>2. \A i \in DOMAIN tx.input : \E u \in K : tx.input[i] = utxo_to_input(u)
  <2>1. PICK A : A = {utxo_to_input(v) : v \in K}
    OBVIOUS
  <2>2. tx.input \in Seq(A)
    BY <2>1 DEF Spending
  <2>3. \A i \in DOMAIN tx.input : tx.input[i] \in A
    BY <2>2
  <2> QED
    BY <2>1, <2>3
<1>3. Spends(tx) \subseteq K
  BY <1>1, <1>2 DEF Spends, Coins
<1>4. K \subseteq Spends(tx)
  BY <1>1 DEF Spends, Spending
<1>5. Spendable(tx)
  BY <1>1, <1>2 DEF Spendable
<1> QED
  BY <1>3, <1>4, <1>5

\* The fulfilment spends the fulfilment UTXO, no input twice, only what is
\* still unspent, none once the amount is covered, and leaves to the miner the
\* fee and less than the dust limit, whatever UTXOs there are, in whatever order
\* the node lists them and whatever happens between listing and broadcasting
\* (fulfill_peg_out).
THEOREM FulfilmentsBalance == Spec => []FulfilmentBalanced
<1>1. OperationInv /\ FulfilmentInv => FulfilmentBalanced
  <2> SUFFICES ASSUME OperationInv, FulfilmentInv, self.fulfill_tx # None
               PROVE  FulfilmentBalanced
    BY DEF FulfilmentBalanced
  <2>1. Fulfilling
    BY DEF OperationInv, HoldsInv
  <2>2. PICK K \in SUBSET utxos : Balanced(Detail[self.cur], self.fulfill_tx, K)
    BY <2>1 DEF FulfilmentInv
  <2>3. Spends(self.fulfill_tx) = K /\ Spendable(self.fulfill_tx)
    BY <2>2, SpendsThose DEF Balanced, FulfilmentInv
  <2>4. Len(self.fulfill_tx.input) = Cardinality(K)
    BY <2>2 DEF Balanced, Spending
  <2> QED
    BY <2>2, <2>3, <2>4 DEF FulfilmentBalanced, Balanced, Sparing, Rest
<1> QED
  BY InitOperationInv, NextOperationInv, InitFulfilmentInv, NextFulfilmentInv, <1>1, PTL DEF Spec

\* The faults are counted, one at a time.
LEMMA FaultsCounted ==
    ASSUME faults \in Nat, [Next]_vars
    PROVE  faults' = faults \/ faults' = faults + 1
<1> USE DEF Stays, Fault, Step
<1>1. CASE UNCHANGED vars
  BY <1>1 DEF vars
<1>2. CASE \E cli \in world.clis : Start(cli)
  BY <1>2 DEF Start
<1>3. CASE Process
  <2>1. CASE \/ create_frost_coordinator_from_path \/ create_frost_coordinator_from_contract
             \/ load_dkg_data \/ run_distributed_key_generation \/ write_dkg_public_shares
             \/ LoadWallet \/ ImportAddress \/ OpenQueue \/ run_dkg_round
    BY <2>1 DEF create_frost_coordinator_from_path, create_frost_coordinator_from_contract,
       load_dkg_data, run_distributed_key_generation, write_dkg_public_shares, SetKey,
       LoadWallet, ImportAddress, OpenQueue, run_dkg_round
  <2>2. CASE \/ NextNonce \/ BuildFails \/ Accepted \/ ConflictingNonce \/ FeeTooLow \/ Refused
    BY <2>2 DEF NextNonce, BuildFails, Accepted, ConflictingNonce, FeeTooLow, Refused
  <2>3. CASE \E o \in Op : TakeOp(o)
    BY <2>3 DEF TakeOp
  <2>4. CASE FulfillPegOut \/ SignInputs \/ BroadcastBitcoin
    BY <2>4 DEF FulfillPegOut, SignInputs, BroadcastBitcoin
  <2> QED
    BY <1>3, <2>1, <2>2, <2>3, <2>4 DEF Process
<1>4. CASE Faults
  BY <1>4 DEF Faults, KeyGenerationFails, StoppedWhileWriting, ImportRefused, AcceptedUnheard, Fail
<1>5. CASE MineStep \/ RaiseFeeStep \/ HoursPassStep \/ \E o \in Op : Request(o)
  BY <1>5 DEF MineStep, RaiseFeeStep, HoursPassStep, Request
<1> QED
  BY <1>1, <1>2, <1>3, <1>4, <1>5 DEF Next

\* Only these two end the wait for the Bitcoin node.
LEMMA LeavesBtc ==
    ASSUME [Next]_vars, pc = "btc", pc' # "btc"
    PROVE  BroadcastBitcoin \/ Fail
<1>1. ~UNCHANGED vars
  BY DEF vars, procVars
<1>2. ~\E cli \in world.clis : Start(cli)
  BY DEF Start
<1>3. ASSUME Process PROVE BroadcastBitcoin
  BY <1>3 DEF Process, create_frost_coordinator_from_path,
     create_frost_coordinator_from_contract, load_dkg_data, run_distributed_key_generation,
     write_dkg_public_shares, LoadWallet, ImportAddress, OpenQueue, run_dkg_round, NextNonce,
     BuildFails, Posted, Accepted, ConflictingNonce, FeeTooLow, Refused, TakeOp, FulfillPegOut,
     SignInputs
<1>4. ASSUME Faults PROVE Fail
  BY <1>4 DEF Faults, KeyGenerationFails, StoppedWhileWriting, ImportRefused, AcceptedUnheard,
     Posted
<1>5. ~(MineStep \/ RaiseFeeStep \/ HoursPassStep)
  BY DEF MineStep, RaiseFeeStep, HoursPassStep
<1>6. ~\E o \in Op : Request(o)
  BY DEF Request, procVars
<1> QED
  BY <1>1, <1>2, <1>3, <1>4, <1>5, <1>6 DEF Next

\* A peg-out whose burn is accepted is paid unless a fault comes in between:
\* what the fulfilment spends is still unspent when it is broadcast, because
\* nothing but a fulfilment spends and only one is in hand at a time
\* (process_queue, peg_out).
THEOREM BurnIsPaid == Spec => BurntIsPaid
<1> DEFINE Counted == faults \in Nat
           Paid == pc = "btc" /\ pc' # "btc" =>
                       (\E s \in sent' : s.op = self.cur) \/ faults' > faults
<1>1. Init => Counted
  BY DEF Init
<1>2. Counted /\ [Next]_vars => Counted'
  BY FaultsCounted
<1>3. OperationInv /\ FulfilmentInv /\ Counted /\ [Next]_vars => [Paid]_vars
  <2> SUFFICES ASSUME OperationInv, FulfilmentInv, Counted, [Next]_vars,
                      pc = "btc", pc' # "btc"
               PROVE  (\E s \in sent' : s.op = self.cur) \/ faults' > faults
    OBVIOUS
  <2>1. CASE Fail
    BY <2>1 DEF Fail, Fault
  <2>2. CASE BroadcastBitcoin
    <3>1. Fulfilling
      BY DEF Fulfilling
    <3>2. PICK K \in SUBSET utxos : Balanced(Detail[self.cur], self.fulfill_tx, K)
      BY <3>1 DEF FulfilmentInv
    <3>3. Spendable(self.fulfill_tx)
      BY <3>2, SpendsThose DEF Balanced, FulfilmentInv
    <3>4. broadcast_bitcoin(self.cur, self.fulfill_tx)
      BY <2>2, <3>3 DEF BroadcastBitcoin
    <3>5. PICK s : s = [op |-> self.cur, input |-> self.fulfill_tx.input,
                        output |-> self.fulfill_tx.output]
      OBVIOUS
    <3>6. s \in sent' /\ s.op = self.cur
      BY <3>4, <3>5 DEF broadcast_bitcoin
    <3> QED
      BY <3>6
  <2> QED
    BY <2>1, <2>2, LeavesBtc
<1> QED
  BY InitOperationInv, NextOperationInv, InitFulfilmentInv, NextFulfilmentInv,
     <1>1, <1>2, <1>3, PTL DEF Spec, BurntIsPaid

\* Whether the request in hand can be fulfilled, and the error if not, is
\* decided by the set of the wallet's UTXOs (fulfill_peg_out, list_unspent).
THEOREM OrderNeverMatters == Spec => []OrderIrrelevant
<1>1. OperationInv /\ FulfilmentInv => OrderIrrelevant
  <2> SUFFICES ASSUME OperationInv, FulfilmentInv, pc = "unspent",
                      NEW available \in list_unspent(self.key)
               PROVE  LET tx == fulfill_peg_out(Detail[self.cur], self.key, available)
                      IN  ExpectedResult(Detail[self.cur], Unspent(self.key)) =
                              IF "err" \in DOMAIN tx THEN tx.err ELSE "Ok"
    BY DEF OrderIrrelevant
  <2>1. Lists(available, Unspent(self.key)) /\ Coins(Unspent(self.key))
    BY UnspentListed DEF FulfilmentInv
  <2> QED
    BY <2>1, RequestAmounts, FulfilmentMatches
<1> QED
  BY InitOperationInv, NextOperationInv, InitFulfilmentInv, NextFulfilmentInv, <1>1, PTL DEF Spec
=============================================================================
