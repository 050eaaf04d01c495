-------------------------- MODULE ChainViewsProofs --------------------------
(***************************************************************************)
(* Readers of a chain that forks, for every set of transactions, number of *)
(* slots and forks, and range of epochs.                                   *)
(*                                                                         *)
(* Two facts about the chain carry the properties: every block's ledger is *)
(* one the program wrote, row by row (Lawful), and the blocks of two views *)
(* that share a slot hold the same transactions there (OneBlockPerSlot).   *)
(* ReaderInv says what a client at work has been told so far.              *)
(***************************************************************************)
EXTENDS ChainViews, FiniteSetTheorems, TLAPS

----------------------------------------------------------------------------
(* The invariant. *)

Roots == {tx.root : tx \in Tx}
Row == [epoch : Nat, root : Roots, slot : Nat, receipt : BOOLEAN]
Touch == [sig : {tx.sig : tx \in Tx}, epoch : Nat, slot : Nat, succeeded : BOOLEAN]

Tables == UNION {[StartEpoch .. n -> Row] : n \in Nat}
Block == [ledger : [last : Nat, checkpoint : Tables], touched : SUBSET Touch, path : SUBSET Nat]

\* The transaction t wrote the row of epoch e.
Writes(t, row, e) ==
  /\ t.epoch = e /\ t.slot = row.slot /\ t.succeeded
  /\ TxOf(t.sig).kind = "publish" /\ TxOf(t.sig).root = row.root

\* Every row is of its epoch, was written in a slot of the chain, and by a
\* transaction of the chain.
Lawful(b) ==
  /\ b.ledger.last + 1 >= StartEpoch
  /\ b.ledger.checkpoint \in [StartEpoch .. b.ledger.last -> Row]
  /\ \A e \in StartEpoch .. b.ledger.last :
       /\ b.ledger.checkpoint[e].epoch = e
       /\ b.ledger.checkpoint[e].slot \in b.path
       /\ \E t \in b.touched : Writes(t, b.ledger.checkpoint[e], e)
  /\ IsFiniteSet(b.touched) /\ \A t \in b.touched : t.slot \in b.path

At(v, s) == {t \in View(v).touched : t.slot = s}

\* A chain goes back through earlier slots, and what happened in one of them is
\* what its block says.
OneBlockPerSlot(v) ==
  /\ View(v).path \subseteq 0 .. v /\ v \in View(v).path
  /\ \A s \in View(v).path : At(v, s) = At(s, s)

ChainInv ==
  /\ block \in Seq(Block)
  /\ \A v \in Views : Lawful(View(v)) /\ OneBlockPerSlot(v)

\* The epochs a scan has asked about.
Done(next) == {e \in First .. Final : e < next}

\* What a scan has told so far: unless the configuration moved, one set of
\* bounds and each epoch on its side of them.
ScanInv(r) ==
  /\ r.next \in Nat /\ r.next >= First /\ r.moved \in BOOLEAN
  /\ r.before = {e \in Done(r.next) : e < StartEpoch}
  /\ r.first = Nothing => r.next = First /\ r.seen = {} /\ r.ahead = {} /\ ~r.moved
  /\ (r.first # Nothing /\ ~r.moved) =>
       /\ r.last = r.first /\ r.last \in Nat /\ r.last + 1 >= StartEpoch
       /\ \A v \in r.seen : View(v).ledger.last = r.last
       /\ r.ahead = {e \in Done(r.next) : e > r.last}

ReaderInv ==
  reader # Nothing =>
    /\ reader.of \in {"lag", "missing", "settle", "wrote it", "reference", "landed"}
    /\ reader.of = "lag" => ScanInv(reader)
    /\ reader.of \in {"settle", "wrote it", "reference"} => reader.epoch \in Nat
    /\ reader.of = "missing" =>
         /\ reader.view \in Views /\ reader.epoch \in Nat
         /\ ~Written(View(reader.view).ledger, reader.epoch)
    /\ reader.of = "wrote it" =>
         \E v \in Views :
           /\ Written(View(v).ledger, reader.epoch)
           /\ reader.root = View(v).ledger.checkpoint[reader.epoch].root
           /\ reader.slot = View(v).ledger.checkpoint[reader.epoch].slot
    /\ reader.of = "landed" =>
         reader.view \in Views /\ reader.slot \in View(reader.view).path

ViewsInv ==
  /\ ChainInv /\ ReaderInv
  /\ LagIsOneObservation /\ PlacedIsTheEpochs /\ MissingIsClassified
  /\ RecoveredIsTheWriter /\ BoundIsOneChain

----------------------------------------------------------------------------
(* The chain. *)

\* Signatures name transactions.
LEMMA TxOfIs ==
  ASSUME NEW tx \in Tx
  PROVE  TxOf(tx.sig) = tx
<1>1. \E other \in Tx : other.sig = tx.sig
  OBVIOUS
<1>2. TxOf(tx.sig) \in Tx /\ TxOf(tx.sig).sig = tx.sig
  BY <1>1 DEF TxOf
<1> QED
  BY <1>2, ChainViewsAssumption

\* The chain starts with an empty log.
LEMMA GenesisIs ==
  /\ Genesis \in Block /\ Lawful(Genesis)
  /\ Genesis.path = {0} /\ Genesis.touched = {} /\ Genesis.ledger.last = StartEpoch - 1
<1>1. StartEpoch - 1 \in Nat /\ StartEpoch .. (StartEpoch - 1) = {}
  BY ChainViewsAssumption
<1>2. Genesis.ledger.checkpoint = <<>> /\ <<>> \in [{} -> Row]
  BY DEF Genesis
<1>3. Genesis.ledger.checkpoint \in [StartEpoch .. (StartEpoch - 1) -> Row]
  BY <1>1, <1>2
<1>4. Genesis.ledger.checkpoint \in Tables
  BY <1>1, <1>3 DEF Tables
<1>5. Genesis.path = {0} /\ Genesis.touched = {} /\ Genesis.ledger.last = StartEpoch - 1
  BY DEF Genesis
<1>6. Genesis \in Block
  BY <1>1, <1>4 DEF Genesis, Block
<1>7. Lawful(Genesis)
  BY <1>1, <1>3, <1>5, ChainViewsAssumption, FS_EmptySet DEF Lawful
<1> QED
  BY <1>5, <1>6, <1>7

\* Every view is of a block.
LEMMA ViewIs ==
  ASSUME ChainInv, NEW v \in Views
  PROVE  /\ View(v) \in Block /\ Lawful(View(v)) /\ OneBlockPerSlot(v)
         /\ v \in Nat /\ v <= Len(block) /\ Len(block) \in Nat
<1>1. block \in Seq(Block) /\ v \in 0 .. Len(block)
  BY DEF ChainInv, Views
<1>2. v = 0 \/ v \in 1 .. Len(block)
  BY <1>1
<1>3. View(v) \in Block
  BY <1>1, <1>2, GenesisIs DEF View
<1> QED
  BY <1>1, <1>3 DEF ChainInv

\* The epochs a lawful ledger has written are those from the start to the last.
LEMMA WrittenIs ==
  ASSUME NEW b \in Block, Lawful(b), NEW e
  PROVE  Written(b.ledger, e) <=> e \in StartEpoch .. b.ledger.last
BY DEF Lawful, Written

\* Every instruction leaves a ledger of the same kind: a publication takes the
\* next epoch alone, and a receipt changes no row's epoch, root or slot.
LEMMA IncludedIs ==
  ASSUME NEW b \in Block, Lawful(b), NEW tx \in Tx, NEW slot \in b.path
  PROVE  Included(b, tx, slot) \in Block /\ Lawful(Included(b, tx, slot))
<1> DEFINE l == b.ledger
           m == Execute(l, tx, slot)
           t == [sig |-> tx.sig, epoch |-> tx.epoch, slot |-> slot, succeeded |-> Succeeds(l, tx)]
           c == Included(b, tx, slot)
<1>0. /\ StartEpoch \in Nat \ {0} /\ tx.kind \in {"publish", "attach", "fund"} /\ tx.epoch \in Nat
      /\ slot \in Nat /\ tx.root \in Roots
  BY ChainViewsAssumption DEF Block, Roots
<1>1. /\ l = [last |-> l.last, checkpoint |-> l.checkpoint] /\ l.last \in Nat
      /\ l.checkpoint \in [StartEpoch .. l.last -> Row]
      /\ l.last + 1 >= StartEpoch
      /\ b.touched \subseteq Touch /\ b.path \subseteq Nat
  BY DEF Block, Lawful
<1>2. Succeeds(l, tx) \in BOOLEAN
  BY <1>0, <1>1 DEF Succeeds, Written, Row
<1>3. t \in Touch
  BY <1>0, <1>2 DEF Touch
<1>4. c.ledger = m /\ c.touched = b.touched \cup {t} /\ c.path = b.path
      /\ c = [ledger |-> m, touched |-> b.touched \cup {t}, path |-> b.path]
  BY DEF Included
<1>5. IsFiniteSet(c.touched) /\ \A u \in c.touched : u.slot \in c.path
  <2>1. IsFiniteSet(b.touched) /\ slot \in b.path /\ \A u \in b.touched : u.slot \in b.path
    BY DEF Lawful
  <2>2. IsFiniteSet(b.touched \cup {t})
    BY <2>1, FS_AddElement
  <2>3. t.slot = slot
    OBVIOUS
  <2> HIDE DEF t, c
  <2> QED
    BY <1>4, <2>1, <2>2, <2>3
<1>6. SUFFICES /\ m \in [last : Nat, checkpoint : Tables] /\ m.last + 1 >= StartEpoch
               /\ m.checkpoint \in [StartEpoch .. m.last -> Row]
               /\ \A e \in StartEpoch .. m.last :
                    /\ m.checkpoint[e].epoch = e
                    /\ m.checkpoint[e].slot \in b.path
                    /\ \E u \in b.touched \cup {t} : Writes(u, m.checkpoint[e], e)
  <2>1. c \in Block
    BY <1>1, <1>3, <1>4, <1>6 DEF Block
  <2>2. Lawful(c)
    BY <1>4, <1>5, <1>6 DEF Lawful
  <2> QED
    BY <2>1, <2>2
<1>7. \A e \in StartEpoch .. l.last :
        /\ l.checkpoint[e] \in Row
        /\ l.checkpoint[e].epoch = e
        /\ l.checkpoint[e].slot \in b.path
        /\ \E u \in b.touched : Writes(u, l.checkpoint[e], e)
  BY <1>1 DEF Lawful
<1>8. CASE m = l
  <2>1. l.checkpoint \in Tables
    BY <1>1 DEF Tables
  <2> QED
    BY <1>1, <1>7, <1>8, <2>1
<1>9. CASE Succeeds(l, tx) /\ tx.kind = "publish"
  <2> DEFINE row == [epoch |-> tx.epoch, root |-> tx.root, slot |-> slot, receipt |-> FALSE]
             E == DOMAIN l.checkpoint \cup {tx.epoch}
             f == [e \in E |-> IF e = tx.epoch
                               THEN [epoch |-> e, root |-> tx.root, slot |-> slot, receipt |-> FALSE]
                               ELSE l.checkpoint[e]]
  <2>1. tx.epoch = l.last + 1
    BY <1>9 DEF Succeeds
  <2>2. m = [last |-> tx.epoch, checkpoint |-> f]
    BY <1>9 DEF Execute
  <2>3. E = StartEpoch .. tx.epoch
    BY <1>0, <1>1, <2>1
  <2>4. \A e \in E : e # tx.epoch => e \in StartEpoch .. l.last
    BY <1>1
  <2>5. row \in Row
    BY <1>0 DEF Row
  <2>6. \A e \in E : f[e] = IF e = tx.epoch THEN row ELSE l.checkpoint[e]
    OBVIOUS
  <2>7. f \in [E -> Row]
    BY <1>7, <2>4, <2>5, <2>6
  <2>8. f \in Tables /\ f \in [StartEpoch .. tx.epoch -> Row]
    BY <1>0, <2>3, <2>7 DEF Tables
  <2>9. Writes(t, row, tx.epoch)
    BY <1>9, TxOfIs DEF Writes
  <2>10. ASSUME NEW e \in E
         PROVE  /\ f[e].epoch = e
                /\ f[e].slot \in b.path
                /\ \E u \in b.touched \cup {t} : Writes(u, f[e], e)
    <3>1. CASE e = tx.epoch
      <4>1. f[e] = row
        BY <2>6, <3>1
      <4> QED
        BY <2>9, <3>1, <4>1
    <3>2. CASE e # tx.epoch
      <4>1. f[e] = l.checkpoint[e] /\ e \in StartEpoch .. l.last
        BY <2>4, <2>6, <3>2
      <4> QED
        BY <1>7, <4>1
    <3> QED
      BY <3>1, <3>2
  <2> HIDE DEF f, E, row, t, l
  <2>11. m.last = tx.epoch /\ m.checkpoint = f /\ m \in [last : Nat, checkpoint : Tables]
    BY <1>0, <2>2, <2>8
  <2>12. tx.epoch + 1 >= StartEpoch
    BY <1>0, <1>1, <2>1
  <2> HIDE DEF m
  <2> QED
    BY <2>3, <2>8, <2>10, <2>11, <2>12
<1>10. CASE Succeeds(l, tx) /\ tx.kind = "attach"
  <2> DEFINE g == [l.checkpoint EXCEPT ![tx.epoch].receipt = TRUE]
  <2>1. tx.epoch \in StartEpoch .. l.last
    BY <1>1, <1>10 DEF Succeeds, Written
  <2>2. m = [last |-> l.last, checkpoint |-> g]
    BY <1>1, <1>10 DEF Execute
  <2>3. /\ g \in [StartEpoch .. l.last -> Row]
        /\ \A e \in StartEpoch .. l.last :
             /\ g[e].epoch = l.checkpoint[e].epoch /\ g[e].root = l.checkpoint[e].root
             /\ g[e].slot = l.checkpoint[e].slot
    BY <1>1, <2>1 DEF Row
  <2>4. g \in Tables
    BY <1>1, <2>3 DEF Tables
  <2>5. ASSUME NEW e \in StartEpoch .. l.last
        PROVE  /\ g[e].epoch = e
               /\ g[e].slot \in b.path
               /\ \E u \in b.touched \cup {t} : Writes(u, g[e], e)
    BY <1>7, <2>3 DEF Writes
  <2> HIDE DEF g, t, l
  <2>6. m.last = l.last /\ m.checkpoint = g /\ m \in [last : Nat, checkpoint : Tables]
    BY <1>1, <2>2, <2>4
  <2> HIDE DEF m
  <2> QED
    BY <1>1, <2>3, <2>5, <2>6
<1> QED
  BY <1>0, <1>8, <1>9, <1>10 DEF Execute

\* A new block has the ledger and the transactions of its parent.
LEMMA ProduceStep ==
  ASSUME ChainInv, NEW parent \in Views, Produce(parent)
  PROVE  ChainInv'
<1>a. PICK n \in Nat : n = Len(block) + 1
  BY DEF ChainInv
<1> DEFINE B == [View(parent) EXCEPT !.path = @ \cup {n}]
<1>0. /\ block \in Seq(Block) /\ Len(block) \in Nat /\ n \in Nat
      /\ View(parent) \in Block /\ Lawful(View(parent)) /\ OneBlockPerSlot(parent)
      /\ parent \in Nat /\ parent < n
  BY <1>a, ViewIs DEF ChainInv
<1>1. /\ B.ledger = View(parent).ledger /\ B.touched = View(parent).touched
      /\ B.path = View(parent).path \cup {n}
  BY <1>0 DEF Block
<1>2. B \in Block /\ Lawful(B)
  <2>1. B \in Block
    BY <1>0 DEF Block
  <2>2. Lawful(B)
    BY <1>0, <1>1 DEF Lawful
  <2> QED
    BY <2>1, <2>2
<1>3. block' = Append(block, B)
  BY <1>a DEF Produce
<1> HIDE DEF B
<1>4. /\ block' \in Seq(Block) /\ Len(block') = n
      /\ block'[n] = B /\ \A v \in 1 .. Len(block) : block'[v] = block[v]
  BY <1>0, <1>2, <1>3, <1>a
<1>5. Views' = Views \cup {n} /\ n # 0 /\ n \notin Views /\ \A v \in Views : v \in 0 .. Len(block)
  BY <1>0, <1>4, <1>a DEF Views
<1>6. \A v \in Views : View(v)' = View(v)
  BY <1>0, <1>4, <1>5 DEF View
<1>7. View(n)' = B
  BY <1>4, <1>5 DEF View
<1>8. ASSUME NEW v \in Views PROVE Lawful(View(v))' /\ OneBlockPerSlot(v)'
  <2>1. Lawful(View(v)) /\ OneBlockPerSlot(v) /\ View(v)' = View(v)
    BY <1>6, ViewIs
  <2>2. \A s \in View(v).path : s \in Views
    BY <1>0, <2>1, ViewIs DEF OneBlockPerSlot, Views
  <2>3. \A s \in View(v).path : At(v, s)' = At(v, s) /\ At(s, s)' = At(s, s)
    BY <1>6, <2>1, <2>2 DEF At
  <2>4. Lawful(View(v))'
    BY <2>1 DEF Lawful
  <2> QED
    BY <2>1, <2>3, <2>4 DEF OneBlockPerSlot
<1>9. Lawful(View(n))' /\ OneBlockPerSlot(n)'
  <2>1. \A s \in View(parent).path : s \in Views /\ s \in 0 .. n
    BY <1>0 DEF OneBlockPerSlot, Views
  <2>2. \A s \in View(parent).path : At(n, s)' = At(parent, s) /\ At(s, s)' = At(s, s)
    BY <1>1, <1>6, <1>7, <2>1 DEF At
  <2>3. \A s \in View(parent).path : At(parent, s) = At(s, s)
    BY <1>0 DEF OneBlockPerSlot
  <2>4. View(n)'.path \subseteq 0 .. n /\ n \in View(n)'.path
    BY <1>0, <1>1, <1>7, <2>1
  <2>5. \A s \in View(n)'.path : At(n, s)' = At(s, s)'
    BY <1>1, <1>7, <2>2, <2>3
  <2>6. Lawful(View(n))'
    BY <1>2, <1>7 DEF Lawful
  <2> QED
    BY <2>4, <2>5, <2>6 DEF OneBlockPerSlot
<1> QED
  BY <1>4, <1>5, <1>8, <1>9 DEF ChainInv

\* A transaction changes the last block alone, and no other block is built on
\* it.
LEMMA IncludeStep ==
  ASSUME ChainInv, NEW tx \in Tx, Include(tx)
  PROVE  ChainInv'
<1>a. PICK n \in Nat : n = Len(block)
  BY DEF ChainInv
<1> DEFINE C == Included(block[n], tx, n)
<1>0. block \in Seq(Block) /\ n \in Nat /\ n > 0 /\ n \in Views
  BY <1>a DEF ChainInv, Include, Views
<1>1. /\ View(n) = block[n] /\ block[n] \in Block /\ Lawful(block[n]) /\ OneBlockPerSlot(n)
      /\ n \in block[n].path
  BY <1>0, ViewIs DEF View, OneBlockPerSlot
<1>2. C \in Block /\ Lawful(C)
  BY <1>1, IncludedIs
<1>3. /\ C.path = block[n].path
      /\ \A t \in C.touched : t.slot = n \/ t \in block[n].touched
      /\ block[n].touched \subseteq C.touched
  BY DEF Included
<1>4. block' = [block EXCEPT ![n] = C]
  BY <1>a DEF Include
<1> HIDE DEF C
<1>5. /\ block' \in Seq(Block) /\ Len(block') = n
      /\ block'[n] = C /\ \A v \in 1 .. n : v # n => block'[v] = block[v]
  BY <1>0, <1>2, <1>4, <1>a
<1>6. Views' = Views /\ \A v \in Views : v \in 0 .. n
  BY <1>5, <1>a DEF Views
<1>7. \A v \in Views : v # n => View(v)' = View(v)
  BY <1>0, <1>5, <1>6 DEF View
<1>8. View(n)' = C
  BY <1>0, <1>5 DEF View
<1>9. ASSUME NEW v \in Views, v # n PROVE Lawful(View(v))' /\ OneBlockPerSlot(v)'
  <2>1. Lawful(View(v)) /\ OneBlockPerSlot(v) /\ View(v)' = View(v) /\ v \in Nat /\ v < n
    BY <1>0, <1>7, <1>9, <1>a, ViewIs
  <2>2. \A s \in View(v).path : s \in Views /\ s # n
    BY <1>0, <2>1 DEF OneBlockPerSlot, Views
  <2>3. \A s \in View(v).path : At(v, s)' = At(v, s) /\ At(s, s)' = At(s, s)
    BY <1>7, <2>1, <2>2 DEF At
  <2>4. Lawful(View(v))'
    BY <2>1 DEF Lawful
  <2> QED
    BY <2>1, <2>3, <2>4 DEF OneBlockPerSlot
<1>10. Lawful(View(n))' /\ OneBlockPerSlot(n)'
  <2>1. \A s \in C.path : s \in Views /\ s \in 0 .. n
    BY <1>0, <1>1, <1>3 DEF OneBlockPerSlot, Views
  <2>2. \A s \in C.path : s # n => At(n, s)' = At(n, s) /\ At(s, s)' = At(s, s)
    BY <1>1, <1>3, <1>7, <1>8, <2>1 DEF At
  <2>3. \A s \in C.path : At(n, s) = At(s, s)
    BY <1>1, <1>3 DEF OneBlockPerSlot
  <2>4. View(n)'.path \subseteq 0 .. n /\ n \in View(n)'.path
    BY <1>1, <1>3, <1>8, <2>1
  <2>5. \A s \in View(n)'.path : At(n, s)' = At(s, s)'
    BY <1>8, <2>2, <2>3
  <2>6. Lawful(View(n))'
    BY <1>2, <1>8 DEF Lawful
  <2> QED
    BY <2>4, <2>5, <2>6 DEF OneBlockPerSlot
<1> QED
  BY <1>5, <1>6, <1>9, <1>10 DEF ChainInv

----------------------------------------------------------------------------
(* Accounts. *)

\* An account that a view holds is not nothing, and says its epoch.
LEMMA AccountIs ==
  ASSUME ChainInv, NEW v \in Views, NEW e, Written(View(v).ledger, e)
  PROVE  /\ AccountAt(v, e) = CheckpointAccount(View(v).ledger.checkpoint[e])
         /\ AccountAt(v, e) \in Account /\ AccountAt(v, e) # Nothing
         /\ AccountAt(v, e).epoch = e
         /\ View(v).ledger.checkpoint[e].slot \in View(v).path
<1> DEFINE row == View(v).ledger.checkpoint[e]
<1>1. /\ View(v) \in Block /\ Lawful(View(v)) /\ e \in StartEpoch .. View(v).ledger.last
  BY ViewIs, WrittenIs
<1>2. row \in Row /\ row.epoch = e /\ row.slot \in View(v).path
  BY <1>1 DEF Lawful
<1>3. AccountAt(v, e) = CheckpointAccount(row)
  BY DEF AccountAt
<1>4. CheckpointAccount(row) \in Account /\ CheckpointAccount(row).epoch = e
  BY <1>2 DEF CheckpointAccount, Account, Row, Roots
<1> QED
  BY <1>2, <1>3, <1>4, ChainViewsAssumption

\* Neither is the account of the configuration, whoever owns it.
LEMMA ConfigIs ==
  ASSUME ChainInv, NEW v \in Views
  PROVE  /\ ConfigAccount(View(v).ledger) \in Account
         /\ [ConfigAccount(View(v).ledger) EXCEPT !.owner = "another"] \in Account
         /\ ConfigAccount(View(v).ledger).discriminator = "LogConfig"
<1>1. View(v).ledger.last \in Nat
  BY ViewIs DEF Block
<1> QED
  BY <1>1 DEF ConfigAccount, Account

\* Only the account of the epoch itself is placed, and nothing comes back only
\* where nothing is written.
LEMMA AnswersAre ==
  ASSUME ChainInv, NEW v \in Views, NEW epoch \in Nat, NEW a \in Answers(v, epoch)
  PROVE  /\ a = Nothing => ~Written(View(v).ledger, epoch)
         /\ a # Nothing /\ (Decode(a, epoch) = "Placed" \/ FetchedTs(a, epoch) = "Placed") =>
              /\ Written(View(v).ledger, epoch)
              /\ a = CheckpointAccount(View(v).ledger.checkpoint[epoch])
<1> DEFINE l == View(v).ledger
           Forged(owner, length, schema) ==
             [owner |-> owner, length |-> length, discriminator |-> "CheckpointAccount",
              schema |-> schema, epoch |-> epoch, root |-> "forged", slot |-> 0, receipt |-> FALSE]
           Forgeries == {Forged("another", "exact", 1), Forged("program", "short", 1),
                         Forged("program", "exact", 2)}
<1>1. CASE a = AccountAt(v, epoch)
  <2>1. CASE Written(l, epoch)
    BY <1>1, <2>1, AccountIs
  <2>2. CASE ~Written(l, epoch)
    BY <1>1, <2>2 DEF AccountAt
  <2> QED
    BY <2>1, <2>2
<1>2. CASE a \in Forgeries
  <2>1. a \in Account /\ (a.owner = "another" \/ a.length = "short" \/ a.schema = 2)
    <3>1. ASSUME NEW owner \in {"program", "another"}, NEW length \in {"exact", "short"},
                 NEW schema \in {1, 2}
          PROVE  /\ Forged(owner, length, schema) \in Account
                 /\ Forged(owner, length, schema).owner = owner
                 /\ Forged(owner, length, schema).length = length
                 /\ Forged(owner, length, schema).schema = schema
      BY DEF Account
    <3> HIDE DEF Forged
    <3> QED
      BY <1>2, <3>1
  <2> QED
    BY <2>1, ChainViewsAssumption DEF Decode, FetchedTs, Account
<1>3. CASE a = ConfigAccount(l)
  <2>1. a \in Account /\ a.discriminator = "LogConfig"
    BY <1>3, ConfigIs
  <2> QED
    BY <2>1, ChainViewsAssumption DEF Decode, FetchedTs
<1>4. ASSUME NEW e, Written(l, e), a = AccountAt(v, e)
      PROVE  /\ a # Nothing
             /\ (Decode(a, epoch) = "Placed" \/ FetchedTs(a, epoch) = "Placed") => e = epoch
  BY <1>4, AccountIs DEF Decode, FetchedTs
<1>5. \/ a = AccountAt(v, epoch) \/ a \in Forgeries \/ a = ConfigAccount(l)
      \/ \E e \in Epochs : Written(l, e) /\ a = AccountAt(v, e)
  BY Zenon DEF Answers, Strange
<1> QED
  BY <1>1, <1>2, <1>3, <1>4, <1>5

----------------------------------------------------------------------------
(* sequence_lag. *)

\* epochs_behind counts the epochs between the last one published and the last
\* one asked about, also those below the range.
LEMMA BehindIs ==
  ASSUME NEW r, r.last \in Nat, r.last + 1 >= StartEpoch,
         r.ahead = {e \in First .. Final : e > r.last}
  PROVE  EpochsBehind(r) =
           IF First > Final THEN 0 ELSE Cardinality({e \in StartEpoch .. Final : e > r.last})
<1>0. StartEpoch \in Nat \ {0} /\ First \in Nat /\ Final \in Nat
  BY ChainViewsAssumption
<1> DEFINE later == {e \in StartEpoch .. Final : e > r.last}
<1>1. later = (r.last + 1) .. Final
  BY <1>0
<1>2. Cardinality(later) = IF r.last + 1 > Final THEN 0 ELSE Final - (r.last + 1) + 1
  <2>1. r.last + 1 \in Int /\ Final \in Int
    BY <1>0
  <2>2. Cardinality((r.last + 1) .. Final) =
          IF r.last + 1 > Final THEN 0 ELSE Final - (r.last + 1) + 1
    BY <2>1, FS_Interval
  <2> HIDE DEF later
  <2> QED
    BY <1>1, <2>2
<1>3. CASE r.ahead = {}
  <2>1. EpochsBehind(r) = 0
    BY <1>3 DEF EpochsBehind
  <2>2. CASE First > Final
    BY <2>1, <2>2
  <2>3. CASE ~(First > Final)
    <3>1. Final \in First .. Final
      BY <1>0, <2>3
    <3>2. ~(Final > r.last)
      BY <1>3, <3>1
    <3>3. Cardinality(later) = 0
      BY <1>0, <1>2, <3>2
    <3> QED
      BY <2>1, <2>3, <3>3
  <2> QED
    BY <2>2, <2>3
<1>4. CASE r.ahead # {}
  <2>1. First <= Final /\ Final \in r.ahead /\ \A f \in r.ahead : f <= Final
    BY <1>0, <1>4
  <2> DEFINE highest == CHOOSE e \in r.ahead : \A f \in r.ahead : f <= e
  <2>2. highest \in r.ahead /\ \A f \in r.ahead : f <= highest
    BY <2>1
  <2>3. highest \in Nat /\ highest <= Final /\ Final <= highest
    BY <1>0, <2>1, <2>2
  <2>a. Final > r.last
    BY <2>1
  <2> HIDE DEF highest
  <2>4. highest = Final /\ highest > r.last
    BY <1>0, <2>3, <2>a
  <2>5. EpochsBehind(r) = highest - r.last
    BY <1>4, <2>4 DEF EpochsBehind, highest
  <2> HIDE DEF later
  <2>6. EpochsBehind(r) = Final - r.last /\ Cardinality(later) = Final - r.last
    BY <1>0, <1>2, <2>4, <2>5
  <2>7. ~(First > Final)
    BY <1>0, <2>1
  <2> QED
    BY <2>6, <2>7 DEF later
<1> QED
  BY <1>3, <1>4

\* A scan that has asked about every epoch has told the whole of it.
LEMMA ScanIsWhole ==
  ASSUME NEW r, ScanInv(r), r.next > Final, r.first # Nothing, ~r.moved
  PROVE  /\ \A v \in r.seen : View(v).ledger.last = r.last
         /\ r.before = {e \in First .. Final : e < StartEpoch}
         /\ r.ahead = {e \in First .. Final : e > r.last}
         /\ EpochsBehind(r) =
              IF First > Final THEN 0 ELSE Cardinality({e \in StartEpoch .. Final : e > r.last})
<1>1. Done(r.next) = First .. Final
  BY ChainViewsAssumption DEF Done, ScanInv
<1>2. /\ \A v \in r.seen : View(v).ledger.last = r.last
      /\ r.before = {e \in First .. Final : e < StartEpoch}
      /\ r.ahead = {e \in First .. Final : e > r.last}
      /\ r.last \in Nat /\ r.last + 1 >= StartEpoch
  BY <1>1 DEF ScanInv
<1> QED
  BY <1>2, BehindIs

\* The epochs of a batch, and what the scan knows after it.
Batch(r) == {e \in First .. Final : r.next <= e /\ e < r.next + OneViewLimit - 1}

ScanAfter(r, v, refused) ==
  LET last == View(v).ledger.last
  IN  [of |-> "lag", next |-> r.next + OneViewLimit - 1, last |-> last,
       before  |-> r.before \cup {e \in Batch(r) : e < StartEpoch},
       ahead   |-> r.ahead \cup {e \in Batch(r) : e > last},
       refused |-> refused,
       views   |-> r.views + 1,
       moved   |-> Moved(r.moved, r.first, last),
       first   |-> IF r.first = Nothing THEN last ELSE r.first,
       seen    |-> r.seen \cup {v}]

\* A batch from a view with the bounds of the batches before it continues one
\* observation, and one from any other view is seen to have moved.
LEMMA ScanAfterIs ==
  ASSUME ChainInv, NEW r, ScanInv(r), NEW v \in Views, NEW refused
  PROVE  ScanInv(ScanAfter(r, v, refused)) /\ ScanAfter(r, v, refused).first # Nothing
<1> DEFINE q == ScanAfter(r, v, refused)
           last == View(v).ledger.last
<1>0. /\ OneViewLimit \in Nat \ {0, 1} /\ StartEpoch \in Nat \ {0}
      /\ First \in Nat /\ Final \in Nat /\ Nothing \notin Int
  BY ChainViewsAssumption
<1>1. last \in Nat /\ last + 1 >= StartEpoch
  BY ViewIs DEF Block, Lawful
<1>2. /\ q.next = r.next + OneViewLimit - 1 /\ q.last = last
      /\ q.before = r.before \cup {e \in Batch(r) : e < StartEpoch}
      /\ q.ahead = r.ahead \cup {e \in Batch(r) : e > last}
      /\ q.moved = Moved(r.moved, r.first, last)
      /\ q.first = IF r.first = Nothing THEN last ELSE r.first
      /\ q.seen = r.seen \cup {v}
  BY DEF ScanAfter
<1> HIDE DEF q, last
<1>3. r.next \in Nat /\ r.next >= First /\ r.moved \in BOOLEAN
  BY DEF ScanInv
<1>4. q.next \in Nat /\ q.next >= First
  BY <1>0, <1>2, <1>3
<1>5. Done(q.next) = Done(r.next) \cup Batch(r)
  BY <1>0, <1>2, <1>3 DEF Done, Batch
<1>6. q.before = {e \in Done(q.next) : e < StartEpoch}
  BY <1>2, <1>5 DEF ScanInv
<1>7. q.first # Nothing
  BY <1>0, <1>1, <1>2
<1>8. q.moved \in BOOLEAN
  BY <1>2, <1>3 DEF Moved
<1>9. ASSUME ~q.moved
      PROVE  /\ q.last = q.first /\ q.last \in Nat /\ q.last + 1 >= StartEpoch
             /\ \A w \in q.seen : View(w).ledger.last = q.last
             /\ q.ahead = {e \in Done(q.next) : e > q.last}
  <2>1. CASE r.first = Nothing
    <3>1. r.seen = {} /\ r.ahead = {} /\ Done(r.next) = {}
      BY <1>0, <2>1 DEF ScanInv, Done
    <3>2. q.seen = {v} /\ q.first = last /\ q.ahead = {e \in Done(q.next) : e > q.last}
      BY <1>2, <1>5, <2>1, <3>1
    <3> QED
      BY <1>1, <1>2, <3>2 DEF last
  <2>2. CASE r.first # Nothing
    <3>1. ~r.moved /\ r.first = last
      BY <1>2, <1>9, <2>2 DEF Moved
    <3>2. /\ r.last = last /\ \A w \in r.seen : View(w).ledger.last = last
          /\ r.ahead = {e \in Done(r.next) : e > last}
      BY <2>2, <3>1 DEF ScanInv
    <3>3. q.first = last /\ q.ahead = {e \in Done(q.next) : e > q.last}
      BY <1>2, <1>5, <2>2, <3>1, <3>2
    <3> QED
      BY <1>1, <1>2, <3>2, <3>3 DEF last
  <2> QED
    BY <2>1, <2>2
<1> QED
  BY <1>4, <1>6, <1>7, <1>8, <1>9 DEF ScanInv, q

----------------------------------------------------------------------------
(* The readers. *)

Said == LagIsOneObservation /\ PlacedIsTheEpochs /\ MissingIsClassified /\ BoundIsOneChain

\* The views stay what they are while a client reads.
LEMMA ViewsStay ==
  ASSUME UNCHANGED block
  PROVE  /\ Views' = Views /\ \A v : View(v)' = View(v)
         /\ ChainInv => ChainInv'
<1>1. Views' = Views /\ \A v : View(v)' = View(v)
  BY DEF Views, View
<1>2. \A v, s : At(v, s)' = At(v, s)
  BY <1>1 DEF At
<1>3. \A v : (Lawful(View(v)) => Lawful(View(v))') /\ (OneBlockPerSlot(v) => OneBlockPerSlot(v)')
  BY <1>1, <1>2 DEF Lawful, OneBlockPerSlot
<1> QED
  BY <1>1, <1>3 DEF ChainInv

\* An answer that is kept stays true.
LEMMA SaidStays ==
  ASSUME UNCHANGED <<block, result>>, Said
  PROVE  Said'
<1>1. \A v : View(v)' = View(v)
  BY ViewsStay
<1> QED
  BY <1>1 DEF Said, LagIsOneObservation, PlacedIsTheEpochs, MissingIsClassified, BoundIsOneChain

\* Nothing is said by an answer that says nothing.
LEMMA SaidNothing ==
  ASSUME result' = Nothing \/ result'.of \in {"unreachable", "not published"}
  PROVE  Said'
BY DEF Said, LagIsOneObservation, PlacedIsTheEpochs, MissingIsClassified, BoundIsOneChain

\* And nothing has been told to a client that is not at work.
LEMMA NotReading ==
  ASSUME reader' = Nothing
  PROVE  ReaderInv' /\ RecoveredIsTheWriter'
BY DEF ReaderInv, RecoveredIsTheWriter

\* sequence_lag over one more batch.
LEMMA ScanBatchStep ==
  ASSUME ChainInv, ReaderInv, Said, NEW v \in Views, NEW w \in Views,
         NEW strange \in (First .. Final) \cup {Nothing}, ScanBatch(v, w, strange)
  PROVE  ReaderInv' /\ RecoveredIsTheWriter' /\ Said'
<1> DEFINE last == View(v).ledger.last
           inside == {e \in Batch(reader) : StartEpoch <= e /\ e <= last}
           Answer(e) == IF e = strange
                        THEN [ConfigAccount(View(v).ledger) EXCEPT !.owner = "another"]
                        ELSE AccountAt(OneRequest(v, w), e)
           refused == reader.refused \cup
                        {e \in inside : Fetched(Answer(e), e) \notin {"Placed", "Absent"}}
           scanned == ScanAfter(reader, v, refused)
<1>1. reader # Nothing /\ reader.of = "lag" /\ ScanInv(reader)
  BY DEF ScanBatch, ReaderInv
<1>2. ASSUME NEW e \in inside PROVE Fetched(Answer(e), e) # "Absent"
  <2>1. e \in StartEpoch .. last
    BY ChainViewsAssumption DEF Batch
  <2>2. Written(View(v).ledger, e)
    BY <2>1, ViewIs, WrittenIs
  <2>3. AccountAt(v, e) # Nothing
    BY <2>2, AccountIs
  <2>4. [ConfigAccount(View(v).ledger) EXCEPT !.owner = "another"] # Nothing
    BY ConfigIs, ChainViewsAssumption
  <2>5. Answer(e) # Nothing
    BY <2>3, <2>4, Zenon DEF OneRequest
  <2> HIDE DEF Answer
  <2> QED
    BY <2>5 DEF Fetched, Decode
<1>3. UNCHANGED block
  BY DEF ScanBatch
<1>4. /\ scanned.next > Final => result' = scanned /\ reader' = Nothing
      /\ ~(scanned.next > Final) => reader' = scanned /\ UNCHANGED result
  <2>1. scanned.next = reader.next + OneViewLimit - 1
    BY DEF ScanAfter
  <2>2. IF \E e \in inside : Fetched(Answer(e), e) = "Absent"
        THEN result' = [of |-> "gap"] /\ reader' = Nothing
        ELSE IF reader.next + OneViewLimit - 1 > Final
        THEN result' = scanned /\ reader' = Nothing
        ELSE reader' = scanned /\ UNCHANGED result
    BY Zenon DEF ScanBatch, ScanAfter, Batch
  <2>3. ~ \E e \in inside : Fetched(Answer(e), e) = "Absent"
    BY <1>2
  <2> HIDE DEF scanned, inside, Answer
  <2> QED
    BY <2>1, <2>2, <2>3
<1>5. ScanInv(scanned) /\ scanned.first # Nothing
  BY <1>1, ScanAfterIs
<1>6. scanned.of = "lag"
  BY DEF ScanAfter
<1> HIDE DEF scanned
<1>7. CASE scanned.next > Final
  <2>1. result' = scanned /\ reader' = Nothing
    BY <1>4, <1>7
  <2>2. LagIsOneObservation'
    <3>1. CASE scanned.moved
      BY <1>6, <2>1, <3>1 DEF LagIsOneObservation
    <3>2. CASE ~scanned.moved
      <4>1. /\ \A u \in scanned.seen : View(u).ledger.last = scanned.last
            /\ scanned.before = {e \in First .. Final : e < StartEpoch}
            /\ scanned.ahead = {e \in First .. Final : e > scanned.last}
            /\ EpochsBehind(scanned) =
                 IF First > Final THEN 0
                 ELSE Cardinality({e \in StartEpoch .. Final : e > scanned.last})
        BY <1>5, <1>7, <3>2, ScanIsWhole
      <4>2. \A u : View(u)' = View(u)
        BY <1>3, ViewsStay
      <4>3. EpochsBehind(result)' = EpochsBehind(scanned)
        BY <2>1 DEF EpochsBehind
      <4> QED
        BY <1>6, <2>1, <4>1, <4>2, <4>3 DEF LagIsOneObservation
    <3> QED
      BY <3>1, <3>2
  <2>3. PlacedIsTheEpochs' /\ MissingIsClassified' /\ BoundIsOneChain'
    BY <1>6, <2>1 DEF PlacedIsTheEpochs, MissingIsClassified, BoundIsOneChain
  <2> QED
    BY <2>1, <2>2, <2>3, NotReading DEF Said
<1>8. CASE ~(scanned.next > Final)
  <2>1. reader' = scanned /\ UNCHANGED <<block, result>>
    BY <1>3, <1>4, <1>8
  <2>2. \A u : View(u)' = View(u)
    BY <1>3, ViewsStay
  <2>3. ScanInv(reader)'
    BY <1>5, <2>1, <2>2 DEF ScanInv, Done
  <2>4. ReaderInv' /\ RecoveredIsTheWriter'
    BY <1>6, <2>1, <2>3 DEF ReaderInv, RecoveredIsTheWriter
  <2> QED
    BY <2>1, <2>4, SaidStays
<1> QED
  BY <1>7, <1>8

\* A scan that begins.
LEMMA BeginScanStep ==
  ASSUME Said, BeginScan
  PROVE  ReaderInv' /\ RecoveredIsTheWriter' /\ Said'
<1>1. /\ reader'.of = "lag" /\ reader'.next = First /\ reader'.before = {} /\ reader'.ahead = {}
      /\ reader'.moved = FALSE /\ reader'.first = Nothing /\ reader'.seen = {}
      /\ UNCHANGED <<block, result>>
  BY DEF BeginScan
<1>2. Done(First) = {} /\ First \in Nat /\ First >= First
  BY ChainViewsAssumption DEF Done
<1>3. ScanInv(reader)'
  BY <1>1, <1>2 DEF ScanInv, Done
<1> QED
  BY <1>1, <1>3, SaidStays DEF ReaderInv, RecoveredIsTheWriter

\* A request that fails ends the call.
LEMMA UnreachableStep ==
  ASSUME ScanUnreachable \/ RefuseMissingBlind \/ PublishUnreachable
  PROVE  ReaderInv' /\ RecoveredIsTheWriter' /\ Said'
<1>1. reader' = Nothing /\ result'.of = "unreachable"
  BY DEF ScanUnreachable, RefuseMissingBlind, PublishUnreachable
<1> QED
  BY <1>1, NotReading, SaidNothing

\* Cluster::status and fetchCheckpoint: what is placed is the account of the
\* epoch in the view it came from.
LEMMA FetchStep ==
  ASSUME ChainInv, ReaderInv, RecoveredIsTheWriter, Said, NEW v \in Views, NEW epoch \in Epochs,
         NEW a \in Answers(v, epoch), Status(v, epoch, a) \/ FetchCheckpoint(v, epoch, a)
  PROVE  ReaderInv' /\ RecoveredIsTheWriter' /\ Said'
<1> DEFINE row == View(v).ledger.checkpoint[epoch]
<1>0. epoch \in Nat
  BY ChainViewsAssumption DEF Epochs
<1>1. reader = Nothing /\ UNCHANGED block /\ Views' = Views /\ \A u : View(u)' = View(u)
  BY ViewsStay DEF Status, FetchCheckpoint
<1>2. /\ a = Nothing => ~Written(View(v).ledger, epoch)
      /\ a # Nothing /\ (Decode(a, epoch) = "Placed" \/ FetchedTs(a, epoch) = "Placed") =>
           Written(View(v).ledger, epoch) /\ a = CheckpointAccount(row)
  BY <1>0, AnswersAre
<1>3. CheckpointAccount(row).root = row.root /\ CheckpointAccount(row).receipt = row.receipt
  BY DEF CheckpointAccount
<1>4. Written(View(v).ledger, epoch) => row.receipt \in BOOLEAN
  BY ViewIs, WrittenIs DEF Lawful, Row
<1>5. CASE Status(v, epoch, a)
  <2>1. /\ result'.of = "status" /\ result'.epoch = epoch /\ result'.view = v
        /\ result'.status = StatusOf(a, epoch)
        /\ result'.root = IF Fetched(a, epoch) = "Placed" THEN a.root ELSE Nothing
        /\ reader' = Nothing
    BY <1>1, <1>5 DEF Status
  <2>2. PlacedIsTheEpochs'
    <3> SUFFICES ASSUME result'.root # Nothing
                 PROVE  /\ Written(View(v).ledger, epoch)
                        /\ result'.root = row.root
                        /\ (result'.status = "Dual") = row.receipt
      BY <1>1, <2>1 DEF PlacedIsTheEpochs, Written
    <3>1. Fetched(a, epoch) = "Placed" /\ result'.root = a.root
      BY <2>1
    <3>2. a # Nothing /\ Decode(a, epoch) = "Placed"
      BY <3>1 DEF Fetched
    <3>3. Written(View(v).ledger, epoch) /\ a = CheckpointAccount(row)
      BY <1>2, <3>2
    <3>4. result'.status = IF a.receipt THEN "Dual" ELSE "Single"
      BY <2>1, <3>1 DEF StatusOf
    <3> HIDE DEF row
    <3> QED
      BY <1>3, <1>4, <3>1, <3>3, <3>4
  <2>3. LagIsOneObservation' /\ MissingIsClassified' /\ BoundIsOneChain'
    BY <2>1 DEF LagIsOneObservation, MissingIsClassified, BoundIsOneChain
  <2> QED
    BY <2>1, <2>2, <2>3, NotReading DEF Said
<1>6. CASE FetchCheckpoint(v, epoch, a)
  <2>1. CASE a = Nothing
    <3>1. /\ reader'.of = "missing" /\ reader'.epoch = epoch /\ reader'.view = v
          /\ UNCHANGED <<block, result>>
      BY <1>6, <2>1 DEF FetchCheckpoint
    <3>2. ReaderInv'
      BY <1>0, <1>1, <1>2, <2>1, <3>1 DEF ReaderInv, Written
    <3>3. RecoveredIsTheWriter'
      BY <3>1 DEF RecoveredIsTheWriter
    <3> QED
      BY <3>1, <3>2, <3>3, SaidStays
  <2>2. CASE a # Nothing
    <3>1. /\ result'.of = "root" /\ result'.epoch = epoch /\ result'.view = v
          /\ result'.root = IF FetchedTs(a, epoch) = "Placed" THEN a.root ELSE Nothing
          /\ reader' = Nothing
      BY <1>1, <1>6, <2>2 DEF FetchCheckpoint
    <3>2. PlacedIsTheEpochs'
      <4> SUFFICES ASSUME result'.root # Nothing
                   PROVE  /\ Written(View(v).ledger, epoch)
                          /\ result'.root = row.root
        BY <1>1, <3>1 DEF PlacedIsTheEpochs, Written
      <4>1. FetchedTs(a, epoch) = "Placed" /\ result'.root = a.root
        BY <3>1
      <4>2. Written(View(v).ledger, epoch) /\ a = CheckpointAccount(row)
        BY <1>2, <2>2, <4>1
      <4> QED
        BY <1>3, <4>1, <4>2
    <3>3. LagIsOneObservation' /\ MissingIsClassified' /\ BoundIsOneChain'
      BY <3>1 DEF LagIsOneObservation, MissingIsClassified, BoundIsOneChain
    <3> QED
      BY <3>1, <3>2, <3>3, NotReading DEF Said
  <2> QED
    BY <2>1, <2>2
<1> QED
  BY <1>5, <1>6

\* refuseMissingCheckpoint: an account that one view has not got, and the bounds
\* of another.
LEMMA RefuseMissingStep ==
  ASSUME ChainInv, ReaderInv, NEW w \in Views, RefuseMissing(w)
  PROVE  ReaderInv' /\ RecoveredIsTheWriter' /\ Said'
<1> DEFINE v == reader.view
           e == reader.epoch
           last == View(w).ledger.last
<1>1. v \in Views /\ e \in Nat /\ ~Written(View(v).ledger, e)
  BY DEF RefuseMissing, ReaderInv
<1>2. UNCHANGED block /\ \A u : View(u)' = View(u)
  BY ViewsStay DEF RefuseMissing
<1>3. /\ result'.of = "refused" /\ result'.epoch = e /\ result'.views = {v, w}
      /\ result'.last = last /\ result'.verdict = PlaceEpoch(last, e)
      /\ reader' = Nothing
  BY DEF RefuseMissing
<1>4. StartEpoch \in Nat /\ last \in Nat /\ (Written(View(w).ledger, e) <=> e \in StartEpoch .. last)
  BY ChainViewsAssumption, ViewIs, WrittenIs DEF Block
<1> HIDE DEF v, e, last
<1>5. MissingIsClassified'
  <2>1. CASE e < StartEpoch
    <3>1. result'.verdict = "EpochBeforeLogStart"
      BY <1>3, <2>1 DEF PlaceEpoch
    <3> QED
      BY <1>3, <2>1, <3>1 DEF MissingIsClassified
  <2>2. CASE ~(e < StartEpoch) /\ e <= last
    <3>1. result'.verdict = "InconsistentChainView"
      BY <1>3, <2>2 DEF PlaceEpoch
    <3>2. Written(View(w).ledger, e)
      BY <1>1, <1>4, <2>2
    <3>3. \E x, y \in result'.views : Written(View(x).ledger, e) /\ ~Written(View(y).ledger, e)
      BY <1>1, <1>3, <3>2
    <3> QED
      BY <1>2, <1>3, <3>1, <3>3 DEF MissingIsClassified, Written
  <2>3. CASE ~(e < StartEpoch) /\ ~(e <= last)
    <3>1. result'.verdict = "CheckpointNotYetPublished"
      BY <1>3, <2>3 DEF PlaceEpoch
    <3>2. ~Written(View(w).ledger, e) /\ StartEpoch <= e
      BY <1>1, <1>4, <2>3
    <3>3. \E x \in result'.views : View(x).ledger.last = result'.last /\ ~Written(View(x).ledger, e)
      BY <1>3, <3>2 DEF last
    <3> QED
      BY <1>2, <1>3, <3>1, <3>2, <3>3 DEF MissingIsClassified, Written
  <2> QED
    BY <2>1, <2>2, <2>3
<1>6. LagIsOneObservation' /\ PlacedIsTheEpochs' /\ BoundIsOneChain'
  BY <1>3 DEF LagIsOneObservation, PlacedIsTheEpochs, BoundIsOneChain
<1> QED
  BY <1>3, <1>5, <1>6, NotReading DEF Said

\* A submission that a view confirmed or called published already.
LEMMA AnsweredStep ==
  ASSUME ChainInv, Said, NEW v \in Views, NEW tx \in Tx,
         Confirmed(v, tx) \/ AnsweredAlready(v, tx)
  PROVE  ReaderInv' /\ RecoveredIsTheWriter' /\ Said'
<1>0. tx.epoch \in Nat
  BY ChainViewsAssumption
<1>1. UNCHANGED <<block, result>> /\ Views' = Views /\ \A u : View(u)' = View(u)
  BY ViewsStay DEF Confirmed, AnsweredAlready
<1>2. CASE Confirmed(v, tx)
  <2>1. /\ reader'.of = "reference" /\ reader'.epoch = tx.epoch /\ reader'.root = tx.root
        /\ reader'.sig = tx.sig /\ tx.kind = "publish"
        /\ \E t \in TouchedAt(v, tx.epoch) : t.sig = tx.sig /\ t.succeeded
    BY <1>2 DEF Confirmed
  <2>2. TxOf(reader'.sig) = tx
    BY <2>1, TxOfIs
  <2>3. \E t \in TouchedAt(v, tx.epoch)' : t.sig = tx.sig /\ t.succeeded
    BY <1>1, <2>1 DEF TouchedAt
  <2>4. TxOf(reader.sig)' = TxOf(reader'.sig)
    BY DEF TxOf
  <2>5. RecoveredIsTheWriter'
    BY <1>1, <2>1, <2>2, <2>3, <2>4 DEF RecoveredIsTheWriter
  <2>6. ReaderInv'
    BY <1>0, <2>1 DEF ReaderInv
  <2> QED
    BY <1>1, <2>5, <2>6, SaidStays
<1>3. CASE AnsweredAlready(v, tx)
  <2>1. reader'.of = "settle" /\ reader'.epoch = tx.epoch
    BY <1>3 DEF AnsweredAlready
  <2> QED
    BY <1>0, <1>1, <2>1, SaidStays DEF ReaderInv, RecoveredIsTheWriter
<1> QED
  BY <1>2, <1>3

\* settle_against_chain: the root that was sent is in some view.
LEMMA SettleStep ==
  ASSUME ChainInv, ReaderInv, Said, NEW v \in Views, Settle(v)
  PROVE  ReaderInv' /\ RecoveredIsTheWriter' /\ Said'
<1> DEFINE e == reader.epoch
           row == View(v).ledger.checkpoint[e]
<1>0. e \in Nat /\ reader # Nothing
  BY DEF Settle, ReaderInv
<1>1. UNCHANGED block /\ Views' = Views /\ \A u : View(u)' = View(u)
  BY ViewsStay DEF Settle
<1>2. PICK a \in Answers(v, e) :
        IF Fetched(a, e) = "Placed" /\ a.root = reader.root
        THEN /\ reader' = [of |-> "wrote it", epoch |-> e, root |-> a.root, slot |-> a.slot]
             /\ UNCHANGED result
        ELSE /\ result' = NotPublished(IF Fetched(a, e) = "Placed" THEN "Equivocation" ELSE "Unwritten")
             /\ reader' = Nothing
  BY Zenon DEF Settle
<1>3. CASE Fetched(a, e) = "Placed" /\ a.root = reader.root
  <2>1. Written(View(v).ledger, e) /\ a = CheckpointAccount(row)
    <3>1. a # Nothing /\ Decode(a, e) = "Placed"
      BY <1>3 DEF Fetched
    <3> QED
      BY <1>0, <3>1, AnswersAre
  <2>2. a.root = row.root /\ a.slot = row.slot
    BY <2>1 DEF CheckpointAccount
  <2>3. /\ reader'.of = "wrote it" /\ reader'.epoch = e /\ reader'.root = a.root
        /\ reader'.slot = a.slot /\ UNCHANGED result
    <3>1. /\ reader' = [of |-> "wrote it", epoch |-> e, root |-> a.root, slot |-> a.slot]
          /\ UNCHANGED result
      BY <1>2, <1>3, Zenon
    <3> QED
      BY <3>1
  <2> HIDE DEF e
  <2>4. \E u \in Views' : /\ Written(View(u)'.ledger, reader'.epoch)
                          /\ reader'.root = View(u)'.ledger.checkpoint[reader'.epoch].root
                          /\ reader'.slot = View(u)'.ledger.checkpoint[reader'.epoch].slot
    BY <1>1, <2>1, <2>2, <2>3
  <2>5. ReaderInv'
    BY <1>0, <2>3, <2>4 DEF ReaderInv, Written
  <2>6. RecoveredIsTheWriter'
    BY <2>3 DEF RecoveredIsTheWriter
  <2> QED
    BY <1>1, <2>3, <2>5, <2>6, SaidStays
<1>4. CASE ~(Fetched(a, e) = "Placed" /\ a.root = reader.root)
  <2>1. reader' = Nothing /\ result'.of = "not published"
    <3>1. \A why : NotPublished(why).of = "not published"
      BY DEF NotPublished
    <3>2. reader' = Nothing /\ \E why : result' = NotPublished(why)
      BY <1>2, <1>4, Zenon
    <3> QED
      BY <3>1, <3>2
  <2> QED
    BY <2>1, NotReading, SaidNothing
<1> QED
  BY <1>3, <1>4

\* provenance_in: the one transaction that succeeded at the account's slot, in
\* whatever view it is found, is the one that wrote the account.
LEMMA ProvenanceIs ==
  ASSUME ChainInv, NEW v \in Views, NEW w \in Views, NEW e, Written(View(v).ledger, e),
         NEW sig, sig = ProvenanceIn(View(v).ledger.checkpoint[e].slot, TouchedAt(w, e)),
         sig # Nothing
  PROVE  \E t \in TouchedAt(w, e) : t.sig = sig /\ Writes(t, View(v).ledger.checkpoint[e], e)
<1> DEFINE row == View(v).ledger.checkpoint[e]
           s == row.slot
           there == {t \in TouchedAt(w, e) : t.succeeded /\ t.slot = s}
<1>1. e \in StartEpoch .. View(v).ledger.last
  BY ViewIs, WrittenIs
<1>2. PICK wrote \in View(v).touched : Writes(wrote, row, e)
  BY <1>1, ViewIs DEF Lawful
<1>3. s \in View(v).path
  BY <1>1, ViewIs DEF Lawful
<1>4. wrote \in At(v, s) /\ At(v, s) = At(s, s)
  BY <1>2, <1>3, ViewIs DEF At, Writes, OneBlockPerSlot
<1>5. Cardinality(there) = 1 /\ sig = (CHOOSE t \in there : TRUE).sig
  BY Zenon DEF ProvenanceIn
<1>6. IsFiniteSet(there)
  <2>1. IsFiniteSet(View(w).touched)
    BY ViewIs DEF Lawful
  <2>2. there \subseteq View(w).touched
    BY DEF TouchedAt
  <2> HIDE DEF there
  <2> QED
    BY <2>1, <2>2, FS_Subset
<1>7. PICK x : there = {x}
  <2> HIDE DEF there
  <2> QED
    BY <1>5, <1>6, FS_Singleton
<1>8. x \in View(w).touched /\ x.slot = s
  BY <1>7 DEF TouchedAt
<1>9. s \in View(w).path
  BY <1>8, ViewIs DEF Lawful
<1>10. At(w, s) = At(s, s)
  BY <1>9, ViewIs DEF OneBlockPerSlot
<1>11. wrote \in View(w).touched
  BY <1>4, <1>10 DEF At
<1>12. wrote \in there
  BY <1>2, <1>11 DEF TouchedAt, Writes
<1>13. wrote = x /\ sig = x.sig /\ x \in TouchedAt(w, e)
  <2>1. x \in TouchedAt(w, e)
    BY <1>7
  <2>2. (CHOOSE t \in there : TRUE) \in there
    BY <1>12
  <2> HIDE DEF there
  <2> QED
    BY <1>5, <1>7, <1>12, <2>1, <2>2
<1> QED
  BY <1>2, <1>13

\* wrote_it, with a signature it found or without one.
LEMMA WroteItStep ==
  ASSUME ChainInv, ReaderInv, Said, (\E w \in Views : WroteIt(w)) \/ WroteItUnasked
  PROVE  ReaderInv' /\ RecoveredIsTheWriter' /\ Said'
<1>1. PICK sig : /\ Recovered(sig)
                 /\ \/ sig = Nothing
                    \/ \E w \in Views : sig = ProvenanceIn(reader.slot, TouchedAt(w, reader.epoch))
  BY Zenon DEF WroteIt, WroteItUnasked
<1>2. /\ reader # Nothing /\ reader.of = "wrote it"
      /\ reader'.of = "reference" /\ reader'.epoch = reader.epoch /\ reader'.root = reader.root
      /\ reader'.sig = sig /\ UNCHANGED <<block, result>>
  BY <1>1 DEF Recovered
<1>3. Views' = Views /\ \A u : View(u)' = View(u)
  BY <1>2, ViewsStay
<1>4. PICK v \in Views :
           /\ Written(View(v).ledger, reader.epoch)
           /\ reader.root = View(v).ledger.checkpoint[reader.epoch].root
           /\ reader.slot = View(v).ledger.checkpoint[reader.epoch].slot
  BY <1>2 DEF ReaderInv
<1>5. ReaderInv'
  BY <1>2 DEF ReaderInv
<1>6. ASSUME sig # Nothing
      PROVE  /\ TxOf(sig).kind = "publish" /\ TxOf(sig).root = reader.root
             /\ \E w \in Views : \E t \in TouchedAt(w, reader.epoch) : t.sig = sig /\ t.succeeded
  <2>1. PICK w \in Views : sig = ProvenanceIn(reader.slot, TouchedAt(w, reader.epoch))
    BY <1>1, <1>6
  <2>2. PICK t \in TouchedAt(w, reader.epoch) :
          t.sig = sig /\ Writes(t, View(v).ledger.checkpoint[reader.epoch], reader.epoch)
    BY <1>4, <1>6, <2>1, ProvenanceIs
  <2> QED
    BY <1>4, <2>2 DEF Writes
<1>7. RecoveredIsTheWriter'
  <2>1. \A u : TouchedAt(u, reader.epoch)' = TouchedAt(u, reader'.epoch)
    BY <1>3 DEF TouchedAt
  <2>2. TxOf(reader.sig)' = TxOf(reader'.sig)
    BY DEF TxOf
  <2> QED
    BY <1>2, <1>3, <1>6, <2>1, <2>2 DEF RecoveredIsTheWriter
<1> QED
  BY <1>2, <1>5, <1>7, SaidStays

\* reference: the slot of a placed account is of the chain it was read from.
LEMMA ReferenceStep ==
  ASSUME ChainInv, ReaderInv, Said, NEW v \in Views, Reference(v)
  PROVE  ReaderInv' /\ RecoveredIsTheWriter' /\ Said'
<1> DEFINE e == reader.epoch
           row == View(v).ledger.checkpoint[e]
<1>0. e \in Nat /\ reader # Nothing
  BY DEF Reference, ReaderInv
<1>1. UNCHANGED block /\ Views' = Views /\ \A u : View(u)' = View(u)
  BY ViewsStay DEF Reference
<1>2. PICK a \in Answers(v, e) :
        IF Fetched(a, e) = "Placed"
        THEN /\ reader' = [of |-> "landed", epoch |-> e, sig |-> reader.sig, slot |-> a.slot,
                           view |-> v]
             /\ UNCHANGED result
        ELSE result' = NotPublished("Unwritten") /\ reader' = Nothing
  BY Zenon DEF Reference
<1>3. CASE Fetched(a, e) = "Placed"
  <2>1. Written(View(v).ledger, e) /\ a = CheckpointAccount(row)
    <3>1. a # Nothing /\ Decode(a, e) = "Placed"
      BY <1>3 DEF Fetched
    <3> QED
      BY <1>0, <3>1, AnswersAre
  <2>2. a.slot = row.slot /\ row.slot \in View(v).path
    BY <2>1, AccountIs DEF CheckpointAccount
  <2>3. reader'.of = "landed" /\ reader'.slot = a.slot /\ reader'.view = v /\ UNCHANGED result
    BY <1>2, <1>3
  <2>4. ReaderInv' /\ RecoveredIsTheWriter'
    BY <1>1, <2>2, <2>3 DEF ReaderInv, RecoveredIsTheWriter
  <2> QED
    BY <1>1, <2>3, <2>4, SaidStays
<1>4. CASE Fetched(a, e) # "Placed"
  <2>1. reader' = Nothing /\ result'.of = "not published"
    <3>1. \A why : NotPublished(why).of = "not published"
      BY DEF NotPublished
    <3>2. reader' = Nothing /\ \E why : result' = NotPublished(why)
      BY <1>2, <1>4, Zenon
    <3> QED
      BY <3>1, <3>2
  <2> QED
    BY <2>1, NotReading, SaidNothing
<1> QED
  BY <1>3, <1>4

\* where_it_landed and lineage_of: a signature lands in a slot of the chain it
\* is found in.
LEMMA ReferStep ==
  ASSUME ChainInv, ReaderInv, NEW w \in Views, ReferLanded(w)
  PROVE  ReaderInv' /\ RecoveredIsTheWriter' /\ Said'
<1>0. reader.view \in Views /\ reader.slot \in View(reader.view).path
  BY DEF ReferLanded, ReaderInv
<1>1. PICK landed : /\ Refer(w, landed)
                    /\ reader.sig = Nothing \/ landed \in WhereItLanded(w, reader.sig)
  BY Zenon DEF ReferLanded
<1>2. /\ result'.of = "reference" /\ result'.slot = reader.slot /\ result'.view = reader.view
      /\ result'.other = w /\ result'.lineage = LineageOf(reader.slot, reader.sig, landed)
      /\ reader' = Nothing /\ UNCHANGED block
  BY <1>1 DEF Refer
<1>3. \A u : View(u)' = View(u)
  BY <1>2, ViewsStay
<1>4. ASSUME result'.lineage = "AtItsSlot"
      PROVE  reader.slot \in View(w).path
  <2>1. /\ reader.sig # Nothing /\ landed # <<"NotAsked">> /\ landed # <<"NotFound">>
        /\ landed[2] = reader.slot
    BY <1>2, <1>4 DEF LineageOf
  <2>2. PICK t \in View(w).touched : landed = <<"Slot", t.slot>>
    BY <1>1, <2>1 DEF WhereItLanded
  <2>3. t.slot \in View(w).path
    BY <2>2, ViewIs DEF Lawful
  <2> QED
    BY <2>1, <2>2, <2>3
<1>5. BoundIsOneChain'
  BY <1>0, <1>2, <1>3, <1>4 DEF BoundIsOneChain
<1>6. LagIsOneObservation' /\ PlacedIsTheEpochs' /\ MissingIsClassified'
  BY <1>2 DEF LagIsOneObservation, PlacedIsTheEpochs, MissingIsClassified
<1> QED
  BY <1>2, <1>5, <1>6, NotReading DEF Said

----------------------------------------------------------------------------
(* The theorems. *)

\* Before the first block nobody reads.
LEMMA ViewsInit == Init => ViewsInv
<1> SUFFICES ASSUME Init PROVE ViewsInv
  OBVIOUS
<1>1. block = <<>> /\ reader = Nothing /\ result = Nothing
  BY DEF Init
<1>2. Views = {0} /\ View(0) = Genesis
  BY <1>1 DEF Views, View
<1>3. OneBlockPerSlot(0)
  BY <1>2, GenesisIs DEF OneBlockPerSlot, At
<1>4. ChainInv
  BY <1>1, <1>2, <1>3, GenesisIs DEF ChainInv
<1> QED
  BY <1>1, <1>4 DEF ViewsInv, ReaderInv, LagIsOneObservation, PlacedIsTheEpochs,
       MissingIsClassified, RecoveredIsTheWriter, BoundIsOneChain

\* Every block, and every request of every client, keeps the invariant.
LEMMA ViewsStep == ViewsInv /\ [Next]_vars => ViewsInv'
<1> SUFFICES ASSUME ViewsInv, [Next]_vars PROVE ViewsInv'
  OBVIOUS
<1>0. ChainInv /\ ReaderInv /\ RecoveredIsTheWriter /\ Said
  BY DEF ViewsInv, Said
<1> SUFFICES ChainInv' /\ ReaderInv' /\ RecoveredIsTheWriter' /\ Said'
  BY DEF ViewsInv, Said
<1>1. ASSUME NEW parent \in Views, Produce(parent)
      PROVE  ChainInv' /\ ReaderInv' /\ RecoveredIsTheWriter' /\ Said'
  <2>1. reader' = Nothing /\ result' = Nothing
    BY <1>1 DEF Produce
  <2> QED
    BY <1>0, <1>1, <2>1, ProduceStep, NotReading, SaidNothing
<1>2. ASSUME NEW tx \in Tx, Include(tx)
      PROVE  ChainInv' /\ ReaderInv' /\ RecoveredIsTheWriter' /\ Said'
  <2>1. reader' = Nothing /\ result' = Nothing
    BY <1>2 DEF Include
  <2> QED
    BY <1>0, <1>2, <2>1, IncludeStep, NotReading, SaidNothing
<1>3. CASE BeginScan
  BY <1>0, <1>3, BeginScanStep, ViewsStay DEF BeginScan
<1>4. CASE ScanUnreachable \/ RefuseMissingBlind \/ PublishUnreachable
  BY <1>0, <1>4, UnreachableStep, ViewsStay
     DEF ScanUnreachable, RefuseMissingBlind, PublishUnreachable
<1>5. ASSUME NEW v \in Views, NEW w \in Views, NEW strange \in (First .. Final) \cup {Nothing},
             ScanBatch(v, w, strange)
      PROVE  ChainInv' /\ ReaderInv' /\ RecoveredIsTheWriter' /\ Said'
  <2>1. UNCHANGED block
    BY <1>5 DEF ScanBatch
  <2> QED
    BY <1>0, <1>5, <2>1, ScanBatchStep, ViewsStay
<1>6. ASSUME NEW v \in Views, NEW epoch \in Epochs, NEW a \in Answers(v, epoch),
             Status(v, epoch, a) \/ FetchCheckpoint(v, epoch, a)
      PROVE  ChainInv' /\ ReaderInv' /\ RecoveredIsTheWriter' /\ Said'
  <2>1. UNCHANGED block
    BY <1>6 DEF Status, FetchCheckpoint
  <2> QED
    BY <1>0, <1>6, <2>1, FetchStep, ViewsStay
<1>7. ASSUME NEW v \in Views, RefuseMissing(v)
      PROVE  ChainInv' /\ ReaderInv' /\ RecoveredIsTheWriter' /\ Said'
  BY <1>0, <1>7, RefuseMissingStep, ViewsStay DEF RefuseMissing
<1>8. ASSUME NEW v \in Views, NEW tx \in Tx, Confirmed(v, tx) \/ AnsweredAlready(v, tx)
      PROVE  ChainInv' /\ ReaderInv' /\ RecoveredIsTheWriter' /\ Said'
  <2>1. UNCHANGED block
    BY <1>8 DEF Confirmed, AnsweredAlready
  <2> QED
    BY <1>0, <1>8, <2>1, AnsweredStep, ViewsStay
<1>9. ASSUME NEW v \in Views, Settle(v)
      PROVE  ChainInv' /\ ReaderInv' /\ RecoveredIsTheWriter' /\ Said'
  BY <1>0, <1>9, SettleStep, ViewsStay DEF Settle
<1>10. CASE (\E w \in Views : WroteIt(w)) \/ WroteItUnasked
  <2>1. UNCHANGED block
    BY <1>10 DEF WroteIt, WroteItUnasked, Recovered
  <2> QED
    BY <1>0, <1>10, <2>1, WroteItStep, ViewsStay
<1>11. ASSUME NEW v \in Views, Reference(v)
       PROVE  ChainInv' /\ ReaderInv' /\ RecoveredIsTheWriter' /\ Said'
  BY <1>0, <1>11, ReferenceStep, ViewsStay DEF Reference
<1>12. ASSUME NEW v \in Views, ReferLanded(v)
       PROVE  ChainInv' /\ ReaderInv' /\ RecoveredIsTheWriter' /\ Said'
  <2>1. UNCHANGED block
    BY <1>12, Zenon DEF ReferLanded, Refer
  <2> QED
    BY <1>0, <1>12, <2>1, ReferStep, ViewsStay
<1>13. CASE UNCHANGED vars
  <2>1. UNCHANGED <<block, reader, result>> /\ Views' = Views /\ \A u : View(u)' = View(u)
    BY <1>13, ViewsStay DEF vars
  <2>2. ReaderInv'
    BY <1>0, <2>1 DEF ReaderInv, ScanInv, Done, Written
  <2>3. RecoveredIsTheWriter'
    BY <1>0, <2>1 DEF RecoveredIsTheWriter, TouchedAt, TxOf
  <2> QED
    BY <1>0, <2>1, <2>2, <2>3, SaidStays, ViewsStay
<1> QED
  BY <1>1, <1>2, <1>3, <1>4, <1>5, <1>6, <1>7, <1>8, <1>9, <1>10, <1>11, <1>12, <1>13, Zenon DEF Next

\* However a chain forks, whoever sends what, and whichever view each answer
\* comes from.
THEOREM ViewsInvariant == Spec => []ViewsInv
  BY ViewsInit, ViewsStep, PTL DEF Spec

\* sequence_lag accuses no log that the program wrote of a missing account, and
\* a Lag that has not moved is one observation, for every range and batch size.
THEOREM LagIsTrue == Spec => []LagIsOneObservation
<1>1. ViewsInv => LagIsOneObservation
  BY DEF ViewsInv
<1> QED
  BY <1>1, ViewsInvariant, PTL

\* decode_checkpoint and checkAccount place no account but the epoch's own,
\* whatever the endpoint hands back.
THEOREM PlacedIsTrue == Spec => []PlacedIsTheEpochs
<1>1. ViewsInv => PlacedIsTheEpochs
  BY DEF ViewsInv
<1> QED
  BY <1>1, ViewsInvariant, PTL

\* refuseMissingCheckpoint speaks of an inconsistent chain only when it was
\* shown two views of it.
THEOREM MissingIsTrue == Spec => []MissingIsClassified
<1>1. ViewsInv => MissingIsClassified
  BY DEF ViewsInv
<1> QED
  BY <1>1, ViewsInvariant, PTL

\* provenance_in names the transaction that published the root, in whatever view
\* it looks.
THEOREM ProvenanceIsTheWriter == Spec => []RecoveredIsTheWriter
<1>1. ViewsInv => RecoveredIsTheWriter
  BY DEF ViewsInv
<1> QED
  BY <1>1, ViewsInvariant, PTL

\* Lineage::AtItsSlot binds an account and a signature of one chain.
THEOREM LineageIsOneChain == Spec => []BoundIsOneChain
<1>1. ViewsInv => BoundIsOneChain
  BY DEF ViewsInv
<1> QED
  BY <1>1, ViewsInvariant, PTL
=============================================================================
