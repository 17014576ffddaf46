--------------------------- MODULE CampaignsProofs ---------------------------
(***************************************************************************)
(* Theorems of Campaigns: an address has one owner, a campaign's total is  *)
(* what was given to it, and a donation the checkpoint has passed is on    *)
(* record, for any campaigns, invoices, transactions, batches and faults.  *)
(***************************************************************************)
EXTENDS Campaigns, Integers, FiniteSetTheorems, TLAPS

-----------------------------------------------------------------------------
(* The invariants.                                                         *)

LinkRow ==
  [st : {"none", "naming", "numbering", "inserting", "live", "refused", "deleted"},
   slug : Nat, addr : Nat \cup {None}, active : BOOLEAN,
   created : Nat, total : Totals]

InvRow ==
  [st : {"none", "pending", "detected", "confirmed", "expired"},
   link : Links \cup {None}, addr : Nat \cup {None},
   call : {"none", "count", "tag", "shown", "lost"},
   donation : BOOLEAN, counted : BOOLEAN, received : Nat]

\* What a worker may have in hand, by where it is.
Resting == {Rest}
Crediting ==
  [pc : {"tx"}, camps : SUBSET Links, queue : SUBSET Txs, cur : Txs \cup {None},
   left : SUBSET Links, add : Credits \cup {None}, tip : Nat, waiting : BOOLEAN]
Confirming ==
  [pc : {"confirm"}, camps : SUBSET Links, queue : SUBSET Invs, cur : {None},
   left : SUBSET Links, add : Credits \cup {None}, tip : Nat, waiting : BOOLEAN]
Counting ==
  [pc : {"count"}, camps : SUBSET Links, queue : SUBSET Invs, cur : Invs,
   left : SUBSET Links, add : {None}, tip : Nat, waiting : BOOLEAN]
Choosing ==
  [pc : {"camps"}, camps : SUBSET Links, queue : {{}}, cur : {None},
   left : SUBSET Links, add : {None}, tip : Nat, waiting : BOOLEAN]

WorkerRow == Resting \cup Crediting \cup Confirming \cup Counting \cup Choosing

EditRow == {Blank} \cup [pc : {"write"}, id : Links, old : LinkRow, active : BOOLEAN]
FillRow ==
  {Blank} \cup [pc : {"next", "write"}, addr : Nat \cup {None}, todo : SUBSET Links]

RowTypes ==
  /\ link \in [Links -> LinkRow] /\ next \in Nat /\ row \subseteq Links \X Txs
  /\ inv \in [Invs -> InvRow]
NetTypes ==
  /\ mempool \subseteq Txs /\ chain \in Seq(SUBSET Txs)
WorkerTypes ==
  /\ worker \in [Workers -> WorkerRow]
  /\ \A k \in Workers \ {"block"} : worker[k] \in Resting \cup Crediting
ScanTypes ==
  /\ height \in Nat /\ seen \subseteq Txs
CallTypes ==
  /\ edit \in EditRow /\ fill \in FillRow /\ edits \in Nat
HistoryTypes ==
  /\ cast \in Casts /\ faults \in Nat /\ cut \in [Links -> Totals]
  /\ spoilt \subseteq Links \X Txs /\ idled \subseteq Links

Types == RowTypes /\ NetTypes /\ WorkerTypes /\ ScanTypes /\ CallTypes /\ HistoryTypes

\* A link has been live.
Opened(l) == link[l].st \in {"live", "deleted"}

\* An address that was given out is below the index, and the one the operator's
\* call is about to store is nobody's.
Given1(a) == a \in Nat /\ a < next
AddrInv ==
  /\ \A l \in Links : link[l].addr # None => Given1(link[l].addr)
  /\ \A i \in Invs : inv[i].addr # None => Given1(inv[i].addr)
  /\ fill.pc = "write" =>
       /\ Given1(fill.addr)
       /\ \A l \in Links : link[l].addr # fill.addr
       /\ \A i \in Invs : inv[i].addr # fill.addr
  /\ OneOwner

\* Whatever refers to a link refers to one that has been live, and an invoice
\* is counted once it is confirmed.
RefInv ==
  /\ \A i \in Invs :
       /\ inv[i].st # "none" => inv[i].link \in Links /\ Opened(inv[i].link)
       /\ inv[i].counted => inv[i].st = "confirmed"
  /\ \A l \in Links, t \in Txs : <<l, t>> \in row => Opened(l)
  /\ \A k \in Workers :
       /\ worker[k].add # None => Opened(worker[k].add.to)
       /\ \A l \in worker[k].camps : Opened(l)
       /\ worker[k].pc = "tx" /\ worker[k].cur = None => worker[k].add = None
  /\ worker["block"].pc = "count" => inv[worker["block"].cur].st = "confirmed"
  /\ worker["block"].pc \in {"confirm", "count"} =>
       \A i \in worker["block"].queue : inv[i].st = "detected"

\* TotalsAddUp, also of links that are not live yet.
SumInv ==
  \A l \in Links :
    /\ IsFiniteSet(DonationsTo(l)) /\ IsFiniteSet(CountedFor(l))
    /\ link[l].st # "deleted" => Accounted(l).zat = Given(l)

\* A transaction was sent to addresses that campaigns had, and a live campaign
\* that was never paused is active.
SentInv ==
  /\ \A t \in Txs : t \in mempool \/ Mined(t) =>
       \A l \in Links : Pays[t][l] > 0 => Opened(l) /\ link[l].addr # None
  /\ \A l \in Links \ idled : Live(l) => link[l].active

\* A donation up to height n that is on record, or that nothing is said of, or
\* that the block worker still has before it.
Found(l, t) ==
  Pays[t][l] > 0 /\ Live(l) /\ <<l, t>> \notin spoilt => <<l, t>> \in row
Ahead(l, t) ==
  LET w == worker["block"] IN
  t \in w.queue /\ l \in w.camps /\ (w.cur = t => l \in w.left)
BatchInv ==
  LET w == worker["block"] IN
  /\ height <= Len(chain)
  /\ w.pc \in {"camps", "tx"} => height <= w.tip /\ w.tip <= Len(chain)
  /\ w.pc = "tx" =>
       \A h \in 1..w.tip : \A t \in chain[h] : \A l \in Links \ idled :
         Found(l, t) \/ Ahead(l, t)

\* TypeOK, beyond Types: a slug moves on only past slugs that somebody has had,
\* and a link counts at most the invoices made for it.
CreatedFor(l) == {i \in Invs : inv[i].link = l /\ inv[i].call \notin {"none", "count"}}
CallBounds == edits <= cast.edits /\ faults <= cast.faults
TipBounds == \A k \in Workers : worker[k].tip <= Len(chain)
InvBounds ==
  \A i \in Invs : /\ inv[i].received \in Received \cup {0}
                  /\ inv[i].st = "none" => inv[i].call = "none"
SlugBounds ==
  \A l \in Links : \A s \in 1..(link[l].slug - 1) :
    \E m \in Links : Opened(m) /\ link[m].slug = s
CreatedBounds == \A l \in Links : link[l].created <= Cardinality(CreatedFor(l))
Bounds == CallBounds /\ TipBounds /\ InvBounds /\ SlugBounds /\ CreatedBounds

IInv ==
  /\ Types /\ AddrInv /\ RefInv /\ SumInv /\ SentInv /\ BatchInv /\ DonationsNotMissed
  /\ Bounds


-----------------------------------------------------------------------------
(* Sums, by counting coins.                                                *)

\* A sum counts its coins: f[x] of them for each x of S.
Coins(f, S) == UNION {{x} \X (1..f[x]) : x \in S}
CoinSums(f, S) == [T \in SUBSET S |-> Cardinality(Coins(f, T))]

\* Coins of a finite set are finitely many, and those of one element more are
\* as many more.
LEMMA CoinsAdd ==
  ASSUME NEW f, NEW S, IsFiniteSet(S), \A x \in S : f[x] \in Nat,
         NEW T \in SUBSET S, NEW y \in T
  PROVE  /\ Cardinality(Coins(f, T)) \in Nat
         /\ Cardinality(Coins(f, T)) = f[y] + Cardinality(Coins(f, T \ {y}))
<1> DEFINE Of(x) == {x} \X (1..f[x])
<1>1. IsFiniteSet(T) /\ f[y] \in Nat
  BY FS_Subset
<1>2. ASSUME NEW x \in T PROVE IsFiniteSet(Of(x)) /\ Cardinality(Of(x)) = f[x]
  <2>1. f[x] \in Nat
    OBVIOUS
  <2>2. IsFiniteSet(1..f[x]) /\ Cardinality(1..f[x]) = f[x]
    <3>1. \A n \in Int : /\ IsFiniteSet(1..n)
                         /\ Cardinality(1..n) = IF 1 > n THEN 0 ELSE n - 1 + 1
      BY FS_Interval
    <3>2. \A n \in Nat : n = IF 1 > n THEN 0 ELSE n - 1 + 1
      OBVIOUS
    <3> QED  BY <2>1, <3>1, <3>2
  <2>3. IsFiniteSet({x}) /\ Cardinality({x}) = 1
    BY FS_Singleton
  <2>4. IsFiniteSet(Of(x)) /\ Cardinality(Of(x)) = 1 * f[x]
    BY <2>2, <2>3, FS_Product
  <2>5. 1 * f[x] = f[x]
    BY <2>1
  <2> QED  BY <2>4, <2>5
<1>3. ASSUME NEW U \in SUBSET T PROVE IsFiniteSet(Coins(f, U))
  <2>1. IsFiniteSet(U)
    BY <1>1, FS_Subset
  <2> DEFINE W == {Of(x) : x \in U}
             h == [x \in U |-> Of(x)]
  <2>2. h \in Surjection(U, W)
    BY DEF Surjection
  <2>3. IsFiniteSet(W)
    BY <2>1, <2>2, FS_Surjection
  <2>4. \A V \in W : IsFiniteSet(V)
    BY <1>2
  <2> QED  BY <2>3, <2>4, FS_UNION DEF Coins
<1>4. /\ Coins(f, T) = Coins(f, T \ {y}) \cup Of(y)
      /\ Coins(f, T \ {y}) \cap Of(y) = {}
  BY DEF Coins
<1>5. IsFiniteSet(Coins(f, T \ {y})) /\ IsFiniteSet(Of(y)) /\ Cardinality(Of(y)) = f[y]
  BY <1>2, <1>3
<1>6. /\ Cardinality(Coins(f, T)) = Cardinality(Coins(f, T \ {y})) + f[y] - Cardinality({})
      /\ Cardinality(Coins(f, T \ {y})) \in Nat
  <2> HIDE DEF Of
  <2> QED  BY <1>4, <1>5, FS_Union, FS_CardinalityType
<1> QED  BY <1>1, <1>6, FS_EmptySet

\* The fold is the one solution of this recursion.
IsFold(g, f, S) ==
  g = [T \in SUBSET S |->
         IF T = {} THEN 0 ELSE f[CHOOSE x \in T : TRUE] + g[T \ {CHOOSE x \in T : TRUE}]]

\* A sum of naturals is the number of its coins.
LEMMA SumIsCoins ==
  ASSUME NEW f, NEW S, IsFiniteSet(S), \A x \in S : f[x] \in Nat
  PROVE  SumFunctionOnSet(f, S) = Cardinality(Coins(f, S))
<1> DEFINE c == CoinSums(f, S)
           pick(T) == CHOOSE x \in T : TRUE
<1>1. SumFunctionOnSet(f, S) = (CHOOSE g : IsFold(g, f, S))[S]
  BY DEF SumFunctionOnSet, FoldFunctionOnSet, MapThenFoldSet, IsFold
<1>2. \A T \in SUBSET S : T # {} => pick(T) \in T
  OBVIOUS
<1>3. Cardinality(Coins(f, {})) = 0
  BY FS_EmptySet DEF Coins
<1>4. ASSUME NEW T \in SUBSET S, T # {} PROVE c[T] = f[pick(T)] + c[T \ {pick(T)}]
  <2> DEFINE y == pick(T)
  <2>1. y \in T
    BY <1>2, <1>4
  <2> HIDE DEF y
  <2>2. Cardinality(Coins(f, T)) = f[y] + Cardinality(Coins(f, T \ {y}))
    BY <2>1, CoinsAdd
  <2>3. c[T] = Cardinality(Coins(f, T)) /\ c[T \ {y}] = Cardinality(Coins(f, T \ {y}))
    BY DEF CoinSums
  <2> QED  BY <2>2, <2>3 DEF y
<1>5. c[{}] = 0
  BY <1>3 DEF CoinSums
<1>6. c = [T \in SUBSET S |-> c[T]]
  BY DEF CoinSums
<1>7. IsFold(c, f, S)
  <2> HIDE DEF c
  <2> QED  BY <1>4, <1>5, <1>6 DEF IsFold
<1>8. ASSUME NEW g, IsFold(g, f, S) PROVE g = c
  <2> DEFINE Bad == {T \in FiniteSubsetsOf(S) : g[T] # c[T]}
  <2>1. SUFFICES ASSUME Bad # {} PROVE FALSE
    <3>1. \A T \in SUBSET S : T \in FiniteSubsetsOf(S)
      BY FS_Subset DEF FiniteSubsetsOf
    <3>2. g = [T \in SUBSET S |-> g[T]]
      BY <1>8 DEF IsFold
    <3>3. \A T \in SUBSET S : g[T] = c[T]
      BY <2>1, <3>1
    <3> HIDE DEF c
    <3> QED  BY <3>2, <3>3, <1>6
  <2>2. PICK B \in Bad : \A A \in Bad : ~ (<<A, B>> \in StrictSubsetOrdering(S))
    BY <2>1, WFMin, FS_StrictSubsetOrderingWellFounded
  <2>3. B \in SUBSET S /\ IsFiniteSet(B)
    BY <2>2 DEF FiniteSubsetsOf
  <2>4. B # {}
    BY <1>5, <1>8, <2>2, <2>3 DEF IsFold
  <2> DEFINE A == B \ {pick(B)}
  <2>5. A \in FiniteSubsetsOf(S) /\ <<A, B>> \in StrictSubsetOrdering(S)
    <3>1. A \subseteq S /\ A \subseteq B /\ A # B
      BY <1>2, <2>3, <2>4
    <3>2. IsFiniteSet(A)
      BY <2>3, FS_RemoveElement
    <3> HIDE DEF A
    <3> QED  BY <2>3, <3>1, <3>2 DEF FiniteSubsetsOf, StrictSubsetOrdering
  <2>6. g[A] = c[A]
    BY <2>2, <2>5
  <2>7. g[B] = f[pick(B)] + g[A]
    BY <1>8, <2>3, <2>4 DEF IsFold
  <2>8. c[B] = f[pick(B)] + c[A]
    BY <1>4, <2>3, <2>4
  <2> HIDE DEF c
  <2> QED  BY <2>2, <2>6, <2>7, <2>8
<1>9. (CHOOSE g : IsFold(g, f, S)) = c
  BY <1>7, <1>8
<1> HIDE DEF c
<1>10. SumFunctionOnSet(f, S) = c[S]
  BY <1>1, <1>9
<1> QED  BY <1>10 DEF c, CoinSums

LEMMA SumEmpty == \A f : SumFunctionOnSet(f, {}) = 0
<1> TAKE f
<1>1. IsFiniteSet({}) /\ Cardinality({}) = 0 /\ Coins(f, {}) = {}
  BY FS_EmptySet DEF Coins
<1>2. SumFunctionOnSet(f, {}) = Cardinality(Coins(f, {}))
  BY <1>1, SumIsCoins
<1> QED  BY <1>1, <1>2

\* A sum of naturals is a natural.
LEMMA SumIsNat ==
  ASSUME NEW f, NEW S, IsFiniteSet(S), \A x \in S : f[x] \in Nat
  PROVE  SumFunctionOnSet(f, S) \in Nat
<1>1. CASE S = {}
  BY <1>1, SumEmpty
<1>2. CASE S # {}
  <2>1. PICK y \in S : TRUE
    BY <1>2
  <2>2. S \in SUBSET S
    OBVIOUS
  <2>3. Cardinality(Coins(f, S)) \in Nat
    BY <2>1, <2>2, CoinsAdd
  <2> QED  BY <2>3, SumIsCoins
<1> QED  BY <1>1, <1>2

\* One element more.
LEMMA SumAdd ==
  ASSUME NEW f, NEW S, IsFiniteSet(S), NEW y, y \notin S,
         \A x \in S \cup {y} : f[x] \in Nat
  PROVE  /\ SumFunctionOnSet(f, S) \in Nat
         /\ SumFunctionOnSet(f, S \cup {y}) = SumFunctionOnSet(f, S) + f[y]
<1> DEFINE T == S \cup {y}
<1>1. IsFiniteSet(T) /\ T \in SUBSET T /\ y \in T /\ T \ {y} = S /\ S \in SUBSET T
  BY FS_AddElement
<1>2. \A x \in T : f[x] \in Nat
  OBVIOUS
<1> HIDE DEF T
<1>3. /\ SumFunctionOnSet(f, T) = Cardinality(Coins(f, T))
      /\ SumFunctionOnSet(f, S) = Cardinality(Coins(f, S))
  BY <1>1, <1>2, SumIsCoins
<1>4. Cardinality(Coins(f, T)) = f[y] + Cardinality(Coins(f, T \ {y}))
  <2>1. IsFiniteSet(T) /\ T \in SUBSET T /\ y \in T
    BY <1>1
  <2> QED  BY <1>2, <2>1, CoinsAdd
<1>5. SumFunctionOnSet(f, S) \in Nat /\ f[y] \in Nat
  BY SumIsNat
<1>6. SumFunctionOnSet(f, T) = f[y] + SumFunctionOnSet(f, S)
  BY <1>1, <1>3, <1>4
<1>7. SumFunctionOnSet(f, T) = SumFunctionOnSet(f, S) + f[y]
  BY <1>5, <1>6
<1> QED  BY <1>5, <1>7 DEF T

\* A sum depends on the values it adds.
LEMMA SumSame ==
  ASSUME NEW f, NEW g, NEW S, IsFiniteSet(S), \A x \in S : f[x] \in Nat /\ f[x] = g[x]
  PROVE  SumFunctionOnSet(f, S) = SumFunctionOnSet(g, S)
<1>1. Coins(f, S) = Coins(g, S)
  BY DEF Coins
<1> QED  BY <1>1, SumIsCoins

-----------------------------------------------------------------------------
(* What a step can change.                                                 *)

LEMMA Moves ==
  ASSUME [Next]_vars
  PROVE  /\ \/ link' = link
            \/ (\E l \in Links : \/ Create(l) \/ GenerateSlug(l) \/ NumberLink(l)
                                 \/ InsertLink(l) \/ Delete(l))
            \/ (\E i \in Invs : IncrementCreated(i)) \/ UpdateWrite \/ BackfillWrite
            \/ (\E k \in Workers : IncrementRaised(k)) \/ Crash
         /\ \/ next' = next \/ BackfillNumber
            \/ (\E l \in Links : NumberLink(l)) \/ (\E i \in Invs : ResolveDonation(i))
         /\ row' = row \/ (\E k \in Workers : RecordDonation(k))
         /\ \/ inv' = inv
            \/ (\E i \in Invs : \/ ResolveDonation(i) \/ IncrementCreated(i) \/ TagInvoice(i)
                                \/ PayInvoice(i) \/ Expire(i))
            \/ Confirm \/ CountInvoice \/ Crash
         /\ UNCHANGED net \/ (\E t \in Txs : Send(t)) \/ Mine
         /\ \/ worker' = worker
            \/ (\E k \in Workers : \/ Collect(k) \/ RecordDonation(k) \/ SkipDonation(k)
                                   \/ IncrementRaised(k) \/ IncrementFails(k))
            \/ PollStart \/ PollNext \/ PushStart \/ PushDone \/ Blocks \/ Crash
<1> USE DEF Next, OfLink, OfInvoice, Dashboard, Credit, Create, GenerateSlug, NumberLink,
           InsertLink, Delete, UpdateRead, UpdateWrite, BackfillRead, BackfillNumber,
           BackfillWrite, ResolveDonation, IncrementCreated, TagInvoice, PayInvoice, Expire,
           Send, Mine, Collect, RecordDonation, SkipDonation, IncrementRaised, IncrementFails,
           PollStart, PollNext, PushStart, PushDone, Crash,
           rows, net, scan, calls, history, vars
<1>1. \/ worker' = worker
      \/ (\E k \in Workers : \/ Collect(k) \/ RecordDonation(k) \/ SkipDonation(k)
                             \/ IncrementRaised(k) \/ IncrementFails(k))
      \/ PollStart \/ PollNext \/ PushStart \/ PushDone \/ Blocks \/ Crash
  OBVIOUS
<1> USE DEF Blocks, BlockStart, Confirm, CountInvoice, NotADonation, GetHeight,
           ReadCampaigns, BlockTxDone, FetchFails, Checkpoint
<1>2. \/ link' = link
      \/ (\E l \in Links : \/ Create(l) \/ GenerateSlug(l) \/ NumberLink(l)
                           \/ InsertLink(l) \/ Delete(l))
      \/ (\E i \in Invs : IncrementCreated(i)) \/ UpdateWrite \/ BackfillWrite
      \/ (\E k \in Workers : IncrementRaised(k)) \/ Crash
  OBVIOUS
<1>3. \/ next' = next \/ BackfillNumber
      \/ (\E l \in Links : NumberLink(l)) \/ (\E i \in Invs : ResolveDonation(i))
  OBVIOUS
<1>4. row' = row \/ (\E k \in Workers : RecordDonation(k))
  OBVIOUS
<1>5. \/ inv' = inv
      \/ (\E i \in Invs : \/ ResolveDonation(i) \/ IncrementCreated(i) \/ TagInvoice(i)
                          \/ PayInvoice(i) \/ Expire(i))
      \/ Confirm \/ CountInvoice \/ Crash
  OBVIOUS
<1>6. UNCHANGED net \/ (\E t \in Txs : Send(t)) \/ Mine
  OBVIOUS
<1> HIDE DEF Next, OfLink, OfInvoice, Dashboard, Credit, Create, GenerateSlug, NumberLink,
            InsertLink, Delete, UpdateRead, UpdateWrite, BackfillRead, BackfillNumber,
            BackfillWrite, ResolveDonation, IncrementCreated, TagInvoice, PayInvoice, Expire,
            Send, Mine, Collect, RecordDonation, SkipDonation, IncrementRaised, IncrementFails,
            PollStart, PollNext, PushStart, PushDone, Crash,
            Blocks, BlockStart, Confirm, CountInvoice, NotADonation, GetHeight,
            ReadCampaigns, BlockTxDone, FetchFails, Checkpoint,
            rows, net, scan, calls, history, vars
<1> QED  BY <1>1, <1>2, <1>3, <1>4, <1>5, <1>6

\* The same of the other variables.
LEMMA MoreMoves ==
  ASSUME [Next]_vars
  PROVE  /\ height' = height \/ ReadCampaigns \/ Checkpoint
         /\ seen' = seen \/ PollNext \/ BlockTxDone \/ Crash
         /\ edit' = edit \/ UpdateRead \/ UpdateWrite \/ Crash
         /\ fill' = fill \/ BackfillRead \/ BackfillNumber \/ BackfillWrite \/ Crash
         /\ edits' \in {edits, edits + 1} /\ faults' \in {faults, faults + 1}
         /\ cast' = cast
         /\ cut' = cut \/ (\E k \in Workers : IncrementFails(k)) \/ Crash
         /\ spoilt' = spoilt \/ (\E k \in Workers : SkipDonation(k)) \/ ReadCampaigns
         /\ idled' = idled \/ UpdateWrite
<1> USE DEF Next, OfLink, OfInvoice, Dashboard, Credit, Create, GenerateSlug, NumberLink,
           InsertLink, Delete, UpdateRead, UpdateWrite, BackfillRead, BackfillNumber,
           BackfillWrite, ResolveDonation, IncrementCreated, TagInvoice, PayInvoice, Expire,
           Send, Mine, Collect, RecordDonation, SkipDonation, IncrementRaised, IncrementFails,
           PollStart, PollNext, PushStart, PushDone, Crash, Breaks, LooksFor,
           Blocks, BlockStart, Confirm, CountInvoice, NotADonation, GetHeight,
           ReadCampaigns, BlockTxDone, FetchFails, Checkpoint,
           rows, net, scan, calls, history, vars
<1>1. height' = height \/ ReadCampaigns \/ Checkpoint
  OBVIOUS
<1>2. seen' = seen \/ PollNext \/ BlockTxDone \/ Crash
  OBVIOUS
<1>3. edit' = edit \/ UpdateRead \/ UpdateWrite \/ Crash
  OBVIOUS
<1>4. fill' = fill \/ BackfillRead \/ BackfillNumber \/ BackfillWrite \/ Crash
  OBVIOUS
<1>5. edits' \in {edits, edits + 1} /\ faults' \in {faults, faults + 1}
  OBVIOUS
<1>6. cast' = cast
  OBVIOUS
<1>7. cut' = cut \/ (\E k \in Workers : IncrementFails(k)) \/ Crash
  OBVIOUS
<1>8. spoilt' = spoilt \/ (\E k \in Workers : SkipDonation(k)) \/ ReadCampaigns
  OBVIOUS
<1>9. idled' = idled \/ UpdateWrite
  OBVIOUS
<1> HIDE DEF Next, OfLink, OfInvoice, Dashboard, Credit, Create, GenerateSlug, NumberLink,
            InsertLink, Delete, UpdateRead, UpdateWrite, BackfillRead, BackfillNumber,
            BackfillWrite, ResolveDonation, IncrementCreated, TagInvoice, PayInvoice, Expire,
            Send, Mine, Collect, RecordDonation, SkipDonation, IncrementRaised, IncrementFails,
            PollStart, PollNext, PushStart, PushDone, Crash, Breaks, LooksFor,
            Blocks, BlockStart, Confirm, CountInvoice, NotADonation, GetHeight,
            ReadCampaigns, BlockTxDone, FetchFails, Checkpoint,
            rows, net, scan, calls, history, vars
<1> QED  BY <1>1, <1>2, <1>3, <1>4, <1>5, <1>6, <1>7, <1>8, <1>9

-----------------------------------------------------------------------------
(* Types.                                                                  *)

\* What a worker has in hand.
LEMMA Phases ==
  ASSUME WorkerTypes, NEW k \in Workers
  PROVE  /\ worker[k].pc = "tx" => worker[k] \in Crediting
         /\ worker[k].pc = "confirm" => worker[k] \in Confirming
         /\ worker[k].pc = "count" => worker[k] \in Counting
         /\ worker[k].pc = "camps" => worker[k] \in Choosing
         /\ worker[k].pc \in {"confirm", "count", "camps"} => k = "block"
         /\ worker[k].cur # None => worker[k].pc \in {"tx", "count"}
         /\ worker[k].add # None =>
              worker[k].pc \in {"tx", "confirm"} /\ worker[k].add \in Credits
         /\ worker[k].pc = "idle" => worker[k] = Rest
         /\ worker[k].camps \subseteq Links /\ worker[k].left \subseteq Links
         /\ worker[k].tip \in Nat
<1>1. worker[k] \in Resting \cup Crediting \cup Confirming \cup Counting \cup Choosing
  BY DEF WorkerTypes, WorkerRow
<1>2. k # "block" => worker[k] \in Resting \cup Crediting
  BY DEF WorkerTypes
<1>3. CASE worker[k] \in Resting
  <2>1. worker[k] = Rest
    BY <1>3 DEF Resting
  <2>2. /\ Rest.pc = "idle" /\ Rest.cur = None /\ Rest.add = None /\ Rest.camps = {}
        /\ Rest.left = {} /\ Rest.tip = 0
    BY DEF Rest
  <2> QED  BY <2>1, <2>2
<1>4. CASE worker[k] \in Crediting
  BY <1>4 DEF Crediting
<1>5. CASE worker[k] \in Confirming
  BY <1>2, <1>5 DEF Confirming, Resting, Rest, Crediting
<1>6. CASE worker[k] \in Counting
  BY <1>2, <1>6 DEF Counting, Resting, Rest, Crediting
<1>7. CASE worker[k] \in Choosing
  BY <1>2, <1>7 DEF Choosing, Resting, Rest, Crediting
<1> QED  BY <1>1, <1>3, <1>4, <1>5, <1>6, <1>7

\* One worker changes.
LEMMA OneWorker ==
  ASSUME WorkerTypes, NEW k \in Workers, NEW w, Set(k, w),
         w \in Resting \cup Crediting
           \/ (k = "block" /\ w \in Confirming \cup Counting \cup Choosing)
  PROVE  WorkerTypes'
<1>1. w \in WorkerRow /\ (k # "block" => w \in Resting \cup Crediting)
  BY DEF WorkerRow
<1>2. worker' = [worker EXCEPT ![k] = w]
  BY DEF Set
<1> QED  BY <1>1, <1>2 DEF WorkerTypes

\* What a poll or a push begins with.
Task(camps, queue) == [Rest EXCEPT !.pc = "tx", !.camps = camps, !.queue = queue]

LEMMA TaskShape ==
  ASSUME NEW camps, NEW queue
  PROVE  /\ Task(camps, queue).pc = "tx" /\ Task(camps, queue).camps = camps
         /\ Task(camps, queue).cur = None /\ Task(camps, queue).add = None
         /\ Task(camps, queue).tip = 0
         /\ camps \subseteq Links /\ queue \subseteq Txs => Task(camps, queue) \in Crediting
BY DEF Task, Rest, Crediting

LEMMA StartShapes ==
  /\ PollStart => /\ worker["poll"].pc = "idle"
                  /\ \E c \in {ActiveCampaigns, {}} : Set("poll", Task(c, mempool \ seen))
  /\ PushStart => /\ worker["push"].pc = "idle"
                  /\ \E t \in mempool, c \in {ActiveCampaigns, {}} : Set("push", Task(c, {t}))
  /\ PollStart \/ PushStart => seen' = seen
BY DEF PollStart, PushStart, Task

\* The batch that is scanned for these campaigns.
BatchOf(camps, from, end) ==
  [worker["block"] EXCEPT !.pc = "tx", !.camps = camps, !.tip = end,
                          !.queue = UNION {chain[h] : h \in (from + 1)..end}]

LEMMA BatchShape ==
  ASSUME worker["block"] \in Choosing, NEW camps, NEW from, NEW end
  PROVE  /\ BatchOf(camps, from, end).pc = "tx" /\ BatchOf(camps, from, end).camps = camps
         /\ BatchOf(camps, from, end).tip = end /\ BatchOf(camps, from, end).cur = None
         /\ BatchOf(camps, from, end).add = None
         /\ BatchOf(camps, from, end).queue = UNION {chain[h] : h \in (from + 1)..end}
BY DEF BatchOf, Choosing

\* The campaigns read, with what the worker goes on to.
LEMMA ReadShape ==
  ASSUME Types, BatchInv, ReadCampaigns
  PROVE  LET w == worker["block"] IN
         /\ w \in Choosing /\ w.tip \in Nat /\ w.tip <= Len(chain) /\ height <= w.tip
         /\ UNCHANGED <<link, row, chain, idled, seen>>
         /\ \E camps \in {ActiveCampaigns, {}}, from \in Nat, end \in Nat :
              /\ height <= from /\ (from = height \/ camps = {})
              /\ height <= end /\ end <= w.tip
              /\ spoilt' = spoilt \cup Unsought(camps, end)
              /\ \/ camps = {} /\ height' = end /\ Set("block", Rest)
                 \/ height' = height /\ Set("block", BatchOf(camps, from, end))
<1> DEFINE w == worker["block"]
<1>0. WorkerTypes /\ "block" \in Workers /\ height \in Nat /\ Len(chain) \in Nat
  BY DEF Types, Workers, ScanTypes, NetTypes
<1>1. w \in Choosing
  BY <1>0, Phases DEF ReadCampaigns
<1>2. w.tip \in Nat /\ w.tip <= Len(chain) /\ height <= w.tip
  BY <1>1 DEF BatchInv, ReadCampaigns, Choosing
<1>3. UNCHANGED <<link, row, chain, idled, seen>>
  BY DEF ReadCampaigns, rows, net
<1>4. PICK camps \in {ActiveCampaigns, {}} :
        \/ \E from \in height..w.tip :
              /\ from = height \/ camps = {}
              /\ Set("block", BatchOf(camps, from, BatchEnd(w, from)))
              /\ spoilt' = spoilt \cup Unsought(camps, BatchEnd(w, from))
              /\ height' = height
        \/ /\ camps = {} /\ height' = w.tip /\ Set("block", Rest)
           /\ spoilt' = spoilt \cup Unsought(camps, w.tip)
  BY DEF ReadCampaigns, BatchOf
<1>5. ASSUME NEW from \in height..w.tip
      PROVE  from \in Nat /\ BatchEnd(w, from) \in Nat
             /\ height <= BatchEnd(w, from) /\ BatchEnd(w, from) <= w.tip
  BY <1>0, <1>2, BoundsAssumption DEF BatchEnd
<1> HIDE DEF w
<1>6. CASE \E from \in height..w.tip :
             /\ from = height \/ camps = {}
             /\ Set("block", BatchOf(camps, from, BatchEnd(w, from)))
             /\ spoilt' = spoilt \cup Unsought(camps, BatchEnd(w, from))
             /\ height' = height
  <2>1. PICK from \in height..w.tip :
             /\ from = height \/ camps = {}
             /\ Set("block", BatchOf(camps, from, BatchEnd(w, from)))
             /\ spoilt' = spoilt \cup Unsought(camps, BatchEnd(w, from))
             /\ height' = height
    BY <1>6
  <2>2. /\ from \in Nat /\ height <= from /\ BatchEnd(w, from) \in Nat
        /\ height <= BatchEnd(w, from) /\ BatchEnd(w, from) <= w.tip
    BY <1>0, <1>5
  <2> QED  BY <1>1, <1>2, <1>3, <2>1, <2>2 DEF w
<1>7. CASE /\ camps = {} /\ height' = w.tip /\ Set("block", Rest)
           /\ spoilt' = spoilt \cup Unsought(camps, w.tip)
  BY <1>0, <1>1, <1>2, <1>3, <1>7 DEF w
<1> QED  BY <1>4, <1>6, <1>7 DEF w

LEMMA RestRests == Rest \in Resting /\ Rest \in WorkerRow
BY DEF Resting, WorkerRow

\* The statements on links and invoices turn rows into rows.
LEMMA LinkTypes ==
  ASSUME Types, [Next]_vars
  PROVE  link' \in [Links -> LinkRow]
<1>1. link \in [Links -> LinkRow] /\ next \in Nat
  BY DEF Types, RowTypes
<1>2. ASSUME NEW l \in Links, \/ Create(l) \/ GenerateSlug(l) \/ NumberLink(l)
                              \/ InsertLink(l) \/ Delete(l)
      PROVE  link' \in [Links -> LinkRow]
  BY <1>1, <1>2 DEF LinkRow, Create, GenerateSlug, NumberLink, InsertLink, Delete
<1>3. ASSUME NEW i \in Invs, IncrementCreated(i) PROVE link' \in [Links -> LinkRow]
  <2> DEFINE x == inv[i].link
  <2>1. link' = [link EXCEPT ![x].created = link[x].created + 1]
    BY <1>3 DEF IncrementCreated
  <2> HIDE DEF x
  <2>2. CASE x \in Links
    BY <1>1, <2>1, <2>2 DEF LinkRow
  <2>3. CASE x \notin Links
    BY <1>1, <2>1, <2>3
  <2> QED  BY <2>2, <2>3
<1>4. CASE UpdateWrite
  <2>1. edit.id \in Links /\ edit.active \in BOOLEAN
    BY <1>4 DEF Types, CallTypes, EditRow, UpdateWrite, Blank
  <2> QED  BY <1>1, <1>4, <2>1 DEF UpdateWrite, Written, LinkRow
<1>5. CASE BackfillWrite
  <2>1. fill.addr \in Nat \cup {None}
    BY <1>5 DEF Types, CallTypes, FillRow, BackfillWrite, Blank
  <2>2. PICK l \in fill.todo :
          link' = IF Live(l) THEN [link EXCEPT ![l].addr = fill.addr] ELSE link
    BY <1>5 DEF BackfillWrite
  <2>3. fill.todo \subseteq Links
    BY <1>5 DEF Types, CallTypes, FillRow, BackfillWrite, Blank
  <2> QED  BY <1>1, <2>1, <2>2, <2>3 DEF LinkRow
<1>6. ASSUME NEW k \in Workers, IncrementRaised(k) PROVE link' \in [Links -> LinkRow]
  <2> DEFINE a == worker[k].add
  <2>1. a \in Credits
    BY <1>6, Phases DEF Types, IncrementRaised
  <2>2. a.to \in Links /\ a.zat \in Nat /\ a.cents \in Nat
    BY <2>1 DEF Credits
  <2>3. Plus(link[a.to].total, a) \in Totals
    BY <1>1, <2>2 DEF LinkRow, Totals, Plus
  <2>4. link' = IF Live(a.to) THEN [link EXCEPT ![a.to].total = Plus(link[a.to].total, a)]
                ELSE link
    BY <1>6 DEF IncrementRaised
  <2> HIDE DEF a
  <2> QED  BY <1>1, <2>2, <2>3, <2>4 DEF LinkRow
<1>7. CASE Crash
  BY <1>1, <1>7 DEF Crash, LinkRow, NoLink, Nothing, Totals
<1> QED  BY <1>1, <1>2, <1>3, <1>4, <1>5, <1>6, <1>7, Moves

LEMMA InvTypes ==
  ASSUME Types, [Next]_vars
  PROVE  inv' \in [Invs -> InvRow]
<1>1. inv \in [Invs -> InvRow] /\ next \in Nat
  BY DEF Types, RowTypes
<1>2. ASSUME NEW i \in Invs, ResolveDonation(i) PROVE inv' \in [Invs -> InvRow]
  <2>1. PICK l \in Links :
          inv' = [inv EXCEPT ![i] = [inv[i] EXCEPT !.st = "pending", !.link = l,
                                                   !.addr = next, !.call = "count"]]
    BY <1>2 DEF ResolveDonation
  <2>2. [inv[i] EXCEPT !.st = "pending", !.link = l, !.addr = next, !.call = "count"]
          \in InvRow
    BY <1>1 DEF InvRow
  <2> QED  BY <1>1, <2>1, <2>2
<1>3. ASSUME NEW i \in Invs,
             IncrementCreated(i) \/ TagInvoice(i) \/ Expire(i)
      PROVE  inv' \in [Invs -> InvRow]
  BY <1>1, <1>3 DEF InvRow, IncrementCreated, TagInvoice, Expire
<1>4. ASSUME NEW i \in Invs, PayInvoice(i) PROVE inv' \in [Invs -> InvRow]
  <2>1. PICK r \in Received :
          inv' = [inv EXCEPT ![i].st = "detected", ![i].received = r]
    BY <1>4 DEF PayInvoice
  <2>2. r \in Nat
    BY AmountsAssumption
  <2>3. inv' = [inv EXCEPT ![i] = [inv[i] EXCEPT !.st = "detected", !.received = r]]
    BY <1>1, <2>1
  <2>4. [inv[i] EXCEPT !.st = "detected", !.received = r] \in InvRow
    BY <1>1, <2>2 DEF InvRow
  <2> QED  BY <1>1, <2>3, <2>4
<1>5. CASE Confirm
  <2>1. worker["block"].queue \subseteq Invs
    BY <1>5, Phases DEF Types, Confirm, Confirming, Workers
  <2>2. PICK i \in Invs : inv' = [inv EXCEPT ![i].st = "confirmed"]
    BY <1>5, <2>1 DEF Confirm
  <2>3. [inv[i] EXCEPT !.st = "confirmed"] \in InvRow
    BY <1>1 DEF InvRow
  <2> QED  BY <1>1, <2>2, <2>3
<1>6. CASE CountInvoice
  <2>1. worker["block"].cur \in Invs
    BY <1>6, Phases DEF Types, CountInvoice, Counting, Workers
  <2> DEFINE i == worker["block"].cur
  <2>2. inv' = [inv EXCEPT ![i].counted = TRUE]
    BY <1>6 DEF CountInvoice
  <2> HIDE DEF i
  <2>3. i \in Invs /\ [inv[i] EXCEPT !.counted = TRUE] \in InvRow
    BY <1>1, <2>1 DEF InvRow, i
  <2> QED  BY <1>1, <2>2, <2>3
<1>7. CASE Crash
  BY <1>1, <1>7 DEF InvRow, Crash
<1> QED  BY <1>1, <1>2, <1>3, <1>4, <1>5, <1>6, <1>7, Moves

LEMMA OtherRowTypes ==
  ASSUME Types, [Next]_vars
  PROVE  next' \in Nat /\ row' \subseteq Links \X Txs /\ NetTypes'
<1>1. next' \in Nat
  <2>1. next \in Nat
    BY DEF Types, RowTypes
  <2>2. next' = next \/ next' = next + 1
    BY Moves DEF BackfillNumber, NumberLink, ResolveDonation, NextIndex
  <2> QED  BY <2>1, <2>2
<1>2. row' \subseteq Links \X Txs
  <2>1. ASSUME NEW k \in Workers, RecordDonation(k) PROVE row' \subseteq Links \X Txs
    <3>1. worker[k] \in Crediting
      BY <2>1, Phases DEF RecordDonation, Types
    <3>2. worker[k].cur \in Txs /\ worker[k].left \subseteq Links
      BY <2>1, <3>1 DEF RecordDonation, Crediting
    <3> QED  BY <2>1, <3>2 DEF RecordDonation, Types, RowTypes
  <2> QED  BY <2>1, Moves DEF Types, RowTypes
<1>3. NetTypes'
  <2>1. CASE Mine
    BY <2>1 DEF Types, NetTypes, Mine
  <2>2. ASSUME NEW t \in Txs, Send(t) PROVE NetTypes'
    BY <2>2 DEF Types, NetTypes, Send
  <2>3. CASE UNCHANGED net
    BY <2>3 DEF Types, NetTypes, net
  <2> QED  BY <2>1, <2>2, <2>3, Moves
<1> QED  BY <1>1, <1>2, <1>3

\* The steps of the three workers that credit campaigns.
LEMMA CreditSteps ==
  ASSUME Types, NEW k \in Workers, Credit(k)
  PROVE  \/ worker[k] \in Crediting /\ \E v \in Crediting : Set(k, v)
         \/ /\ k = "block" /\ worker[k] \in Confirming
            /\ [worker[k] EXCEPT !.add = None] \in Confirming
            /\ Set(k, [worker[k] EXCEPT !.add = None])
<1> DEFINE w == worker[k]
<1>0. WorkerTypes
  BY DEF Types
<1>1. CASE Collect(k)
  <2>1. w \in Crediting
    BY <1>0, <1>1, Phases DEF Collect
  <2>2. PICK t \in w.queue : Set(k, [w EXCEPT !.cur = t,
                                              !.left = {l \in w.camps : Pays[t][l] > 0}])
    BY <1>1 DEF Collect
  <2> HIDE DEF w
  <2>3. [w EXCEPT !.cur = t, !.left = {l \in w.camps : Pays[t][l] > 0}] \in Crediting
    BY <2>1, <2>2 DEF Crediting
  <2> QED  BY <2>1, <2>2, <2>3 DEF w
<1>2. CASE RecordDonation(k)
  <2>1. w \in Crediting
    BY <1>0, <1>2, Phases DEF RecordDonation
  <2>2. PICK l \in w.left :
          \/ Set(k, [w EXCEPT !.left = w.left \ {l}])
          \/ Set(k, [[w EXCEPT !.left = w.left \ {l}]
                        EXCEPT !.add = [to |-> l, zat |-> Pays[w.cur][l],
                                        cents |-> Pays[w.cur][l]]])
    BY <1>2 DEF RecordDonation
  <2>3. w.cur \in Txs /\ l \in Links
    BY <1>2, <2>1, <2>2 DEF RecordDonation, Crediting
  <2>4. Pays[w.cur][l] \in Nat
    BY <2>3, PaysAssumption
  <2> HIDE DEF w
  <2>5. [to |-> l, zat |-> Pays[w.cur][l], cents |-> Pays[w.cur][l]] \in Credits
    BY <2>3, <2>4 DEF Credits
  <2>6. [w EXCEPT !.left = w.left \ {l}] \in Crediting
    BY <2>1 DEF Crediting
  <2>7. [[w EXCEPT !.left = w.left \ {l}]
           EXCEPT !.add = [to |-> l, zat |-> Pays[w.cur][l], cents |-> Pays[w.cur][l]]]
        \in Crediting
    BY <2>5, <2>6 DEF Crediting
  <2> QED  BY <2>1, <2>2, <2>6, <2>7 DEF w
<1>3. CASE SkipDonation(k)
  <2>1. w \in Crediting
    BY <1>0, <1>3, Phases DEF SkipDonation
  <2>2. PICK l \in w.left : Set(k, [w EXCEPT !.left = w.left \ {l}])
    BY <1>3 DEF SkipDonation
  <2> HIDE DEF w
  <2>3. [w EXCEPT !.left = w.left \ {l}] \in Crediting
    BY <2>1 DEF Crediting
  <2> QED  BY <2>1, <2>2, <2>3 DEF w
<1>4. CASE IncrementRaised(k) \/ IncrementFails(k)
  <2>1. w.add # None /\ Set(k, [w EXCEPT !.add = None])
    BY <1>4 DEF IncrementRaised, IncrementFails
  <2>2. (w \in Crediting) \/ (k = "block" /\ w \in Confirming)
    BY <1>0, <2>1, Phases
  <2> HIDE DEF w
  <2>3. CASE w \in Crediting
    <3>1. [w EXCEPT !.add = None] \in Crediting
      BY <2>3 DEF Crediting
    <3> QED  BY <2>1, <2>3, <3>1 DEF w
  <2>4. CASE k = "block" /\ w \in Confirming
    <3>1. [w EXCEPT !.add = None] \in Confirming
      BY <2>4 DEF Confirming
    <3> QED  BY <2>1, <2>4, <3>1 DEF w
  <2> QED  BY <2>2, <2>3, <2>4
<1> QED  BY <1>1, <1>2, <1>3, <1>4 DEF Credit

LEMMA CreditTypes ==
  ASSUME Types, NEW k \in Workers, Credit(k)
  PROVE  WorkerTypes'
<1>1. WorkerTypes
  BY DEF Types
<1>2. CASE worker[k] \in Crediting /\ \E v \in Crediting : Set(k, v)
  BY <1>1, <1>2, OneWorker
<1>3. CASE /\ k = "block" /\ [worker[k] EXCEPT !.add = None] \in Confirming
           /\ Set(k, [worker[k] EXCEPT !.add = None])
  BY <1>1, <1>3, OneWorker
<1> QED  BY <1>2, <1>3, CreditSteps

\* The steps of the mempool poll and of a push.
LEMMA PollTypes ==
  ASSUME Types, PollStart \/ PollNext \/ PushStart \/ PushDone
  PROVE  WorkerTypes' /\ seen' \subseteq Txs
<1>0. WorkerTypes /\ "poll" \in Workers /\ "push" \in Workers /\ mempool \subseteq Txs
      /\ seen \subseteq Txs
  BY DEF Types, Workers, NetTypes, ScanTypes
<1>1. ActiveCampaigns \subseteq Links
  BY DEF ActiveCampaigns
<1>2. \A q \in SUBSET Txs, c \in {ActiveCampaigns, {}} : Task(c, q) \in Crediting
  BY <1>1, TaskShape
<1>3. CASE PollStart
  <2>1. mempool \ seen \in SUBSET Txs
    BY <1>0
  <2>2. \E v \in Crediting : Set("poll", v)
    BY <1>2, <1>3, <2>1, StartShapes
  <2> QED  BY <1>0, <1>3, <2>2, StartShapes, OneWorker
<1>4. CASE PushStart
  <2>1. \A t \in mempool : {t} \in SUBSET Txs
    BY <1>0
  <2>2. \E v \in Crediting : Set("push", v)
    BY <1>2, <1>4, <2>1, StartShapes
  <2> QED  BY <1>0, <1>4, <2>2, StartShapes, OneWorker
<1>5. CASE PollNext
  <2>1. worker["poll"] \in Crediting /\ worker["poll"].cur \in Txs
    <3>1. worker["poll"].cur # None
      BY <1>5 DEF PollNext, TxDone
    <3>2. worker["poll"].pc = "tx"
      BY <1>0, <3>1, Phases
    <3> QED  BY <1>0, <3>1, <3>2, Phases DEF Crediting
  <2>2. Onward("poll") \in Crediting
    BY <2>1 DEF Onward, Crediting
  <2> QED  BY <1>0, <1>5, <2>1, <2>2, RestRests, OneWorker DEF PollNext
<1>6. CASE PushDone
  BY <1>0, <1>6, RestRests, OneWorker DEF PushDone
<1> QED  BY <1>3, <1>4, <1>5, <1>6

\* The steps of the block worker.
LEMMA BlockTypes ==
  ASSUME Types, RefInv, BatchInv, Blocks
  PROVE  WorkerTypes' /\ height' \in Nat /\ seen' \subseteq Txs
<1> DEFINE w == worker["block"]
<1>0. WorkerTypes /\ "block" \in Workers /\ height \in Nat /\ seen \subseteq Txs
      /\ chain \in Seq(SUBSET Txs) /\ Len(chain) \in Nat
      /\ inv \in [Invs -> InvRow]
  BY DEF Types, Workers, NetTypes, ScanTypes, RowTypes
<1>1. CASE BlockStart
  <2>1. [Rest EXCEPT !.pc = "confirm", !.queue = {i \in Invs : inv[i].st = "detected"},
                     !.waiting = Pending # {}] \in Confirming
    BY DEF Rest, Confirming
  <2> QED  BY <1>0, <1>1, <2>1, OneWorker DEF BlockStart
<1>2. CASE Confirm
  <2>1. w \in Confirming /\ w.add = None
    BY <1>0, <1>2, Phases DEF Confirm
  <2>2. PICK i \in w.queue :
          Set("block", [w EXCEPT !.pc = "count", !.cur = i, !.queue = w.queue \ {i}])
    BY <1>2 DEF Confirm
  <2> HIDE DEF w
  <2>3. [w EXCEPT !.pc = "count", !.cur = i, !.queue = w.queue \ {i}] \in Counting
    BY <2>1, <2>2 DEF Confirming, Counting
  <2> QED  BY <1>0, <1>2, <2>2, <2>3, OneWorker DEF Confirm
<1>3. CASE CountInvoice
  <2>1. w \in Counting /\ w.cur \in Invs /\ inv[w.cur].link \in Links
    BY <1>0, <1>3, Phases DEF CountInvoice, Counting, RefInv
  <2>2. inv[w.cur].received \in Nat
    BY <1>0, <2>1 DEF InvRow
  <2>3. [to |-> inv[w.cur].link, zat |-> inv[w.cur].received, cents |-> Quoted] \in Credits
    BY <2>1, <2>2, AmountsAssumption DEF Credits
  <2>4. [ToConfirm EXCEPT !.add = [to |-> inv[w.cur].link, zat |-> inv[w.cur].received,
                                   cents |-> Quoted]] \in Confirming
    BY <2>1, <2>3 DEF ToConfirm, Confirming, Counting
  <2> QED  BY <1>0, <1>3, <2>4, OneWorker DEF CountInvoice
<1>4. CASE NotADonation
  <2>1. w \in Counting
    BY <1>0, <1>4, Phases DEF NotADonation
  <2>2. ToConfirm \in Confirming
    BY <2>1 DEF ToConfirm, Confirming, Counting
  <2> QED  BY <1>0, <1>4, <2>2, OneWorker DEF NotADonation
<1>5. CASE GetHeight
  <2>1. w \in Confirming
    BY <1>0, <1>5, Phases DEF GetHeight
  <2>2. [w EXCEPT !.pc = "camps", !.tip = Len(chain)] \in Choosing
    BY <1>0, <1>5, <2>1 DEF GetHeight, Confirming, Choosing
  <2> QED  BY <1>0, <1>5, <2>2, OneWorker DEF GetHeight
<1>6. CASE ReadCampaigns
  <2>1. w \in Choosing /\ w.tip \in Nat /\ w.tip <= Len(chain) /\ seen' = seen
    BY <1>6, ReadShape
  <2>2. PICK camps \in {ActiveCampaigns, {}}, from \in Nat, end \in Nat :
          /\ end <= w.tip
          /\ \/ height' = end /\ Set("block", Rest)
             \/ height' = height /\ Set("block", BatchOf(camps, from, end))
    BY <1>6, ReadShape
  <2>3. CASE height' = end /\ Set("block", Rest)
    BY <1>0, <2>1, <2>3, RestRests, OneWorker
  <2>4. CASE height' = height /\ Set("block", BatchOf(camps, from, end))
    <3>1. camps \in SUBSET Links
      BY DEF ActiveCampaigns
    <3> HIDE DEF w
    <3>2. \A h \in (from + 1)..end : chain[h] \subseteq Txs
      BY <1>0, <2>1, <2>2
    <3>3. UNION {chain[h] : h \in (from + 1)..end} \subseteq Txs
      BY <3>2
    <3>4. BatchOf(camps, from, end) \in Crediting
      BY <2>1, <3>1, <3>3 DEF BatchOf, Choosing, Crediting, w
    <3> QED  BY <1>0, <2>1, <2>4, <3>4, OneWorker
  <2> QED  BY <2>2, <2>3, <2>4
<1>7. CASE BlockTxDone
  <2>1. w \in Crediting /\ w.cur \in Txs
    <3>1. w \in Crediting
      BY <1>0, <1>7, Phases DEF BlockTxDone
    <3> QED  BY <1>7, <3>1 DEF Crediting, BlockTxDone, TxDone
  <2>2. Onward("block") \in Crediting
    BY <2>1 DEF Onward, Crediting
  <2> QED  BY <1>0, <1>7, <2>1, <2>2, OneWorker DEF BlockTxDone
<1>8. CASE FetchFails
  BY <1>0, <1>8, RestRests, OneWorker DEF FetchFails
<1>9. CASE Checkpoint
  <2>1. w.tip \in Nat
    BY <1>0, Phases
  <2> QED  BY <1>0, <1>9, <2>1, RestRests, OneWorker DEF Checkpoint, Scanned
<1> QED  BY <1>1, <1>2, <1>3, <1>4, <1>5, <1>6, <1>7, <1>8, <1>9 DEF Blocks

LEMMA WorkerTypesStep ==
  ASSUME Types, RefInv, BatchInv, [Next]_vars
  PROVE  WorkerTypes' /\ ScanTypes'
<1>0. WorkerTypes /\ height \in Nat /\ seen \subseteq Txs
  BY DEF Types, ScanTypes
<1>1. WorkerTypes'
  <2>1. CASE worker' = worker
    BY <1>0, <2>1 DEF WorkerTypes
  <2>2. CASE Crash
    BY <2>2, RestRests DEF Crash, WorkerTypes
  <2>3. ASSUME NEW k \in Workers, Collect(k) \/ RecordDonation(k) \/ SkipDonation(k)
                                    \/ IncrementRaised(k) \/ IncrementFails(k)
        PROVE  WorkerTypes'
    BY <2>3, CreditTypes DEF Credit
  <2> QED  BY <2>1, <2>2, <2>3, PollTypes, BlockTypes, Moves
<1>2. height' \in Nat
  BY <1>0, BlockTypes, MoreMoves DEF Blocks
<1>3. seen' \subseteq Txs
  <2>1. CASE Crash
    BY <2>1 DEF Crash
  <2> QED  BY <1>0, <2>1, PollTypes, BlockTypes, MoreMoves DEF Blocks
<1> QED  BY <1>1, <1>2, <1>3 DEF ScanTypes

LEMMA CallTypesStep ==
  ASSUME Types, [Next]_vars
  PROVE  CallTypes'
<1>0. edit \in EditRow /\ fill \in FillRow /\ edits \in Nat /\ next \in Nat
      /\ link \in [Links -> LinkRow]
  BY DEF Types, CallTypes, RowTypes
<1>1. edit' \in EditRow
  <2>1. CASE UpdateRead
    <3>1. PICK l \in Links, active \in Patches :
            edit' = [pc |-> "write", id |-> l, old |-> link[l],
                     active |-> IF active = None THEN link[l].active ELSE active]
      BY <2>1 DEF UpdateRead
    <3>2. (IF active = None THEN link[l].active ELSE active) \in BOOLEAN
      BY <1>0, BoundsAssumption DEF LinkRow
    <3> QED  BY <1>0, <3>1, <3>2 DEF EditRow
  <2>2. CASE UpdateWrite \/ Crash
    BY <2>2 DEF UpdateWrite, Crash, EditRow
  <2> QED  BY <1>0, <2>1, <2>2, MoreMoves
<1>2. fill' \in FillRow
  <2>1. CASE BackfillRead
    BY <2>1 DEF BackfillRead, FillRow
  <2>2. CASE BackfillNumber
    <3>1. fill.pc = "next"
      BY <2>2 DEF BackfillNumber
    <3>2. fill \in [pc : {"next", "write"}, addr : Nat \cup {None}, todo : SUBSET Links]
      BY <1>0, <3>1 DEF FillRow, Blank
    <3>3. fill' = [fill EXCEPT !.pc = "write", !.addr = next]
      BY <2>2 DEF BackfillNumber
    <3> QED  BY <1>0, <3>2, <3>3 DEF FillRow
  <2>3. CASE BackfillWrite
    BY <1>0, <2>3 DEF BackfillWrite, FillRow, Blank
  <2>4. CASE Crash
    BY <2>4 DEF Crash, FillRow
  <2> QED  BY <1>0, <2>1, <2>2, <2>3, <2>4, MoreMoves
<1>3. edits' \in Nat
  BY <1>0, MoreMoves
<1> QED  BY <1>1, <1>2, <1>3 DEF CallTypes

\* What workers owe a link.
LEMMA OwedTypes ==
  ASSUME WorkerTypes, NEW l
  PROVE  /\ \A k \in Workers : Owed(k, l).zat \in Nat /\ Owed(k, l).cents \in Nat
         /\ OwedAll(l) \in Totals
<1>1. \A k \in Workers : Owed(k, l).zat \in Nat /\ Owed(k, l).cents \in Nat
  <2> TAKE k \in Workers
  <2>1. CASE worker[k].add # None /\ worker[k].add.to = l
    <3>1. worker[k].add \in Credits
      BY <2>1, Phases
    <3> QED  BY <2>1, <3>1 DEF Owed, Credits
  <2>2. CASE ~(worker[k].add # None /\ worker[k].add.to = l)
    BY <2>2 DEF Owed, Nothing
  <2> QED  BY <2>1, <2>2
<1>2. "poll" \in Workers /\ "push" \in Workers /\ "block" \in Workers
  BY DEF Workers
<1> QED  BY <1>1, <1>2 DEF OwedAll, Plus, Totals

LEMMA HistoryTypesStep ==
  ASSUME Types, [Next]_vars
  PROVE  HistoryTypes'
<1>0. cast \in Casts /\ faults \in Nat /\ cut \in [Links -> Totals] /\ WorkerTypes
      /\ spoilt \subseteq Links \X Txs /\ idled \subseteq Links
  BY DEF Types, HistoryTypes
<1>1. cast' \in Casts /\ faults' \in Nat
  BY <1>0, MoreMoves
<1>2. cut' \in [Links -> Totals]
  <2>1. ASSUME NEW k \in Workers, IncrementFails(k) PROVE cut' \in [Links -> Totals]
    <3> DEFINE a == worker[k].add
    <3>1. a \in Credits
      BY <1>0, <2>1, Phases DEF IncrementFails
    <3>2. a.to \in Links /\ a.zat \in Nat /\ a.cents \in Nat
      BY <3>1 DEF Credits
    <3>3. cut' = [cut EXCEPT ![a.to] = Plus(cut[a.to], a)]
      BY <2>1 DEF IncrementFails
    <3> HIDE DEF a
    <3>4. Plus(cut[a.to], a) \in Totals
      BY <1>0, <3>2 DEF Totals, Plus
    <3> QED  BY <1>0, <3>3, <3>4
  <2>2. CASE Crash
    <3>1. \A l \in Links : Plus(cut[l], OwedAll(l)) \in Totals
      BY <1>0, OwedTypes DEF Plus, Totals
    <3> QED  BY <2>2, <3>1 DEF Crash
  <2> QED  BY <1>0, <2>1, <2>2, MoreMoves
<1>3. spoilt' \subseteq Links \X Txs
  <2>1. ASSUME NEW k \in Workers, SkipDonation(k) PROVE spoilt' \subseteq Links \X Txs
    <3>1. worker[k] \in Crediting
      BY <1>0, <2>1, Phases DEF SkipDonation
    <3>2. worker[k].cur \in Txs /\ worker[k].left \subseteq Links
      BY <2>1, <3>1 DEF SkipDonation, Crediting
    <3> QED  BY <1>0, <2>1, <3>2 DEF SkipDonation
  <2>2. CASE ReadCampaigns
    <3>1. PICK camps, end : spoilt' = spoilt \cup Unsought(camps, end)
      BY <2>2 DEF ReadCampaigns
    <3> QED  BY <1>0, <3>1 DEF Unsought, ActiveCampaigns
  <2> QED  BY <1>0, <2>1, <2>2, MoreMoves
<1>4. idled' \subseteq Links
  <2>1. CASE UpdateWrite
    BY <1>0, <2>1 DEF UpdateWrite, Types, CallTypes, EditRow, Blank
  <2> QED  BY <1>0, <2>1, MoreMoves
<1> QED  BY <1>1, <1>2, <1>3, <1>4 DEF HistoryTypes

LEMMA TypesStep ==
  ASSUME Types, RefInv, BatchInv, [Next]_vars
  PROVE  Types'
BY LinkTypes, InvTypes, OtherRowTypes, WorkerTypesStep, CallTypesStep, HistoryTypesStep
   DEF Types, RowTypes

-----------------------------------------------------------------------------
(* Addresses.                                                              *)

\* What a step does to addresses: nothing, it forgets some, it gives the next
\* one to a link or an invoice, or it takes it for a link and stores it later.
LEMMA AddressMoves ==
  ASSUME Types, [Next]_vars
  PROVE  \/ /\ next' = next
            /\ \A l \in Links : link'[l].addr \in {link[l].addr, None}
            /\ \A l \in Links : Opened(l) => link'[l].addr = link[l].addr
            /\ \A i \in Invs : inv'[i].addr = inv[i].addr
            /\ fill'.pc = "write" => fill' = fill
         \/ /\ next' = next + 1
            /\ \E m \in Links : /\ link'[m].addr = next
                                /\ \A l \in Links \ {m} : link'[l].addr = link[l].addr
            /\ UNCHANGED <<inv, fill>>
         \/ /\ next' = next + 1
            /\ \E j \in Invs : /\ inv'[j].addr = next
                               /\ \A i \in Invs \ {j} : inv'[i].addr = inv[i].addr
            /\ UNCHANGED <<link, fill>>
         \/ /\ next' = next + 1 /\ UNCHANGED <<link, inv>>
            /\ fill'.addr = next
         \/ /\ next' = next /\ inv' = inv /\ fill.pc = "write" /\ fill'.pc # "write"
            /\ \E m \in Links : /\ link'[m].addr \in {link[m].addr, fill.addr}
                                /\ \A l \in Links \ {m} : link'[l].addr = link[l].addr
<1>0. link \in [Links -> LinkRow] /\ inv \in [Invs -> InvRow] /\ fill \in FillRow
  BY DEF Types, RowTypes, CallTypes
<1>1. ASSUME NEW m \in Links, NumberLink(m)
      PROVE  /\ next' = next + 1 /\ link'[m].addr = next
             /\ \A l \in Links \ {m} : link'[l].addr = link[l].addr
             /\ UNCHANGED <<inv, fill>>
  BY <1>0, <1>1 DEF NumberLink, NextIndex, LinkRow, calls
<1>2. ASSUME NEW j \in Invs, ResolveDonation(j)
      PROVE  /\ next' = next + 1 /\ inv'[j].addr = next
             /\ \A i \in Invs \ {j} : inv'[i].addr = inv[i].addr
             /\ UNCHANGED <<link, fill>>
  BY <1>0, <1>2 DEF ResolveDonation, NextIndex, InvRow, calls
<1>3. CASE BackfillNumber
  <2>1. next' = next + 1 /\ UNCHANGED <<link, inv>>
    BY <1>3 DEF BackfillNumber, NextIndex
  <2>2. fill'.addr = next
    BY <1>0, <1>3 DEF BackfillNumber, FillRow, Blank
  <2> QED  BY <2>1, <2>2
<1>4. CASE BackfillWrite
  <2>1. PICK m \in fill.todo :
          /\ link' = IF Live(m) THEN [link EXCEPT ![m].addr = fill.addr] ELSE link
          /\ fill' = IF fill.todo = {m} THEN Blank
                     ELSE [pc |-> "next", addr |-> None, todo |-> fill.todo \ {m}]
    BY <1>4 DEF BackfillWrite
  <2>2. m \in Links /\ fill.pc = "write" /\ UNCHANGED <<next, inv>>
    BY <1>0, <1>4 DEF BackfillWrite, FillRow, Blank
  <2>3. fill'.pc # "write"
    BY <2>1 DEF Blank
  <2>4. link'[m].addr \in {link[m].addr, fill.addr}
        /\ \A l \in Links \ {m} : link'[l].addr = link[l].addr
    BY <1>0, <2>1, <2>2 DEF LinkRow
  <2> QED  BY <2>2, <2>3, <2>4
<1>5. ASSUME ~BackfillNumber, ~BackfillWrite, \A m \in Links : ~NumberLink(m),
             \A j \in Invs : ~ResolveDonation(j)
      PROVE  /\ next' = next
             /\ \A l \in Links : link'[l].addr \in {link[l].addr, None}
             /\ \A l \in Links : Opened(l) => link'[l].addr = link[l].addr
             /\ \A i \in Invs : inv'[i].addr = inv[i].addr
             /\ fill'.pc = "write" => fill' = fill
  <2>1. next' = next
    BY <1>5, Moves
  <2>2. fill'.pc = "write" => fill' = fill
    BY <1>5, MoreMoves DEF BackfillRead, Crash, Blank
  <2>3. ASSUME NEW l \in Links
        PROVE  /\ link'[l].addr \in {link[l].addr, None}
               /\ Opened(l) => link'[l].addr = link[l].addr
    <3>1. ASSUME NEW m \in Links, Create(m) \/ GenerateSlug(m) \/ InsertLink(m) \/ Delete(m)
          PROVE  link'[l].addr = link[l].addr
      BY <1>0, <3>1 DEF Create, GenerateSlug, InsertLink, Delete, LinkRow
    <3>2. ASSUME NEW i \in Invs, IncrementCreated(i) PROVE link'[l].addr = link[l].addr
      BY <1>0, <3>2 DEF IncrementCreated, LinkRow
    <3>3. CASE UpdateWrite
      BY <1>0, <3>3 DEF UpdateWrite, Written, LinkRow
    <3>4. ASSUME NEW k \in Workers, IncrementRaised(k) PROVE link'[l].addr = link[l].addr
      <4> DEFINE n == worker[k].add.to
                 x == Plus(link[n].total, worker[k].add)
      <4>1. link' = link \/ link' = [link EXCEPT ![n].total = x]
        BY <3>4 DEF IncrementRaised
      <4> HIDE DEF n, x
      <4> QED  BY <1>0, <4>1 DEF LinkRow
    <3>5. CASE Crash
      BY <1>0, <3>5 DEF Crash, NoLink, LinkRow, Opened
    <3> QED  BY <1>5, <3>1, <3>2, <3>3, <3>4, <3>5, Moves
  <2>4. ASSUME NEW i \in Invs PROVE inv'[i].addr = inv[i].addr
    <3>1. ASSUME NEW j \in Invs,
                 IncrementCreated(j) \/ TagInvoice(j) \/ PayInvoice(j) \/ Expire(j)
          PROVE  inv'[i].addr = inv[i].addr
      BY <1>0, <3>1 DEF IncrementCreated, TagInvoice, PayInvoice, Expire, InvRow
    <3>2. CASE Crash
      BY <1>0, <3>2 DEF Crash, InvRow
    <3>3. CASE Confirm
      <4>1. \E j : inv' = [inv EXCEPT ![j].st = "confirmed"]
        BY <3>3 DEF Confirm
      <4> QED  BY <1>0, <4>1 DEF InvRow
    <3>4. CASE CountInvoice
      <4>1. \E j : inv' = [inv EXCEPT ![j].counted = TRUE]
        BY <3>4 DEF CountInvoice
      <4> QED  BY <1>0, <4>1 DEF InvRow
    <3> QED  BY <1>5, <3>1, <3>2, <3>3, <3>4, Moves
  <2> QED  BY <2>1, <2>2, <2>3, <2>4
<1> QED  BY <1>1, <1>2, <1>3, <1>4, <1>5

\* So no two owners come to share an address.
LEMMA AddrInvStep ==
  ASSUME Types, AddrInv, [Next]_vars
  PROVE  AddrInv'
<1>0. next \in Nat /\ None \notin Nat
  BY NoneAssumption DEF Types, RowTypes
<1>1. \A a : Given1(a) <=> a \in Nat /\ a < next
  BY DEF Given1
<1>2. CASE /\ next' = next
           /\ \A l \in Links : link'[l].addr \in {link[l].addr, None}
           /\ \A i \in Invs : inv'[i].addr = inv[i].addr
           /\ fill'.pc = "write" => fill' = fill
  <2>1. /\ \A l \in Links : link'[l].addr # None => Given1(link'[l].addr)
        /\ \A i \in Invs : inv'[i].addr # None => Given1(inv'[i].addr)
    BY <1>2 DEF AddrInv
  <2>2. OneOwner'
    BY <1>2 DEF AddrInv, OneOwner
  <2>3. fill'.pc = "write" =>
          /\ Given1(fill'.addr)
          /\ \A l \in Links : link'[l].addr # fill'.addr
          /\ \A i \in Invs : inv'[i].addr # fill'.addr
    BY <1>0, <1>2 DEF AddrInv, Given1
  <2> QED  BY <1>2, <2>1, <2>2, <2>3 DEF AddrInv, Given1
<1>3. CASE /\ next' = next + 1
           /\ \E m \in Links : /\ link'[m].addr = next
                               /\ \A l \in Links \ {m} : link'[l].addr = link[l].addr
           /\ UNCHANGED <<inv, fill>>
  <2>1. PICK m \in Links : /\ link'[m].addr = next
                           /\ \A l \in Links \ {m} : link'[l].addr = link[l].addr
    BY <1>3
  <2>2. /\ \A l \in Links : link'[l].addr # None => link'[l].addr \in Nat
                                                    /\ link'[l].addr < next'
        /\ \A i \in Invs : inv'[i].addr # None => inv'[i].addr \in Nat
                                                  /\ inv'[i].addr < next'
    BY <1>0, <1>3, <2>1 DEF AddrInv, Given1
  <2>3. OneOwner'
    BY <1>0, <1>3, <2>1 DEF AddrInv, OneOwner, Given1
  <2>4. fill'.pc = "write" =>
          /\ fill'.addr \in Nat /\ fill'.addr < next'
          /\ \A l \in Links : link'[l].addr # fill'.addr
          /\ \A i \in Invs : inv'[i].addr # fill'.addr
    BY <1>0, <1>3, <2>1 DEF AddrInv, Given1
  <2> QED  BY <2>2, <2>3, <2>4 DEF AddrInv, Given1
<1>4. CASE /\ next' = next + 1
           /\ \E j \in Invs : /\ inv'[j].addr = next
                              /\ \A i \in Invs \ {j} : inv'[i].addr = inv[i].addr
           /\ UNCHANGED <<link, fill>>
  <2>1. PICK j \in Invs : /\ inv'[j].addr = next
                          /\ \A i \in Invs \ {j} : inv'[i].addr = inv[i].addr
    BY <1>4
  <2>2. /\ \A l \in Links : link'[l].addr # None => link'[l].addr \in Nat
                                                    /\ link'[l].addr < next'
        /\ \A i \in Invs : inv'[i].addr # None => inv'[i].addr \in Nat
                                                  /\ inv'[i].addr < next'
    BY <1>0, <1>4, <2>1 DEF AddrInv, Given1
  <2>3. OneOwner'
    BY <1>0, <1>4, <2>1 DEF AddrInv, OneOwner, Given1
  <2>4. fill'.pc = "write" =>
          /\ fill'.addr \in Nat /\ fill'.addr < next'
          /\ \A l \in Links : link'[l].addr # fill'.addr
          /\ \A i \in Invs : inv'[i].addr # fill'.addr
    BY <1>0, <1>4, <2>1 DEF AddrInv, Given1
  <2> QED  BY <2>2, <2>3, <2>4 DEF AddrInv, Given1
<1>5. CASE next' = next + 1 /\ UNCHANGED <<link, inv>> /\ fill'.addr = next
  <2>1. /\ \A l \in Links : link'[l].addr # None => link'[l].addr \in Nat
                                                    /\ link'[l].addr < next'
        /\ \A i \in Invs : inv'[i].addr # None => inv'[i].addr \in Nat
                                                  /\ inv'[i].addr < next'
    BY <1>0, <1>5 DEF AddrInv, Given1
  <2>2. OneOwner'
    BY <1>5 DEF AddrInv, OneOwner
  <2>3. /\ fill'.addr \in Nat /\ fill'.addr < next'
        /\ \A l \in Links : link'[l].addr # fill'.addr
        /\ \A i \in Invs : inv'[i].addr # fill'.addr
    BY <1>0, <1>5 DEF AddrInv, Given1
  <2> QED  BY <2>1, <2>2, <2>3 DEF AddrInv, Given1
<1>6. CASE /\ next' = next /\ inv' = inv /\ fill.pc = "write" /\ fill'.pc # "write"
           /\ \E m \in Links : /\ link'[m].addr \in {link[m].addr, fill.addr}
                               /\ \A l \in Links \ {m} : link'[l].addr = link[l].addr
  <2>1. PICK m \in Links : /\ link'[m].addr \in {link[m].addr, fill.addr}
                           /\ \A l \in Links \ {m} : link'[l].addr = link[l].addr
    BY <1>6
  <2>2. /\ \A l \in Links : link'[l].addr # None => Given1(link'[l].addr)
        /\ \A i \in Invs : inv'[i].addr # None => Given1(inv'[i].addr)
    BY <1>6, <2>1 DEF AddrInv
  <2>3. OneOwner'
    BY <1>0, <1>6, <2>1 DEF AddrInv, OneOwner
  <2> QED  BY <1>6, <2>2, <2>3 DEF AddrInv, Given1
<1> QED  BY <1>2, <1>3, <1>4, <1>5, <1>6, AddressMoves

LEMMA TypesInit == Init => Types
<1> SUFFICES ASSUME Init PROVE Types
  OBVIOUS
<1>1. Nothing \in Totals
  BY DEF Nothing, Totals
<1>2. NoLink \in LinkRow /\ [NoLink EXCEPT !.st = "live", !.slug = 1, !.active = TRUE] \in LinkRow
  BY <1>1 DEF NoLink, LinkRow
<1>3. NoInv \in InvRow
  BY DEF NoInv, InvRow
<1>4. link \in [Links -> LinkRow] /\ inv \in [Invs -> InvRow]
  BY <1>2, <1>3 DEF Init
<1>5. WorkerTypes
  BY RestRests DEF Init, WorkerTypes
<1>6. RowTypes /\ NetTypes /\ ScanTypes /\ CallTypes /\ HistoryTypes
  BY <1>1, <1>4 DEF Init, RowTypes, NetTypes, ScanTypes, CallTypes, EditRow, FillRow,
                    HistoryTypes
<1> QED  BY <1>5, <1>6 DEF Types

LEMMA AddrInvInit == Init => AddrInv
<1> SUFFICES ASSUME Init PROVE AddrInv
  OBVIOUS
<1>1. (\A l \in Links : link[l].addr = None) /\ (\A i \in Invs : inv[i].addr = None)
  BY DEF Init, NoLink, NoInv
<1>2. fill.pc # "write"
  BY DEF Init, Blank
<1> QED  BY <1>1, <1>2 DEF AddrInv, OneOwner

-----------------------------------------------------------------------------
(* What refers to what.                                                    *)

\* A link opens once, and stays or is deleted.
LEMMA StatusMoves ==
  ASSUME Types, [Next]_vars, NEW l \in Links
  PROVE  \/ link'[l].st = link[l].st
         \/ Delete(l) /\ link[l].st = "live" /\ link'[l].st = "deleted"
         \/ InsertLink(l) /\ link[l].st = "inserting" /\ link'[l].st \in {"live", "refused"}
         \/ ~Opened(l) /\ link'[l].st \notin {"live", "deleted"}
<1>0. link \in [Links -> LinkRow]
  BY DEF Types, RowTypes
<1>1. ASSUME NEW m \in Links, Create(m) \/ GenerateSlug(m) \/ NumberLink(m)
      PROVE  \/ link'[l].st = link[l].st
             \/ ~Opened(l) /\ link'[l].st \notin {"live", "deleted"}
  BY <1>0, <1>1 DEF Create, GenerateSlug, NumberLink, Opened, LinkRow
<1>2. ASSUME NEW m \in Links, InsertLink(m)
      PROVE  \/ link'[l].st = link[l].st
             \/ InsertLink(l) /\ link[l].st = "inserting" /\ link'[l].st \in {"live", "refused"}
  <2>1. CASE l = m
    <3>1. link[m].st = "inserting"
      BY <1>2 DEF InsertLink
    <3>2. CASE SlugTaken(link[m].slug)
      <4>1. link' = [link EXCEPT ![m].st = "refused"]
        BY <1>2, <3>2 DEF InsertLink
      <4>2. link'[m].st = "refused"
        BY <1>0, <4>1 DEF LinkRow
      <4> QED  BY <1>2, <2>1, <3>1, <4>2
    <3>3. CASE ~SlugTaken(link[m].slug)
      <4>1. link' = [link EXCEPT ![m].st = "live", ![m].active = TRUE]
        BY <1>2, <3>3 DEF InsertLink
      <4>2. link'[m].st = "live"
        BY <1>0, <4>1 DEF LinkRow
      <4> QED  BY <1>2, <2>1, <3>1, <4>2
    <3> QED  BY <3>2, <3>3
  <2>2. CASE l # m
    BY <1>0, <1>2, <2>2 DEF InsertLink
  <2> QED  BY <2>1, <2>2
<1>3. ASSUME NEW m \in Links, Delete(m)
      PROVE  \/ link'[l].st = link[l].st
             \/ Delete(l) /\ link[l].st = "live" /\ link'[l].st = "deleted"
  BY <1>0, <1>3 DEF Delete, Live, LinkRow
<1>4. ASSUME NEW i \in Invs, IncrementCreated(i) PROVE link'[l].st = link[l].st
  BY <1>0, <1>4 DEF IncrementCreated, LinkRow
<1>5. CASE UpdateWrite
  BY <1>0, <1>5 DEF UpdateWrite, Written, LinkRow
<1>6. CASE BackfillWrite
  BY <1>0, <1>6 DEF BackfillWrite, LinkRow
<1>7. ASSUME NEW k \in Workers, IncrementRaised(k) PROVE link'[l].st = link[l].st
  <2> DEFINE n == worker[k].add.to
             x == Plus(link[n].total, worker[k].add)
  <2>1. link' = link \/ link' = [link EXCEPT ![n].total = x]
    BY <1>7 DEF IncrementRaised
  <2> HIDE DEF n, x
  <2> QED  BY <1>0, <2>1 DEF LinkRow
<1>8. CASE Crash
  BY <1>0, <1>8 DEF Crash, NoLink, Opened
<1> QED  BY <1>1, <1>2, <1>3, <1>4, <1>5, <1>6, <1>7, <1>8, Moves

LEMMA OpenedStays ==
  ASSUME Types, [Next]_vars
  PROVE  \A l \in Links : Opened(l) => link'[l].st \in {"live", "deleted"}
BY StatusMoves DEF Opened

\* An invoice is given a link once, and what it counted stays as it was.
LEMMA InvoiceMoves ==
  ASSUME Types, RefInv, [Next]_vars, NEW i \in Invs
  PROVE  /\ inv[i].counted => /\ inv'[i].counted /\ inv'[i].link = inv[i].link
                              /\ inv'[i].received = inv[i].received
         /\ inv'[i].counted => inv[i].counted \/ (CountInvoice /\ i = worker["block"].cur)
         /\ inv[i].st = "confirmed" => inv'[i].st = "confirmed"
         /\ inv[i].st = "detected" =>
              \/ inv'[i].st = "detected"
              \/ Confirm /\ i \notin worker'["block"].queue
         /\ inv'[i].st # "none" =>
              \/ inv[i].st # "none" /\ inv'[i].link = inv[i].link
              \/ inv'[i].link \in Links /\ Live(inv'[i].link) /\ link' = link
<1>0. inv \in [Invs -> InvRow] /\ WorkerTypes /\ worker \in [Workers -> WorkerRow]
      /\ (inv[i].counted => inv[i].st = "confirmed") /\ "block" \in Workers
  BY DEF Types, RowTypes, RefInv, WorkerTypes, Workers
<1>1. ASSUME NEW j \in Invs, ResolveDonation(j)
      PROVE  /\ i # j => inv'[i] = inv[i]
             /\ i = j => /\ inv[i].st = "none" /\ ~inv'[i].counted
                         /\ inv'[i].link \in Links /\ Live(inv'[i].link) /\ link' = link
  <2>1. PICK l \in Links :
          /\ Live(l)
          /\ inv' = [inv EXCEPT ![j] = [inv[j] EXCEPT !.st = "pending", !.link = l,
                                                      !.addr = next, !.call = "count"]]
    BY <1>1 DEF ResolveDonation
  <2>2. inv[j].st = "none" /\ link' = link
    BY <1>1 DEF ResolveDonation
  <2>3. CASE i = j
    <3>1. inv'[i] = [inv[i] EXCEPT !.st = "pending", !.link = l, !.addr = next,
                                   !.call = "count"]
      BY <1>0, <2>1, <2>3
    <3>2. inv'[i].link = l /\ inv'[i].counted = inv[i].counted
      BY <1>0, <3>1 DEF InvRow
    <3> QED  BY <1>0, <2>1, <2>2, <2>3, <3>2
  <2>4. CASE i # j
    BY <1>0, <2>1, <2>4
  <2> QED  BY <2>3, <2>4
<1>2. ASSUME NEW j \in Invs, IncrementCreated(j) \/ TagInvoice(j)
      PROVE  /\ inv'[i].st = inv[i].st /\ inv'[i].counted = inv[i].counted
             /\ inv'[i].link = inv[i].link /\ inv'[i].received = inv[i].received
  BY <1>0, <1>2 DEF IncrementCreated, TagInvoice, InvRow
<1>3. ASSUME NEW j \in Invs, PayInvoice(j) \/ Expire(j)
      PROVE  /\ inv'[i].counted = inv[i].counted /\ inv'[i].link = inv[i].link
             /\ inv'[i] = inv[i] \/ inv[i].st = "pending"
  BY <1>0, <1>3 DEF PayInvoice, Expire, InvRow
<1>4. CASE Confirm
  <2> DEFINE w == worker["block"]
  <2>1. PICK j \in w.queue :
          /\ inv' = [inv EXCEPT ![j].st = "confirmed"]
          /\ Set("block", [w EXCEPT !.pc = "count", !.cur = j, !.queue = w.queue \ {j}])
    BY <1>4 DEF Confirm
  <2>2. inv[j].st = "detected" /\ w \in Confirming
    BY <1>0, <1>4, <2>1, Phases DEF Confirm, RefInv
  <2>3. j \notin worker'["block"].queue
    <3> HIDE DEF w
    <3>1. worker' = [worker EXCEPT !["block"] =
                       [w EXCEPT !.pc = "count", !.cur = j, !.queue = w.queue \ {j}]]
      BY <2>1 DEF Set
    <3>2. worker'["block"] = [w EXCEPT !.pc = "count", !.cur = j, !.queue = w.queue \ {j}]
      BY <1>0, <3>1
    <3> QED  BY <2>2, <3>2 DEF Confirming
  <2>4. /\ inv'[i].counted = inv[i].counted /\ inv'[i].link = inv[i].link
        /\ inv'[i].received = inv[i].received
        /\ i = j => inv'[i].st = "confirmed"
        /\ i # j => inv'[i] = inv[i]
    BY <1>0, <2>1 DEF InvRow
  <2> QED  BY <1>4, <2>2, <2>3, <2>4
<1>5. CASE CountInvoice
  <2>1. inv' = [inv EXCEPT ![worker["block"].cur].counted = TRUE]
    BY <1>5 DEF CountInvoice
  <2>2. /\ inv'[i].st = inv[i].st /\ inv'[i].link = inv[i].link
        /\ inv'[i].received = inv[i].received
        /\ i # worker["block"].cur => inv'[i].counted = inv[i].counted
        /\ inv[i].counted => inv'[i].counted
    BY <1>0, <2>1 DEF InvRow
  <2> QED  BY <1>5, <2>2
<1>6. CASE Crash
  <2>1. /\ inv'[i].st = inv[i].st /\ inv'[i].counted = inv[i].counted
        /\ inv'[i].link = inv[i].link /\ inv'[i].received = inv[i].received
    BY <1>0, <1>6 DEF Crash, InvRow
  <2> QED  BY <2>1
<1>7. CASE inv' = inv
  BY <1>7
<1> QED  BY <1>0, <1>1, <1>2, <1>3, <1>4, <1>5, <1>6, <1>7, Moves

\* Only one worker's record changes.
LEMMA SetOne ==
  ASSUME WorkerTypes, NEW j \in Workers, NEW k \in Workers, NEW w, Set(j, w)
  PROVE  worker'[k] = IF k = j THEN w ELSE worker[k]
BY DEF Set, WorkerTypes

\* A worker takes no credit in hand and no campaigns to look for.
Calm(k, w) ==
  /\ w.add = worker[k].add
  /\ w.camps \in {worker[k].camps, {}, ActiveCampaigns}
  /\ w.pc = "tx" /\ w.cur = None => w.add = None

LEMMA BlockCalm ==
  ASSUME Types, RefInv, BatchInv, Blocks, ~CountInvoice
  PROVE  Calm("block", worker'["block"])
<1> DEFINE w == worker["block"]
<1>0. /\ WorkerTypes /\ "block" \in Workers /\ Len(chain) \in Nat /\ height \in Nat
      /\ w.pc = "tx" /\ w.cur = None => w.add = None
      /\ worker \in [Workers -> WorkerRow] /\ w.tip \in Nat
  BY Phases DEF Types, Workers, NetTypes, ScanTypes, RefInv, WorkerTypes
<1>1. /\ Rest.add = None /\ Rest.camps = {} /\ Rest.pc = "idle"
      /\ Rest.cur = None
  BY DEF Rest
<1>2. CASE BlockStart
  <2> DEFINE new == [Rest EXCEPT !.pc = "confirm", !.queue = {i \in Invs : inv[i].st = "detected"},
                                 !.waiting = Pending # {}]
  <2>1. w = Rest /\ worker'["block"] = new
    BY <1>0, <1>2, Phases, SetOne DEF BlockStart
  <2>2. new.add = None /\ new.camps = {} /\ new.pc = "confirm"
    BY DEF Rest
  <2> HIDE DEF new
  <2> QED  BY <1>1, <2>1, <2>2 DEF Calm
<1>3. CASE Confirm
  <2>1. w \in Confirming
    BY <1>0, <1>3, Phases DEF Confirm
  <2>2. PICK i \in w.queue :
          Set("block", [w EXCEPT !.pc = "count", !.cur = i, !.queue = w.queue \ {i}])
    BY <1>3 DEF Confirm
  <2>3. worker'["block"] = [w EXCEPT !.pc = "count", !.cur = i, !.queue = w.queue \ {i}]
    BY <1>0, <2>2, SetOne
  <2> QED  BY <2>1, <2>3 DEF Calm, Confirming
<1>4. CASE NotADonation
  <2>1. w \in Counting
    BY <1>0, <1>4, Phases DEF NotADonation
  <2>2. worker'["block"] = ToConfirm
    BY <1>0, <1>4, SetOne DEF NotADonation
  <2> QED  BY <2>1, <2>2 DEF Calm, Counting, ToConfirm
<1>5. CASE GetHeight
  <2>1. w \in Confirming
    BY <1>0, <1>5, Phases DEF GetHeight
  <2>2. worker'["block"] = [w EXCEPT !.pc = "camps", !.tip = Len(chain)]
    BY <1>0, <1>5, SetOne DEF GetHeight
  <2> QED  BY <2>1, <2>2 DEF Calm, Confirming
<1>6. CASE ReadCampaigns
  <2>1. w \in Choosing
    BY <1>0, <1>6, Phases DEF ReadCampaigns
  <2>2. PICK camps \in {ActiveCampaigns, {}}, from \in Nat, end \in Nat :
          Set("block", Rest) \/ Set("block", BatchOf(camps, from, end))
    BY <1>6, ReadShape
  <2>3. worker'["block"] = Rest \/ worker'["block"] = BatchOf(camps, from, end)
    BY <1>0, <2>2, SetOne
  <2>4. w.add = None
    BY <2>1 DEF Choosing
  <2> QED  BY <1>1, <2>1, <2>3, <2>4, BatchShape DEF Calm
<1>7. CASE BlockTxDone
  <2>1. w \in Crediting /\ w.add = None
    BY <1>0, <1>7, Phases DEF BlockTxDone, TxDone
  <2>2. worker'["block"] = Onward("block")
    BY <1>0, <1>7, SetOne DEF BlockTxDone
  <2> QED  BY <2>1, <2>2 DEF Calm, Crediting, Onward
<1>8. CASE FetchFails \/ Checkpoint
  <2>1. w.add = None
    BY <1>0, <1>8 DEF FetchFails, Checkpoint
  <2>2. worker'["block"] = Rest
    BY <1>0, <1>8, SetOne DEF FetchFails, Checkpoint
  <2> QED  BY <1>1, <2>1, <2>2 DEF Calm
<1> QED  BY <1>2, <1>3, <1>4, <1>5, <1>6, <1>7, <1>8 DEF Blocks

LEMMA PollCalm ==
  ASSUME Types, RefInv, NEW k \in {"poll", "push"},
         PollStart \/ PollNext \/ PushStart \/ PushDone
  PROVE  Calm(k, worker'[k])
<1> DEFINE w == worker[k]
<1>0. /\ WorkerTypes /\ k \in Workers /\ "poll" \in Workers /\ "push" \in Workers
      /\ w.pc = "tx" /\ w.cur = None => w.add = None
      /\ worker \in [Workers -> WorkerRow]
  BY DEF Types, Workers, RefInv, WorkerTypes
<1>1. /\ Rest.add = None /\ Rest.camps = {} /\ Rest.pc = "idle"
      /\ Rest.cur = None
  BY DEF Rest
<1>2. \A c, q : Task(c, q).add = None /\ Task(c, q).camps = c
  BY TaskShape
<1>3. CASE worker'[k] = w
  BY <1>0, <1>3 DEF Calm
<1>4. CASE PollStart
  <2>1. PICK c \in {ActiveCampaigns, {}} : Set("poll", Task(c, mempool \ seen))
    BY <1>4, StartShapes
  <2>2. worker["poll"] = Rest
        /\ \A j \in Workers : worker'[j] =
             IF j = "poll" THEN Task(c, mempool \ seen) ELSE worker[j]
    BY <1>0, <1>4, <2>1, Phases, SetOne, StartShapes
  <2> QED  BY <1>0, <1>1, <1>2, <1>3, <2>2 DEF Calm
<1>5. CASE PushStart
  <2>1. PICK t \in mempool, c \in {ActiveCampaigns, {}} : Set("push", Task(c, {t}))
    BY <1>5, StartShapes
  <2>2. worker["push"] = Rest
        /\ \A j \in Workers : worker'[j] = IF j = "push" THEN Task(c, {t}) ELSE worker[j]
    BY <1>0, <1>5, <2>1, Phases, SetOne, StartShapes
  <2> QED  BY <1>0, <1>1, <1>2, <1>3, <2>2 DEF Calm
<1>6. CASE PollNext
  <2>1. /\ worker["poll"].add = None /\ worker["poll"].cur # None
        /\ \A j \in Workers : worker'[j] =
             IF j = "poll" THEN (IF worker["poll"].queue = {worker["poll"].cur} THEN Rest
                                 ELSE Onward("poll"))
             ELSE worker[j]
    BY <1>0, <1>6, SetOne DEF PollNext, TxDone
  <2>2. worker["poll"] \in Crediting
    BY <1>0, <2>1, Phases
  <2>3. Onward("poll").add = None /\ Onward("poll").camps = worker["poll"].camps
    BY <2>1, <2>2 DEF Onward, Crediting
  <2>4. worker'["poll"] \in {Rest, Onward("poll")} /\ (k # "poll" => worker'[k] = w)
    BY <1>0, <2>1
  <2> QED  BY <1>1, <1>3, <2>1, <2>3, <2>4 DEF Calm
<1>7. CASE PushDone
  <2>1. /\ worker["push"].add = None
        /\ \A j \in Workers : worker'[j] = IF j = "push" THEN Rest ELSE worker[j]
    BY <1>0, <1>7, SetOne DEF PushDone, TxDone
  <2> QED  BY <1>0, <1>1, <1>3, <2>1 DEF Calm
<1> QED  BY <1>4, <1>5, <1>6, <1>7

\* A donation is recorded: the row is new, and the worker owes it to the total.
Books(k, l) ==
  LET t == worker[k].cur IN
  /\ t \in Txs /\ worker[k].add = None /\ NewRow(l, t) /\ UNCHANGED <<link, inv, cut>>
  /\ row' = row \cup {<<l, t>>}
  /\ worker'[k].add = [to |-> l, zat |-> Pays[t][l], cents |-> Pays[t][l]]

\* An invoice is counted.
Counts ==
  LET i == worker["block"].cur IN
  /\ i \in Invs /\ inv[i].st = "confirmed" /\ ~inv[i].counted
  /\ UNCHANGED <<link, row, cut>> /\ inv' = [inv EXCEPT ![i].counted = TRUE]
  /\ worker["block"].add = None
  /\ worker'["block"].add = [to |-> inv[i].link, zat |-> inv[i].received, cents |-> Quoted]

LEMMA CreditMoves ==
  ASSUME Types, RefInv, NEW k \in Workers, Credit(k)
  PROVE  /\ worker'[k].camps = worker[k].camps /\ worker'[k].tip = worker[k].tip
         /\ worker'[k].pc = "tx" /\ worker'[k].cur = None => worker'[k].add = None
         /\ \/ worker'[k].add = worker[k].add /\ row' = row
            \/ (IncrementRaised(k) \/ IncrementFails(k)) /\ worker'[k].add = None
            \/ RecordDonation(k) /\ \E l \in Links : Books(k, l)
<1> DEFINE w == worker[k]
<1>0. /\ WorkerTypes /\ worker \in [Workers -> WorkerRow] /\ mempool \subseteq Txs
      /\ w.pc = "tx" /\ w.cur = None => w.add = None
  BY DEF Types, Workers, RefInv, WorkerTypes, NetTypes
<1>1. CASE Collect(k)
  <2>1. w \in Crediting
    BY <1>0, <1>1, Phases DEF Collect
  <2>2. PICK t \in w.queue : Set(k, [w EXCEPT !.cur = t,
                                              !.left = {l \in w.camps : Pays[t][l] > 0}])
    BY <1>1 DEF Collect
  <2>3. t # None /\ row' = row
    BY <1>1, <2>1, NoneAssumption DEF Crediting, Collect, rows
  <2>4. worker'[k] = [w EXCEPT !.cur = t, !.left = {l \in w.camps : Pays[t][l] > 0}]
    BY <1>0, <2>2, SetOne
  <2> HIDE DEF w
  <2>5. worker'[k].camps = w.camps /\ worker'[k].add = w.add /\ worker'[k].cur = t
        /\ worker'[k].tip = w.tip
    BY <2>1, <2>4 DEF Crediting
  <2> QED  BY <2>3, <2>5 DEF w
<1>2. CASE RecordDonation(k)
  <2>1. w \in Crediting /\ w.cur \in Txs /\ w.add = None
    <3>1. w \in Crediting
      BY <1>0, <1>2, Phases DEF RecordDonation
    <3> QED  BY <1>2, <3>1 DEF RecordDonation, Crediting
  <2>2. PICK l \in w.left :
          IF NewRow(l, w.cur)
          THEN /\ row' = row \cup {<<l, w.cur>>}
               /\ Set(k, [[w EXCEPT !.left = w.left \ {l}]
                            EXCEPT !.add = [to |-> l, zat |-> Pays[w.cur][l],
                                            cents |-> Pays[w.cur][l]]])
          ELSE row' = row /\ Set(k, [w EXCEPT !.left = w.left \ {l}])
    BY <1>2 DEF RecordDonation
  <2>3. l \in Links /\ UNCHANGED <<link, inv, cut>>
    BY <1>2, <2>1, <2>2 DEF RecordDonation, Crediting, history
  <2>4. CASE NewRow(l, w.cur)
    <3>1. worker'[k] = [[w EXCEPT !.left = w.left \ {l}]
                          EXCEPT !.add = [to |-> l, zat |-> Pays[w.cur][l],
                                          cents |-> Pays[w.cur][l]]]
      BY <1>0, <2>2, <2>4, SetOne
    <3>2. /\ worker'[k].add = [to |-> l, zat |-> Pays[w.cur][l], cents |-> Pays[w.cur][l]]
          /\ worker'[k].camps = w.camps /\ worker'[k].cur = w.cur /\ worker'[k].tip = w.tip
      <4> HIDE DEF w
      <4> QED  BY <2>1, <3>1 DEF Crediting
    <3>3. Books(k, l)
      BY <2>1, <2>2, <2>3, <2>4, <3>2 DEF Books
    <3>4. w.cur # None
      BY <2>1, NoneAssumption
    <3> QED  BY <1>2, <2>3, <3>2, <3>3, <3>4
  <2>5. CASE ~NewRow(l, w.cur)
    <3>1. worker'[k] = [w EXCEPT !.left = w.left \ {l}] /\ row' = row
      BY <1>0, <2>2, <2>5, SetOne
    <3>2. /\ worker'[k].add = w.add /\ worker'[k].camps = w.camps /\ worker'[k].cur = w.cur
          /\ worker'[k].tip = w.tip
      <4> HIDE DEF w
      <4> QED  BY <2>1, <3>1 DEF Crediting
    <3> QED  BY <2>1, <3>1, <3>2
  <2> QED  BY <2>4, <2>5
<1>3. CASE SkipDonation(k)
  <2>1. w \in Crediting /\ w.add = None /\ row' = row
    BY <1>0, <1>3, Phases DEF SkipDonation, rows
  <2>2. PICK l \in w.left : Set(k, [w EXCEPT !.left = w.left \ {l}])
    BY <1>3 DEF SkipDonation
  <2>3. worker'[k] = [w EXCEPT !.left = w.left \ {l}]
    BY <1>0, <2>2, SetOne
  <2> HIDE DEF w
  <2>4. worker'[k].add = w.add /\ worker'[k].camps = w.camps /\ worker'[k].cur = w.cur
        /\ worker'[k].tip = w.tip
    BY <2>1, <2>3 DEF Crediting
  <2> QED  BY <2>1, <2>4 DEF w
<1>4. CASE IncrementRaised(k) \/ IncrementFails(k)
  <2>1. w.add # None /\ Set(k, [w EXCEPT !.add = None])
    BY <1>4 DEF IncrementRaised, IncrementFails
  <2>2. (w \in Crediting) \/ (w \in Confirming)
    BY <1>0, <2>1, Phases
  <2>3. worker'[k] = [w EXCEPT !.add = None]
    BY <1>0, <2>1, SetOne
  <2> HIDE DEF w
  <2>4. worker'[k].add = None /\ worker'[k].camps = w.camps /\ worker'[k].tip = w.tip
    BY <2>2, <2>3 DEF Crediting, Confirming
  <2> QED  BY <1>4, <2>4 DEF w
<1> QED  BY <1>1, <1>2, <1>3, <1>4 DEF Credit

LEMMA CountMoves ==
  ASSUME Types, RefInv, CountInvoice
  PROVE  Counts /\ worker'["block"].camps = worker["block"].camps
           /\ worker'["block"].pc = "confirm"
<1> DEFINE w == worker["block"]
           i == w.cur
           a == [to |-> inv[i].link, zat |-> inv[i].received, cents |-> Quoted]
<1>0. WorkerTypes /\ "block" \in Workers
  BY DEF Types, Workers
<1>1. w \in Counting /\ i \in Invs /\ inv[i].st = "confirmed" /\ w.add = None
  BY <1>0, Phases DEF CountInvoice, Counting, RefInv
<1>2. /\ ~inv[i].counted /\ UNCHANGED <<link, row, cut>>
      /\ inv' = [inv EXCEPT ![i].counted = TRUE]
  BY DEF CountInvoice, history
<1>3. worker'["block"] = [ToConfirm EXCEPT !.add = a]
  BY <1>0, SetOne DEF CountInvoice
<1>4. ToConfirm = [w EXCEPT !.pc = "confirm", !.cur = None]
  BY DEF ToConfirm
<1>5. worker'["block"].add = a /\ worker'["block"].camps = w.camps
      /\ worker'["block"].pc = "confirm"
  <2> HIDE DEF w, a
  <2> QED  BY <1>1, <1>3, <1>4 DEF Counting
<1> QED  BY <1>1, <1>2, <1>5 DEF Counts

\* Where a step leaves what a worker owes.
LEMMA AddMoves ==
  ASSUME Types, RefInv, BatchInv, [Next]_vars, NEW k \in Workers
  PROVE  /\ worker'[k].camps \in {worker[k].camps, {}, ActiveCampaigns}
         /\ worker'[k].pc = "tx" /\ worker'[k].cur = None => worker'[k].add = None
         /\ \/ worker'[k].add = worker[k].add
            \/ (IncrementRaised(k) \/ IncrementFails(k) \/ Crash) /\ worker'[k].add = None
            \/ \E l \in Links : Books(k, l)
            \/ k = "block" /\ Counts
<1>0. /\ WorkerTypes /\ "block" \in Workers
      /\ worker[k].pc = "tx" /\ worker[k].cur = None => worker[k].add = None
  BY DEF Types, RefInv, Workers
<1>1. CASE worker'[k] = worker[k]
  BY <1>0, <1>1
<1>2. CASE Calm(k, worker'[k])
  BY <1>2 DEF Calm
<1>3. CASE Crash
  BY <1>3 DEF Crash, Rest
<1>4. ASSUME NEW j \in Workers, Credit(j) PROVE j = k \/ worker'[k] = worker[k]
  BY <1>0, <1>4, SetOne DEF Credit, Collect, RecordDonation, SkipDonation, IncrementRaised,
                            IncrementFails
<1>5. CASE Credit(k)
  BY <1>5, CreditMoves
<1>6. CASE Blocks
  <2>1. k # "block" => worker'[k] = worker[k]
    BY <1>0, <1>6, SetOne DEF Blocks, BlockStart, Confirm, CountInvoice, NotADonation,
         GetHeight, ReadCampaigns, BlockTxDone, FetchFails, Checkpoint
  <2>2. CASE CountInvoice
    BY <1>1, <2>1, <2>2, CountMoves
  <2>3. CASE ~CountInvoice
    BY <1>1, <1>2, <1>6, <2>1, <2>3, BlockCalm
  <2> QED  BY <2>2, <2>3
<1>7. CASE PollStart \/ PollNext \/ PushStart \/ PushDone
  <2>1. k = "block" => worker'[k] = worker[k]
    BY <1>0, <1>7, SetOne DEF PollStart, PollNext, PushStart, PushDone, Workers
  <2>2. k # "block" => k \in {"poll", "push"}
    BY DEF Workers
  <2> QED  BY <1>1, <1>2, <1>7, <2>1, <2>2, PollCalm
<1> QED  BY <1>1, <1>3, <1>4, <1>5, <1>6, <1>7, Moves DEF Credit

\* The invoices the block worker has before it wait for their confirmation.
LEMMA QueueMoves ==
  ASSUME Types, RefInv, BatchInv, [Next]_vars, worker'["block"].pc \in {"confirm", "count"}
  PROVE  /\ \A i \in worker'["block"].queue : i \in Invs /\ inv[i].st = "detected"
         /\ worker'["block"].pc = "count" =>
              \/ worker["block"].pc = "count" /\ worker'["block"].cur = worker["block"].cur
              \/ inv'[worker'["block"].cur].st = "confirmed"
<1> DEFINE w == worker["block"]
           new == worker'["block"]
<1>0. /\ WorkerTypes /\ "block" \in Workers /\ inv \in [Invs -> InvRow]
      /\ worker \in [Workers -> WorkerRow]
      /\ w.pc \in {"confirm", "count"} => \A i \in w.queue : i \in Invs /\ inv[i].st = "detected"
  <2>1. WorkerTypes /\ "block" \in Workers /\ inv \in [Invs -> InvRow]
        /\ worker \in [Workers -> WorkerRow]
    BY DEF Types, Workers, RowTypes, WorkerTypes
  <2>2. w.pc \in {"confirm", "count"} => w.queue \subseteq Invs
    BY <2>1, Phases DEF Confirming, Counting
  <2> QED  BY <2>1, <2>2 DEF RefInv
<1>1. CASE new.pc = w.pc /\ new.queue = w.queue /\ new.cur = w.cur
  BY <1>0, <1>1
<1>2. ASSUME NEW k \in Workers, Credit(k)
      PROVE  new.pc = w.pc /\ new.queue = w.queue /\ new.cur = w.cur
  <2>1. CASE k # "block"
    <3>1. \E v : Set(k, v)
      BY <1>2, CreditSteps
    <3>2. new = w
      BY <1>0, <2>1, <3>1, SetOne
    <3> QED  BY <3>2
  <2>2. CASE k = "block" /\ \E v \in Crediting : Set(k, v)
    <3>1. new \in Crediting
      BY <1>0, <2>2, SetOne
    <3> QED  BY <3>1 DEF Crediting
  <2>3. CASE /\ k = "block" /\ w \in Confirming
             /\ Set("block", [w EXCEPT !.add = None])
    <3>1. new = [w EXCEPT !.add = None]
      BY <1>0, <2>3, SetOne
    <3>2. new.pc = w.pc /\ new.queue = w.queue /\ new.cur = w.cur
      BY <2>3, <3>1 DEF Confirming
    <3> QED  BY <3>2
  <2> QED  BY <1>2, <2>1, <2>2, <2>3, CreditSteps
<1>3. CASE Blocks
  <2>1. CASE BlockStart
    <3>1. new = [Rest EXCEPT !.pc = "confirm", !.queue = {i \in Invs : inv[i].st = "detected"},
                             !.waiting = Pending # {}]
      BY <1>0, <2>1, SetOne DEF BlockStart
    <3>2. new.queue = {i \in Invs : inv[i].st = "detected"} /\ new.pc = "confirm"
      BY <3>1 DEF Rest
    <3> QED  BY <3>2
  <2>2. CASE Confirm
    <3>1. w \in Confirming /\ w.queue \subseteq Invs
      BY <1>0, <2>2, Phases DEF Confirm, Confirming
    <3>2. PICK i \in w.queue :
            /\ inv' = [inv EXCEPT ![i].st = "confirmed"]
            /\ Set("block", [w EXCEPT !.pc = "count", !.cur = i, !.queue = w.queue \ {i}])
      BY <2>2 DEF Confirm
    <3>3. new = [w EXCEPT !.pc = "count", !.cur = i, !.queue = w.queue \ {i}]
      BY <1>0, <3>2, SetOne
    <3>4. new.cur = i /\ new.queue = w.queue \ {i} /\ w.pc = "confirm"
      BY <3>1, <3>3 DEF Confirming
    <3>5. inv'[i].st = "confirmed"
      BY <1>0, <3>1, <3>2 DEF InvRow
    <3> QED  BY <1>0, <3>1, <3>4, <3>5
  <2>3. CASE CountInvoice \/ NotADonation
    <3>1. w \in Counting
      BY <1>0, <2>3, Phases DEF CountInvoice, NotADonation
    <3>2. ToConfirm = [w EXCEPT !.pc = "confirm", !.cur = None]
      BY DEF ToConfirm
    <3>3. new = ToConfirm \/ \E a : new = [ToConfirm EXCEPT !.add = a]
      <4>1. CASE CountInvoice
        <5>1. \E a : Set("block", [ToConfirm EXCEPT !.add = a])
          BY <4>1 DEF CountInvoice
        <5> QED  BY <1>0, <5>1, SetOne
      <4>2. CASE NotADonation
        BY <1>0, <4>2, SetOne DEF NotADonation
      <4> QED  BY <2>3, <4>1, <4>2
    <3>4. new.pc = "confirm" /\ new.queue = w.queue /\ w.pc = "count"
      BY <3>1, <3>2, <3>3 DEF Counting
    <3> QED  BY <1>0, <3>4
  <2>4. CASE GetHeight
    <3>1. w \in Confirming
      BY <1>0, <2>4, Phases DEF GetHeight
    <3>2. new = [w EXCEPT !.pc = "camps", !.tip = Len(chain)]
      BY <1>0, <2>4, SetOne DEF GetHeight
    <3>3. new.pc = "camps"
      BY <3>1, <3>2 DEF Confirming
    <3> QED  BY <3>3
  <2>5. CASE ReadCampaigns
    <3>1. w \in Choosing
      BY <2>5, ReadShape
    <3>2. PICK camps \in {ActiveCampaigns, {}}, from \in Nat, end \in Nat :
            Set("block", Rest) \/ Set("block", BatchOf(camps, from, end))
      BY <2>5, ReadShape
    <3>3. new = Rest \/ new = BatchOf(camps, from, end)
      BY <1>0, <3>2, SetOne
    <3>4. BatchOf(camps, from, end).pc = "tx" /\ Rest.pc = "idle"
      BY <3>1, BatchShape DEF Rest
    <3> QED  BY <3>3, <3>4
  <2>6. CASE BlockTxDone
    <3>1. w \in Crediting
      BY <1>0, <2>6, Phases DEF BlockTxDone
    <3>2. new = Onward("block")
      BY <1>0, <2>6, SetOne DEF BlockTxDone
    <3>3. new.pc = "tx"
      BY <3>1, <3>2 DEF Crediting, Onward
    <3> QED  BY <3>3
  <2>7. CASE FetchFails \/ Checkpoint
    <3>1. new = Rest
      BY <1>0, <2>7, SetOne DEF FetchFails, Checkpoint
    <3> QED  BY <3>1 DEF Rest
  <2> QED  BY <1>3, <2>1, <2>2, <2>3, <2>4, <2>5, <2>6, <2>7 DEF Blocks
<1>4. CASE PollStart \/ PollNext \/ PushStart \/ PushDone
  <2>1. new = w
    BY <1>0, <1>4, SetOne DEF PollStart, PollNext, PushStart, PushDone, Workers
  <2> QED  BY <1>1, <2>1
<1>5. CASE Crash
  <2>1. new = Rest
    BY <1>0, <1>5 DEF Crash
  <2> QED  BY <2>1 DEF Rest
<1>6. CASE worker' = worker
  BY <1>1, <1>6
<1> HIDE DEF new, w
<1> QED  BY <1>1, <1>2, <1>3, <1>4, <1>5, <1>6, Moves DEF Credit

LEMMA RefInvStep ==
  ASSUME Types, RefInv, BatchInv, [Next]_vars
  PROVE  RefInv'
<1>0. /\ WorkerTypes /\ "block" \in Workers
      /\ \A l \in Links : Opened(l) => Opened(l)'
      /\ \A l \in Links : Live(l) => Opened(l)'
  <2>1. \A l \in Links : Live(l) => Opened(l)
    BY DEF Live, Opened
  <2>2. \A l \in Links : Opened(l) => Opened(l)'
    BY OpenedStays DEF Opened
  <2> QED  BY <2>1, <2>2 DEF Types, Workers
<1>1. ASSUME NEW i \in Invs
      PROVE  /\ inv'[i].st # "none" => inv'[i].link \in Links /\ link'[inv'[i].link].st \in {"live", "deleted"}
             /\ inv'[i].counted => inv'[i].st = "confirmed"
  <2>1. inv'[i].st # "none" => inv'[i].link \in Links /\ link'[inv'[i].link].st \in {"live", "deleted"}
    <3>1. CASE inv[i].st # "none" /\ inv'[i].link = inv[i].link
      BY <3>1, OpenedStays DEF RefInv
    <3>2. CASE inv'[i].link \in Links /\ Live(inv'[i].link) /\ link' = link
      BY <3>2 DEF Live
    <3> QED  BY <3>1, <3>2, InvoiceMoves
  <2>2. inv'[i].counted => inv'[i].st = "confirmed"
    <3>1. CASE inv[i].counted
      BY <3>1, InvoiceMoves DEF RefInv
    <3>2. CASE CountInvoice /\ i = worker["block"].cur
      BY <3>2, InvoiceMoves, CountMoves DEF Counts
    <3> QED  BY <3>1, <3>2, InvoiceMoves
  <2> QED  BY <2>1, <2>2
<1>2. ASSUME NEW l \in Links, NEW t \in Txs, <<l, t>> \in row'
      PROVE  link'[l].st \in {"live", "deleted"}
  <2>1. CASE <<l, t>> \in row
    BY <2>1, OpenedStays DEF RefInv
  <2>2. CASE <<l, t>> \notin row
    <3>1. PICK k \in Workers : RecordDonation(k)
      BY <1>2, <2>2, Moves
    <3>2. PICK m \in Links : row' = row \cup {<<m, worker[k].cur>>} /\ Live(m)
      <4>1. row' # row
        BY <1>2, <2>2
      <4>2. CASE \E m \in Links : Books(k, m)
        BY <4>2 DEF Books, NewRow
      <4> QED  BY <3>1, <4>1, <4>2, CreditMoves DEF Credit, IncrementRaised, IncrementFails, rows
    <3>3. l = m
      BY <1>2, <2>2, <3>2
    <3>4. link' = link
      BY <3>1 DEF RecordDonation
    <3> QED  BY <3>2, <3>3, <3>4 DEF Live
  <2> QED  BY <2>1, <2>2
<1>3. ASSUME NEW k \in Workers
      PROVE  /\ worker'[k].add # None => link'[worker'[k].add.to].st \in {"live", "deleted"}
             /\ \A l \in worker'[k].camps : link'[l].st \in {"live", "deleted"}
             /\ worker'[k].pc = "tx" /\ worker'[k].cur = None => worker'[k].add = None
  <2>1. ASSUME worker'[k].add # None
        PROVE  link'[worker'[k].add.to].st \in {"live", "deleted"}
    <3>1. CASE worker'[k].add = worker[k].add
      <4>1. worker[k].add.to \in Links
        BY <1>0, <2>1, <3>1, Phases DEF Credits
      <4> QED  BY <2>1, <3>1, <4>1, OpenedStays DEF RefInv
    <3>2. CASE \E l \in Links : Books(k, l)
      <4>1. PICK l \in Links : Books(k, l)
        BY <3>2
      <4> QED  BY <4>1 DEF Books, NewRow, Live
    <3>3. CASE k = "block" /\ Counts
      <4> DEFINE i == worker["block"].cur
      <4>1. i \in Invs /\ inv[i].st = "confirmed" /\ link' = link
            /\ worker'["block"].add.to = inv[i].link
        BY <3>3 DEF Counts
      <4>2. Opened(inv[i].link)
        BY <4>1 DEF RefInv
      <4> QED  BY <3>3, <4>1, <4>2 DEF Opened
    <3> QED  BY <2>1, <3>1, <3>2, <3>3, AddMoves
  <2>2. ASSUME NEW l \in worker'[k].camps PROVE link'[l].st \in {"live", "deleted"}
    <3>1. CASE l \in worker[k].camps
      <4>1. l \in Links
        BY <1>0, <3>1, Phases
      <4> QED  BY <3>1, <4>1, OpenedStays DEF RefInv
    <3>2. CASE l \in ActiveCampaigns
      BY <1>0, <3>2 DEF ActiveCampaigns, Opened
    <3> QED  BY <3>1, <3>2, AddMoves
  <2> QED  BY <2>1, <2>2, AddMoves
<1>4. worker'["block"].pc = "count" => inv'[worker'["block"].cur].st = "confirmed"
  <2>1. SUFFICES ASSUME worker'["block"].pc = "count",
                        worker["block"].pc = "count",
                        worker'["block"].cur = worker["block"].cur
                 PROVE  inv'[worker["block"].cur].st = "confirmed"
    BY QueueMoves
  <2>2. worker["block"].cur \in Invs
    BY <1>0, <2>1, Phases DEF Counting
  <2> QED  BY <2>1, <2>2, InvoiceMoves DEF RefInv
<1>5. worker'["block"].pc \in {"confirm", "count"} =>
        \A i \in worker'["block"].queue : inv'[i].st = "detected"
  BY QueueMoves, InvoiceMoves
<1> QED  BY <1>1, <1>2, <1>3, <1>4, <1>5 DEF RefInv, Opened

LEMMA RefInvInit == Init => RefInv
<1> SUFFICES ASSUME Init PROVE RefInv
  OBVIOUS
<1>1. /\ \A i \in Invs : inv[i].st = "none" /\ ~inv[i].counted
      /\ row = {}
  BY DEF Init, NoInv
<1>2. \A k \in Workers : worker[k] = Rest
  BY DEF Init
<1>3. Rest.add = None /\ Rest.camps = {} /\ Rest.pc = "idle"
  BY DEF Rest
<1>4. "block" \in Workers
  BY DEF Workers
<1> QED  BY <1>1, <1>2, <1>3, <1>4 DEF RefInv

-----------------------------------------------------------------------------
(* What adds up.                                                           *)

LEMMA TotalMoves ==
  ASSUME Types, [Next]_vars, NEW l \in Links
  PROVE  link'[l].total = link[l].total \/ (\E k \in Workers : IncrementRaised(k)) \/ Crash
<1>0. link \in [Links -> LinkRow]
  BY DEF Types, RowTypes
<1>1. ASSUME NEW m \in Links, \/ Create(m) \/ GenerateSlug(m) \/ NumberLink(m)
                              \/ InsertLink(m) \/ Delete(m)
      PROVE  link'[l].total = link[l].total
  BY <1>0, <1>1 DEF Create, GenerateSlug, NumberLink, InsertLink, Delete, LinkRow
<1>2. ASSUME NEW i \in Invs, IncrementCreated(i) PROVE link'[l].total = link[l].total
  BY <1>0, <1>2 DEF IncrementCreated, LinkRow
<1>3. CASE UpdateWrite
  BY <1>0, <1>3 DEF UpdateWrite, Written, LinkRow
<1>4. CASE BackfillWrite
  BY <1>0, <1>4 DEF BackfillWrite, LinkRow
<1> QED  BY <1>1, <1>2, <1>3, <1>4, Moves

\* What was given, as two sums of naturals.
Direct(l) == SumFunctionOnSet([t \in Txs |-> Pays[t][l]], DonationsTo(l))
Invoiced(l) == SumFunctionOnSet([i \in Invs |-> inv[i].received], CountedFor(l))

LEMMA GivenTypes ==
  ASSUME Types, SumInv, NEW l \in Links
  PROVE  /\ Direct(l) \in Nat /\ Invoiced(l) \in Nat /\ Given(l) = Direct(l) + Invoiced(l)
         /\ IsFiniteSet(DonationsTo(l)) /\ IsFiniteSet(CountedFor(l))
<1>1. \A t \in DonationsTo(l) : [s \in Txs |-> Pays[s][l]][t] \in Nat
  BY PaysAssumption DEF DonationsTo
<1>2. \A i \in CountedFor(l) : [j \in Invs |-> inv[j].received][i] \in Nat
  BY DEF CountedFor, Types, RowTypes, InvRow
<1>3. IsFiniteSet(DonationsTo(l)) /\ IsFiniteSet(CountedFor(l))
  BY DEF SumInv
<1> QED  BY <1>1, <1>2, <1>3, SumIsNat DEF Direct, Invoiced, Given

\* Nothing is given by a step that neither records nor counts.
LEMMA DirectStays ==
  ASSUME NEW l \in Links, row' = row
  PROVE  DonationsTo(l)' = DonationsTo(l) /\ Direct(l)' = Direct(l)
<1>1. DonationsTo(l)' = DonationsTo(l)
  BY DEF DonationsTo
<1> QED  BY <1>1 DEF Direct

LEMMA InvoicedStays ==
  ASSUME Types, RefInv, SumInv, [Next]_vars, NEW l \in Links, ~CountInvoice
  PROVE  CountedFor(l)' = CountedFor(l) /\ Invoiced(l)' = Invoiced(l)
<1> DEFINE C == CountedFor(l)
           f == [i \in Invs |-> inv[i].received]
           g == [i \in Invs |-> inv'[i].received]
<1>1. CountedFor(l)' = C
  BY InvoiceMoves DEF CountedFor
<1>2. IsFiniteSet(C) /\ C \subseteq Invs
  BY DEF SumInv, CountedFor
<1>3. \A i \in C : f[i] \in Nat /\ f[i] = g[i]
  BY InvoiceMoves DEF CountedFor, Types, RowTypes, InvRow
<1> HIDE DEF C, f, g
<1>4. SumFunctionOnSet(f, C) = SumFunctionOnSet(g, C)
  BY <1>2, <1>3, SumSame
<1>5. Invoiced(l)' = SumFunctionOnSet(g, C)
  BY <1>1 DEF Invoiced, g
<1>6. Invoiced(l) = SumFunctionOnSet(f, C)
  BY DEF Invoiced, f, C
<1> QED  BY <1>1, <1>4, <1>5, <1>6 DEF C

\* A donation recorded is given to one link.
LEMMA DirectGrows ==
  ASSUME Types, SumInv, NEW k \in Workers, NEW m \in Links, Books(k, m), NEW l \in Links
  PROVE  /\ IsFiniteSet(DonationsTo(l)')
         /\ Direct(l)' = Direct(l) + (IF l = m THEN Pays[worker[k].cur][m] ELSE 0)
<1> DEFINE t == worker[k].cur
           D == DonationsTo(l)
           f == [s \in Txs |-> Pays[s][l]]
<1>1. t \in Txs /\ <<m, t>> \notin row /\ row' = row \cup {<<m, t>>} /\ IsFiniteSet(D)
      /\ Direct(l) \in Nat
  BY GivenTypes DEF Books, NewRow
<1>2. CASE l # m
  <2>1. DonationsTo(l)' = D
    BY <1>1, <1>2 DEF DonationsTo
  <2>2. Direct(l)' = Direct(l)
    BY <2>1 DEF Direct
  <2> QED  BY <1>1, <1>2, <2>1, <2>2
<1>3. CASE l = m
  <2>1. DonationsTo(l)' = D \cup {t} /\ t \notin D /\ D \subseteq Txs
    BY <1>1, <1>3 DEF DonationsTo
  <2>2. f[t] = Pays[t][l] /\ \A s \in D \cup {t} : f[s] \in Nat
    BY <1>1, <2>1, PaysAssumption
  <2> HIDE DEF D, f
  <2>3. SumFunctionOnSet(f, D \cup {t}) = SumFunctionOnSet(f, D) + f[t]
    BY <1>1, <2>1, <2>2, SumAdd
  <2>4. Direct(l)' = SumFunctionOnSet(f, D \cup {t})
    BY <2>1 DEF Direct, f
  <2>5. Direct(l) = SumFunctionOnSet(f, D)
    BY DEF Direct, f, D
  <2>6. IsFiniteSet(D \cup {t})
    BY <1>1, FS_AddElement
  <2> QED  BY <1>3, <2>1, <2>2, <2>3, <2>4, <2>5, <2>6
<1> QED  BY <1>2, <1>3

\* An invoice counted is given to one link.
LEMMA InvoicedGrows ==
  ASSUME Types, SumInv, Counts, NEW l \in Links
  PROVE  /\ IsFiniteSet(CountedFor(l)')
         /\ Invoiced(l)' = Invoiced(l) + (IF l = worker'["block"].add.to
                                          THEN worker'["block"].add.zat ELSE 0)
<1> DEFINE i == worker["block"].cur
           a == worker'["block"].add
           C == CountedFor(l)
           f == [j \in Invs |-> inv[j].received]
           g == [j \in Invs |-> inv'[j].received]
<1>0. inv \in [Invs -> InvRow]
  BY DEF Types, RowTypes
<1>1. /\ i \in Invs /\ ~inv[i].counted /\ inv' = [inv EXCEPT ![i].counted = TRUE]
      /\ a = [to |-> inv[i].link, zat |-> inv[i].received, cents |-> Quoted]
      /\ IsFiniteSet(C) /\ Invoiced(l) \in Nat
  BY GivenTypes DEF Counts
<1>2. a.to = inv[i].link /\ a.zat = inv[i].received
  BY <1>1
<1>3. \A j \in Invs : /\ inv'[j].received = inv[j].received /\ inv'[j].link = inv[j].link
                      /\ inv'[j].counted <=> inv[j].counted \/ j = i
  BY <1>0, <1>1 DEF InvRow
<1>4. f = g
  BY <1>3
<1>5. CASE l # a.to
  <2>1. CountedFor(l)' = C
    BY <1>2, <1>3, <1>5 DEF CountedFor
  <2>2. Invoiced(l)' = Invoiced(l)
    BY <1>4, <2>1 DEF Invoiced
  <2> QED  BY <1>1, <1>5, <2>1, <2>2
<1>6. CASE l = a.to
  <2>1. CountedFor(l)' = C \cup {i} /\ i \notin C /\ C \subseteq Invs
    BY <1>1, <1>2, <1>3, <1>6 DEF CountedFor
  <2>2. f[i] = a.zat /\ \A j \in C \cup {i} : f[j] \in Nat
    BY <1>0, <1>1, <1>2, <2>1 DEF InvRow
  <2>3. Invoiced(l)' = SumFunctionOnSet(f, C \cup {i})
    BY <1>4, <2>1 DEF Invoiced
  <2>4. Invoiced(l) = SumFunctionOnSet(f, C)
    BY DEF Invoiced
  <2> HIDE DEF C, f, i, a
  <2>5. SumFunctionOnSet(f, C \cup {i}) = SumFunctionOnSet(f, C) + f[i]
    BY <1>1, <2>1, <2>2, SumAdd
  <2>6. IsFiniteSet(C \cup {i})
    BY <1>1, FS_AddElement
  <2>7. Invoiced(l)' = Invoiced(l) + a.zat
    BY <2>2, <2>3, <2>4, <2>5
  <2> QED  BY <1>6, <2>1, <2>6, <2>7 DEF a
<1> QED  BY <1>5, <1>6

\* What the workers owe a link, when at most one of them owes something else
\* than before.
LEMMA OwedIs ==
  ASSUME NEW l
  PROVE  /\ OwedAll(l).zat
              = Owed("poll", l).zat + (Owed("push", l).zat + Owed("block", l).zat)
         /\ (OwedAll(l).zat)'
              = (Owed("poll", l).zat)' + ((Owed("push", l).zat)' + (Owed("block", l).zat)')
         /\ Accounted(l).zat = link[l].total.zat + (OwedAll(l).zat + cut[l].zat)
         /\ (Accounted(l).zat)' = link'[l].total.zat + ((OwedAll(l).zat)' + cut'[l].zat)
BY DEF OwedAll, Plus, Accounted

LEMMA OwedOne ==
  ASSUME WorkerTypes, WorkerTypes', NEW k \in Workers, NEW l,
         \A j \in Workers \ {k} : worker'[j].add = worker[j].add
  PROVE  /\ (OwedAll(l).zat)' + Owed(k, l).zat = OwedAll(l).zat + (Owed(k, l).zat)'
         /\ OwedAll(l).zat \in Nat /\ (OwedAll(l).zat)' \in Nat
         /\ Owed(k, l).zat \in Nat /\ (Owed(k, l).zat)' \in Nat
<1>1. \A j \in Workers \ {k} : (Owed(j, l).zat)' = Owed(j, l).zat
  BY DEF Owed
<1>2. \A j \in Workers : Owed(j, l).zat \in Nat
  BY OwedTypes
<1>3. (Owed(k, l).zat)' \in Nat
  <2>1. CASE worker'[k].add # None /\ worker'[k].add.to = l
    <3>1. worker'[k].add \in Credits
      <4>1. worker'[k] \in WorkerRow
        BY DEF WorkerTypes
      <4>2. worker'[k] = Rest => worker'[k].add = None
        BY DEF Rest
      <4> QED  BY <2>1, <4>1, <4>2 DEF WorkerRow, Resting, Crediting, Confirming, Counting,
                                       Choosing
    <3> QED  BY <2>1, <3>1 DEF Owed, Credits
  <2>2. CASE ~(worker'[k].add # None /\ worker'[k].add.to = l)
    BY <2>2 DEF Owed, Nothing
  <2> QED  BY <2>1, <2>2
<1>4. k \in {"poll", "push", "block"} /\ Workers = {"poll", "push", "block"}
  BY DEF Workers
<1>5. CASE k = "poll"
  BY <1>1, <1>2, <1>3, <1>4, <1>5, OwedIs
<1>6. CASE k = "push"
  BY <1>1, <1>2, <1>3, <1>4, <1>6, OwedIs
<1>7. CASE k = "block"
  BY <1>1, <1>2, <1>3, <1>4, <1>7, OwedIs
<1> QED  BY <1>4, <1>5, <1>6, <1>7

LEMMA OwedSame ==
  ASSUME WorkerTypes, NEW l, \A j \in Workers : worker'[j].add = worker[j].add
  PROVE  (OwedAll(l).zat)' = OwedAll(l).zat
<1>1. \A j \in Workers : (Owed(j, l).zat)' = Owed(j, l).zat
  BY DEF Owed
<1>2. "poll" \in Workers /\ "push" \in Workers /\ "block" \in Workers
  BY DEF Workers
<1> QED  BY <1>1, <1>2, OwedIs

\* Sums of naturals, once the amounts are named.
LEMMA Moved ==
  \A total, owed, was, is, other, given, more \in Nat, all \in Nat :
    /\ total + (owed + other) = given /\ all + was = owed + is /\ is = was + more
         => total + (all + other) = given + more
    /\ total + (owed + other) = given /\ all + was = owed + is /\ is = 0
         => /\ (total + was) + (all + other) = given
            /\ total + (all + (other + was)) = given
OBVIOUS

\* A link that is not deleted was not.
LEMMA NotDeleted ==
  ASSUME Types, [Next]_vars, NEW l \in Links, link'[l].st # "deleted"
  PROVE  link[l].st # "deleted"
BY StatusMoves DEF Opened

LEMMA OthersKeep ==
  ASSUME Types, NEW k \in Workers, Credit(k)
  PROVE  \A j \in Workers \ {k} : worker'[j].add = worker[j].add
<1>1. \E v : Set(k, v)
  BY CreditSteps
<1> QED  BY <1>1, SetOne DEF Types

LEMMA BlockKeeps ==
  ASSUME Types, CountInvoice
  PROVE  \A j \in Workers \ {"block"} : worker'[j].add = worker[j].add
<1>1. (\E v : Set("block", v)) /\ "block" \in Workers
  BY DEF CountInvoice, Workers
<1> QED  BY <1>1, SetOne DEF Types

\* The total of a link, case by case.
LEMMA SumBooks ==
  ASSUME Types, RefInv, SumInv, WorkerTypes', [Next]_vars, NEW l \in Links,
         NEW k \in Workers, RecordDonation(k), NEW m \in Links, Books(k, m),
         Accounted(l).zat = Given(l)
  PROVE  (Accounted(l).zat)' = Given(l)'
<1> DEFINE t == worker[k].cur
           more == IF l = m THEN Pays[t][m] ELSE 0
<1>1. more \in Nat /\ link' = link /\ cut' = cut
  BY PaysAssumption DEF Books
<1>2. (Owed(k, l).zat)' = Owed(k, l).zat + more
  <2>1. Owed(k, l).zat = 0
    BY DEF Books, Owed, Nothing
  <2>2. worker'[k].add # None
    <3>1. worker'[k].add \in Credits
      BY PaysAssumption DEF Books, Credits
    <3> QED  BY <3>1, NoneAssumption
  <2>3. (Owed(k, l).zat)' = more
    BY <2>2 DEF Books, Owed, Nothing
  <2> QED  BY <1>1, <2>1, <2>3
<1>3. /\ (OwedAll(l).zat)' + Owed(k, l).zat = OwedAll(l).zat + (Owed(k, l).zat)'
      /\ OwedAll(l).zat \in Nat /\ (OwedAll(l).zat)' \in Nat
      /\ Owed(k, l).zat \in Nat /\ (Owed(k, l).zat)' \in Nat
  BY OthersKeep, OwedOne DEF Credit, Types
<1>4. /\ Direct(l)' = Direct(l) + more /\ Invoiced(l)' = Invoiced(l)
      /\ Direct(l) \in Nat /\ Invoiced(l) \in Nat /\ Given(l) = Direct(l) + Invoiced(l)
  <2>1. ~CountInvoice
    BY DEF CountInvoice, Books, NewRow
  <2> QED  BY <2>1, DirectGrows, InvoicedStays, GivenTypes
<1>5. Given(l)' = Direct(l)' + Invoiced(l)'
  BY DEF Given, Direct, Invoiced
<1>6. link[l].total.zat \in Nat /\ cut[l].zat \in Nat
  BY DEF Types, RowTypes, LinkRow, Totals, HistoryTypes
<1>7. /\ link[l].total.zat + (OwedAll(l).zat + cut[l].zat) = Given(l)
      /\ (Accounted(l).zat)' = link[l].total.zat + ((OwedAll(l).zat)' + cut[l].zat)
  BY <1>1, OwedIs
<1> HIDE DEF more
<1>8. Given(l) \in Nat /\ Given(l)' = Given(l) + more
  BY <1>1, <1>4, <1>5
<1> QED  BY <1>1, <1>2, <1>3, <1>6, <1>7, <1>8, Moved

LEMMA SumCounts ==
  ASSUME Types, RefInv, SumInv, WorkerTypes', NEW l \in Links, CountInvoice,
         Accounted(l).zat = Given(l)
  PROVE  (Accounted(l).zat)' = Given(l)'
<1> DEFINE a == worker'["block"].add
           more == IF l = a.to THEN a.zat ELSE 0
<1>0. "block" \in Workers /\ Counts
  BY CountMoves DEF Workers
<1>1. more \in Nat /\ link' = link /\ cut' = cut /\ a # None /\ row' = row
  <2> DEFINE i == worker["block"].cur
  <2>1. /\ i \in Invs /\ a = [to |-> inv[i].link, zat |-> inv[i].received, cents |-> Quoted]
        /\ link' = link /\ cut' = cut /\ inv[i].st = "confirmed" /\ row' = row
    BY <1>0 DEF Counts
  <2>2. inv[i].link \in Links /\ inv[i].received \in Nat
    BY <2>1 DEF RefInv, Types, RowTypes, InvRow
  <2> HIDE DEF i, a
  <2>3. a \in Credits
    BY <2>1, <2>2, AmountsAssumption DEF Credits
  <2>4. a.zat \in Nat /\ a # None
    BY <2>3, NoneAssumption DEF Credits
  <2> QED  BY <2>1, <2>4 DEF a
<1>2. (Owed("block", l).zat)' = Owed("block", l).zat + more
  <2>1. Owed("block", l).zat = 0
    BY <1>0 DEF Counts, Owed, Nothing
  <2>2. (Owed("block", l).zat)' = more
    BY <1>1 DEF Owed, Nothing
  <2> QED  BY <1>1, <2>1, <2>2
<1>3. /\ (OwedAll(l).zat)' + Owed("block", l).zat = OwedAll(l).zat + (Owed("block", l).zat)'
      /\ OwedAll(l).zat \in Nat /\ (OwedAll(l).zat)' \in Nat
      /\ Owed("block", l).zat \in Nat /\ (Owed("block", l).zat)' \in Nat
  BY <1>0, BlockKeeps, OwedOne DEF Types
<1>4. /\ Direct(l)' = Direct(l) /\ Invoiced(l)' = Invoiced(l) + more
      /\ Direct(l) \in Nat /\ Invoiced(l) \in Nat /\ Given(l) = Direct(l) + Invoiced(l)
  BY <1>0, <1>1, DirectStays, InvoicedGrows, GivenTypes
<1>5. Given(l)' = Direct(l)' + Invoiced(l)'
  BY DEF Given, Direct, Invoiced
<1>6. link[l].total.zat \in Nat /\ cut[l].zat \in Nat
  BY DEF Types, RowTypes, LinkRow, Totals, HistoryTypes
<1>7. /\ link[l].total.zat + (OwedAll(l).zat + cut[l].zat) = Given(l)
      /\ (Accounted(l).zat)' = link[l].total.zat + ((OwedAll(l).zat)' + cut[l].zat)
  BY <1>1, OwedIs
<1> HIDE DEF more
<1>8. Given(l) \in Nat /\ Given(l)' = Given(l) + more
  BY <1>1, <1>4, <1>5
<1> QED  BY <1>1, <1>2, <1>3, <1>6, <1>7, <1>8, Moved

LEMMA GivenStays ==
  ASSUME Types, RefInv, SumInv, [Next]_vars, NEW l \in Links, row' = row, ~CountInvoice
  PROVE  Given(l)' = Given(l)
<1>1. Direct(l)' = Direct(l) /\ Invoiced(l)' = Invoiced(l)
  BY DirectStays, InvoicedStays
<1> QED  BY <1>1 DEF Given, Direct, Invoiced

\* What is taken out of a worker's hands goes to the total or is cut.
LEMMA SumIncrements ==
  ASSUME Types, RefInv, SumInv, WorkerTypes', [Next]_vars, NEW l \in Links,
         NEW k \in Workers, IncrementRaised(k) \/ IncrementFails(k),
         worker'[k].add = None, link[l].st # "deleted", Accounted(l).zat = Given(l)
  PROVE  (Accounted(l).zat)' = Given(l)'
<1> DEFINE a == worker[k].add
           was == Owed(k, l).zat
<1>1. a \in Credits /\ a # None
  BY Phases DEF IncrementRaised, IncrementFails, Types
<1>2. a.to \in Links /\ a.zat \in Nat /\ a.cents \in Nat
  BY <1>1 DEF Credits
<1>3. was = (IF l = a.to THEN a.zat ELSE 0) /\ (Owed(k, l).zat)' = 0
  BY <1>1 DEF Owed, Nothing
<1>4. /\ (OwedAll(l).zat)' + Owed(k, l).zat = OwedAll(l).zat + (Owed(k, l).zat)'
      /\ OwedAll(l).zat \in Nat /\ (OwedAll(l).zat)' \in Nat
      /\ Owed(k, l).zat \in Nat /\ (Owed(k, l).zat)' \in Nat
  BY OthersKeep, OwedOne DEF Credit, Types
<1>5. Given(l)' = Given(l)
  <2>1. row' = row /\ inv' = inv
    BY DEF IncrementRaised, IncrementFails, rows
  <2>2. Given(l)' = Given(l)
    BY <2>1 DEF Given, DonationsTo, CountedFor
  <2> QED  BY <2>2
<1>6. /\ link \in [Links -> LinkRow] /\ cut \in [Links -> Totals]
      /\ link[l].total.zat \in Nat /\ cut[l].zat \in Nat
  BY DEF Types, RowTypes, LinkRow, Totals, HistoryTypes
<1>7. \/ link'[l].total.zat = link[l].total.zat + was /\ cut'[l].zat = cut[l].zat
      \/ link'[l].total.zat = link[l].total.zat /\ cut'[l].zat = cut[l].zat + was
  <2>1. CASE IncrementRaised(k)
    <3>1. /\ link' = IF Live(a.to)
                     THEN [link EXCEPT ![a.to].total = Plus(link[a.to].total, a)] ELSE link
          /\ cut' = cut
      BY <2>1 DEF IncrementRaised, history
    <3>2. CASE l = a.to
      <4>1. Live(l)
        BY <1>1, <3>2 DEF RefInv, Opened, Live
      <4>2. link'[l].total = Plus(link[l].total, a)
        <5> HIDE DEF a
        <5> QED  BY <1>2, <1>6, <3>1, <3>2, <4>1 DEF LinkRow
      <4>3. link'[l].total.zat = link[l].total.zat + a.zat
        BY <4>2 DEF Plus
      <4> QED  BY <1>3, <3>1, <3>2, <4>3
    <3>3. CASE l # a.to
      <4>1. link'[l] = link[l]
        <5> HIDE DEF a
        <5> QED  BY <1>2, <1>6, <3>1, <3>3
      <4> QED  BY <1>3, <1>6, <3>1, <3>3, <4>1
    <3> QED  BY <3>2, <3>3
  <2>2. CASE IncrementFails(k)
    <3>1. link' = link /\ cut' = [cut EXCEPT ![a.to] = Plus(cut[a.to], a)]
      BY <2>2 DEF IncrementFails, rows
    <3>2. CASE l = a.to
      <4>1. cut'[l] = Plus(cut[l], a)
        <5> HIDE DEF a
        <5> QED  BY <1>2, <1>6, <3>1, <3>2
      <4>2. cut'[l].zat = cut[l].zat + a.zat
        BY <4>1 DEF Plus
      <4> QED  BY <1>3, <3>1, <3>2, <4>2
    <3>3. CASE l # a.to
      <4>1. cut'[l] = cut[l]
        <5> HIDE DEF a
        <5> QED  BY <1>2, <1>6, <3>1, <3>3
      <4> QED  BY <1>3, <1>6, <3>1, <3>3, <4>1
    <3> QED  BY <3>2, <3>3
  <2> QED  BY <2>1, <2>2
<1>8. /\ link[l].total.zat + (OwedAll(l).zat + cut[l].zat) = Given(l)
      /\ (Accounted(l).zat)' = link'[l].total.zat + ((OwedAll(l).zat)' + cut'[l].zat)
      /\ Given(l) \in Nat
  <2>1. Given(l) \in Nat
    BY GivenTypes
  <2> QED  BY <2>1, OwedIs
<1>9. was \in Nat
  BY <1>4
<1> HIDE DEF was, a
<1>10. (OwedAll(l).zat)' + was = OwedAll(l).zat + 0
  BY <1>3, <1>4 DEF was
<1> QED  BY <1>4, <1>5, <1>6, <1>7, <1>8, <1>9, <1>10, Moved

\* A crash cuts what was owed; it forgets links nothing was given to.
LEMMA SumCrash ==
  ASSUME Types, RefInv, SumInv, [Next]_vars, NEW l \in Links, Crash,
         Accounted(l).zat = Given(l)
  PROVE  (Accounted(l).zat)' = Given(l)'
<1>0. /\ link \in [Links -> LinkRow] /\ cut \in [Links -> Totals] /\ WorkerTypes
      /\ link[l].total.zat \in Nat /\ cut[l].zat \in Nat
      /\ OwedAll(l).zat \in Nat /\ OwedAll(l).cents \in Nat
  <2>1. WorkerTypes /\ OwedAll(l) \in Totals
    BY OwedTypes DEF Types
  <2> QED  BY <2>1 DEF Types, RowTypes, LinkRow, Totals, HistoryTypes
<1>1. ~CountInvoice
  BY DEF CountInvoice, Crash, Breaks, Types, HistoryTypes
<1>2. Given(l)' = Given(l)
  BY <1>1, GivenStays DEF Crash
<1>3. (OwedAll(l).zat)' = 0
  <2>1. \A k \in Workers : worker'[k] = Rest
    BY DEF Crash
  <2>2. Rest.add = None
    BY DEF Rest
  <2>3. \A k \in Workers : (Owed(k, l).zat)' = 0
    BY <2>1, <2>2 DEF Owed, Nothing
  <2>4. "poll" \in Workers /\ "push" \in Workers /\ "block" \in Workers
    BY DEF Workers
  <2> QED  BY <2>3, <2>4, OwedIs
<1>4. cut'[l].zat = cut[l].zat + OwedAll(l).zat
  <2>1. cut'[l] = Plus(cut[l], OwedAll(l))
    BY DEF Crash
  <2> QED  BY <2>1 DEF Plus
<1>5. Given(l) \in Nat
  BY GivenTypes
<1>6. link'[l].total.zat = link[l].total.zat
  <2>1. CASE link[l].st \notin {"naming", "numbering", "inserting"}
    BY <1>0, <2>1 DEF Crash
  <2>2. CASE link[l].st \in {"naming", "numbering", "inserting"}
    <3>1. DonationsTo(l) = {} /\ CountedFor(l) = {}
      BY <2>2 DEF DonationsTo, CountedFor, RefInv, Opened
    <3>2. Direct(l) = 0 /\ Invoiced(l) = 0
      BY <3>1, SumEmpty DEF Direct, Invoiced
    <3>3. Given(l) = 0
      BY <3>2, GivenTypes
    <3>4. link[l].total.zat + (OwedAll(l).zat + cut[l].zat) = 0
      BY <3>3, OwedIs
    <3>5. link[l].total.zat = 0
      BY <1>0, <3>4
    <3>6. link'[l].total.zat = 0
      <4>1. link'[l].total = Nothing
        BY <2>2 DEF Crash, NoLink
      <4> QED  BY <4>1 DEF Nothing
    <3> QED  BY <3>5, <3>6
  <2> QED  BY <2>1, <2>2
<1>7. link[l].total.zat + (OwedAll(l).zat + cut[l].zat) = Given(l)
  BY OwedIs
<1>8. (Accounted(l).zat)' = link'[l].total.zat + ((OwedAll(l).zat)' + cut'[l].zat)
  BY OwedIs
<1> QED  BY <1>0, <1>2, <1>3, <1>4, <1>5, <1>6, <1>7, <1>8

LEMMA SumInvStep ==
  ASSUME Types, RefInv, BatchInv, SumInv, WorkerTypes', [Next]_vars
  PROVE  SumInv'
<1>1. ASSUME NEW l \in Links
      PROVE  IsFiniteSet(DonationsTo(l)') /\ IsFiniteSet(CountedFor(l)')
  <2>1. IsFiniteSet(DonationsTo(l)')
    <3>1. CASE row' = row
      BY <3>1, DirectStays, GivenTypes
    <3>2. CASE row' # row
      <4>1. PICK k \in Workers : RecordDonation(k)
        BY <3>2, Moves
      <4>2. \E m \in Links : Books(k, m)
        BY <3>2, <4>1, CreditMoves DEF Credit, IncrementRaised, IncrementFails, rows
      <4> QED  BY <4>2, DirectGrows
    <3> QED  BY <3>1, <3>2
  <2>2. IsFiniteSet(CountedFor(l)')
    <3>1. CASE CountInvoice
      BY <3>1, CountMoves, InvoicedGrows
    <3>2. CASE ~CountInvoice
      BY <3>2, InvoicedStays, GivenTypes
    <3> QED  BY <3>1, <3>2
  <2> QED  BY <2>1, <2>2
<1>2. ASSUME NEW l \in Links, link'[l].st # "deleted"
      PROVE  (Accounted(l).zat)' = Given(l)'
  <2>1. link[l].st # "deleted" /\ Accounted(l).zat = Given(l)
    BY <1>2, NotDeleted DEF SumInv
  <2>2. CASE Crash
    BY <2>1, <2>2, SumCrash
  <2>3. CASE CountInvoice
    BY <2>1, <2>3, SumCounts
  <2>4. ASSUME NEW k \in Workers, IncrementRaised(k) \/ IncrementFails(k)
        PROVE  (Accounted(l).zat)' = Given(l)'
    <3>1. worker'[k].add = None
      <4>1. worker[k].add # None
        BY <2>4 DEF IncrementRaised, IncrementFails
      <4>2. row' = row
        BY <2>4 DEF IncrementRaised, IncrementFails, rows
      <4>3. \E v : v = [worker[k] EXCEPT !.add = None] /\ Set(k, v)
        BY <2>4 DEF IncrementRaised, IncrementFails
      <4>4. worker'[k] = [worker[k] EXCEPT !.add = None]
        BY <4>3, SetOne DEF Types
      <4>5. worker[k] \in Crediting \/ worker[k] \in Confirming
        BY <4>1, Phases DEF Types
      <4> QED  BY <4>4, <4>5 DEF Crediting, Confirming
    <3> QED  BY <2>1, <2>4, <3>1, SumIncrements
  <2>5. ASSUME NEW k \in Workers, RecordDonation(k), row' # row
        PROVE  (Accounted(l).zat)' = Given(l)'
    <3>1. \E m \in Links : Books(k, m)
      BY <2>5, CreditMoves DEF Credit, IncrementRaised, IncrementFails, rows
    <3> QED  BY <2>1, <2>5, <3>1, SumBooks
  <2>6. CASE /\ ~Crash /\ ~CountInvoice /\ row' = row
             /\ \A k \in Workers : ~IncrementRaised(k) /\ ~IncrementFails(k)
    <3>1. Given(l)' = Given(l)
      BY <2>6, GivenStays
    <3>2. \A k \in Workers : worker'[k].add = worker[k].add
      <4>1. ASSUME NEW k \in Workers, NEW m \in Links, Books(k, m) PROVE FALSE
        BY <2>6, <4>1 DEF Books, NewRow
      <4>2. ASSUME Counts PROVE worker'["block"].add = worker["block"].add
        <5>1. \E j \in Invs : inv'[j].counted /\ ~inv[j].counted
          BY <4>2 DEF Counts, Types, RowTypes, InvRow
        <5> QED  BY <2>6, <5>1, InvoiceMoves
      <4> QED  BY <2>6, <4>1, <4>2, AddMoves
    <3>3. (OwedAll(l).zat)' = OwedAll(l).zat
      BY <3>2, OwedSame DEF Types
    <3>4. link'[l].total = link[l].total
      BY <2>6, TotalMoves
    <3>5. cut' = cut
      BY <2>6, MoreMoves
    <3> QED  BY <2>1, <3>1, <3>3, <3>4, <3>5, OwedIs
  <2>7. row' = row \/ \E k \in Workers : RecordDonation(k)
    BY Moves
  <2> QED  BY <2>2, <2>3, <2>4, <2>5, <2>6, <2>7
<1> QED  BY <1>1, <1>2 DEF SumInv

LEMMA SumInvInit == Init => SumInv
<1> SUFFICES ASSUME Init, NEW l \in Links
             PROVE  /\ IsFiniteSet(DonationsTo(l)) /\ IsFiniteSet(CountedFor(l))
                    /\ Accounted(l).zat = Given(l)
  BY DEF SumInv
<1>1. DonationsTo(l) = {} /\ CountedFor(l) = {}
  BY DEF Init, DonationsTo, CountedFor, NoInv
<1>2. Given(l) = 0
  <2>1. Direct(l) = 0 /\ Invoiced(l) = 0
    BY <1>1, SumEmpty DEF Direct, Invoiced
  <2> QED  BY <2>1 DEF Given, Direct, Invoiced
<1>3. OwedAll(l).zat = 0
  <2>1. Rest.add = None
    BY DEF Rest
  <2>2. \A k \in Workers : Owed(k, l).zat = 0
    BY <2>1 DEF Owed, Nothing, Init
  <2> QED  BY <2>2, OwedIs DEF Workers
<1>4. link[l].total.zat = 0 /\ cut[l].zat = 0
  BY DEF Init, NoLink, Nothing
<1>5. Accounted(l).zat = 0
  BY <1>3, <1>4, OwedIs
<1> QED  BY <1>1, <1>2, <1>5, FS_EmptySet

-----------------------------------------------------------------------------
(* What is not missed.                                                     *)

\* A link that has been live keeps its address, if it has one.
LEMMA AddressStays ==
  ASSUME Types, AddrInv, [Next]_vars, NEW l \in Links, Opened(l), link[l].addr # None
  PROVE  link'[l].addr # None
<1>1. next # None /\ (fill.pc = "write" => fill.addr # None)
  BY NoneAssumption DEF Types, RowTypes, AddrInv, Given1
<1> QED  BY <1>1, AddressMoves

LEMMA MinedMoves ==
  ASSUME Types, [Next]_vars
  PROVE  /\ Len(chain) \in Nat /\ Len(chain') \in Nat /\ Len(chain) <= Len(chain')
         /\ \A h \in 1..Len(chain) : chain'[h] = chain[h] /\ chain[h] \subseteq Txs
         /\ \A h \in 1..Len(chain') : \A t \in chain'[h] : t \in mempool \/ Mined(t)
         /\ \A t \in mempool' : t \in mempool \/ Send(t)
<1>0. chain \in Seq(SUBSET Txs) /\ mempool \subseteq Txs
  BY DEF Types, NetTypes
<1>1. CASE Mine
  <2>1. PICK b \in SUBSET mempool : chain' = Append(chain, b) /\ mempool' = mempool \ b
    BY <1>1 DEF Mine
  <2>2. b \in SUBSET Txs
    BY <1>0, <2>1
  <2>3. /\ Len(chain') = Len(chain) + 1 /\ Len(chain) \in Nat
        /\ chain'[Len(chain) + 1] = b
        /\ \A h \in 1..Len(chain) : chain'[h] = chain[h] /\ chain[h] \subseteq Txs
    BY <1>0, <2>1, <2>2
  <2>4. ASSUME NEW h \in 1..Len(chain'), NEW t \in chain'[h]
        PROVE  t \in mempool \/ Mined(t)
    <3>1. h \in 1..Len(chain) \/ h = Len(chain) + 1
      BY <2>3
    <3>2. CASE h \in 1..Len(chain)
      BY <2>3, <2>4, <3>2 DEF Mined
    <3>3. CASE h = Len(chain) + 1
      BY <2>1, <2>3, <2>4, <3>3
    <3> QED  BY <3>1, <3>2, <3>3
  <2> QED  BY <2>1, <2>3, <2>4
<1>2. ASSUME chain' = chain, \A t \in mempool' : t \in mempool \/ Send(t)
      PROVE  /\ Len(chain) \in Nat /\ Len(chain') \in Nat /\ Len(chain) <= Len(chain')
             /\ \A h \in 1..Len(chain) : chain'[h] = chain[h] /\ chain[h] \subseteq Txs
             /\ \A h \in 1..Len(chain') : \A t \in chain'[h] : t \in mempool \/ Mined(t)
             /\ \A t \in mempool' : t \in mempool \/ Send(t)
  BY <1>0, <1>2 DEF Mined
<1>3. ASSUME NEW t \in Txs, Send(t)
      PROVE  chain' = chain /\ \A s \in mempool' : s \in mempool \/ Send(s)
  BY <1>3 DEF Send
<1>4. CASE UNCHANGED net
  <2>1. chain' = chain /\ mempool' = mempool
    BY <1>4 DEF net
  <2> QED  BY <1>2, <2>1
<1> QED  BY <1>1, <1>2, <1>3, <1>4, Moves

\* A link is active until a PATCH pauses it.
LEMMA ActiveMoves ==
  ASSUME Types, [Next]_vars, NEW l \in Links, l \notin idled', link'[l].st = "live",
         Live(l) => link[l].active
  PROVE  link'[l].active
<1>0. link \in [Links -> LinkRow]
  BY DEF Types, RowTypes
<1>1. CASE InsertLink(l)
  BY <1>0, <1>1 DEF InsertLink, LinkRow
<1>2. CASE ~InsertLink(l)
  <2>1. Live(l)
    BY <1>2, StatusMoves DEF Opened, Live
  <2>2. link[l].active
    BY <2>1
  <2>3. CASE UpdateWrite
    <3>1. edit.id \in Links /\ edit.active \in BOOLEAN
      BY <2>3 DEF Types, CallTypes, EditRow, UpdateWrite, Blank
    <3>2. l = edit.id => edit.active
      BY <2>3, <3>1 DEF UpdateWrite
    <3>3. link' = link \/ link' = [link EXCEPT ![edit.id] = Written]
      BY <2>3 DEF UpdateWrite
    <3>4. l # edit.id => link'[l] = link[l]
      BY <1>0, <3>1, <3>3
    <3>5. CASE l = edit.id /\ link' = [link EXCEPT ![edit.id] = Written]
      <4>1. link'[l] = [link[l] EXCEPT !.active = edit.active]
        BY <1>0, <3>1, <3>5 DEF Written
      <4> QED  BY <1>0, <3>2, <3>5, <4>1 DEF LinkRow
    <3> QED  BY <2>2, <3>3, <3>4, <3>5
  <2>4. ASSUME NEW m \in Links, Create(m) \/ GenerateSlug(m) \/ NumberLink(m) \/ Delete(m)
        PROVE  link'[l].active = link[l].active
    BY <1>0, <2>4 DEF Create, GenerateSlug, NumberLink, Delete, LinkRow
  <2>5. ASSUME NEW m \in Links, InsertLink(m) PROVE link'[l].active
    <3>1. m # l
      BY <1>2, <2>5
    <3> QED  BY <1>0, <2>2, <2>5, <3>1 DEF InsertLink, LinkRow
  <2>6. ASSUME NEW i \in Invs, IncrementCreated(i) PROVE link'[l].active = link[l].active
    BY <1>0, <2>6 DEF IncrementCreated, LinkRow
  <2>7. CASE BackfillWrite
    BY <1>0, <2>2, <2>7 DEF BackfillWrite, LinkRow
  <2>8. ASSUME NEW k \in Workers, IncrementRaised(k) PROVE link'[l].active = link[l].active
    <3> DEFINE n == worker[k].add.to
               x == Plus(link[n].total, worker[k].add)
    <3>1. link' = link \/ link' = [link EXCEPT ![n].total = x]
      BY <2>8 DEF IncrementRaised
    <3> HIDE DEF n, x
    <3> QED  BY <1>0, <3>1 DEF LinkRow
  <2>9. CASE Crash
    BY <1>0, <2>1, <2>2, <2>9 DEF Crash, Live
  <2> QED  BY <2>2, <2>3, <2>4, <2>5, <2>6, <2>7, <2>8, <2>9, Moves
<1> QED  BY <1>1, <1>2

LEMMA SentInvStep ==
  ASSUME Types, AddrInv, SentInv, [Next]_vars
  PROVE  SentInv'
<1>1. idled \subseteq idled'
  BY MoreMoves DEF UpdateWrite
<1>2. ASSUME NEW l \in Links \ idled', link'[l].st = "live" PROVE link'[l].active
  BY <1>1, <1>2, ActiveMoves DEF SentInv
<1>3. ASSUME NEW t \in Txs, NEW l \in Links, Pays[t][l] > 0,
             t \in mempool' \/ \E h \in 1..Len(chain') : t \in chain'[h]
      PROVE  link'[l].st \in {"live", "deleted"} /\ link'[l].addr # None
  <2>1. CASE t \in mempool \/ Mined(t)
    <3>1. Opened(l) /\ link[l].addr # None
      BY <1>3, <2>1 DEF SentInv
    <3> QED  BY <3>1, AddressStays, OpenedStays
  <2>2. CASE Send(t)
    BY <1>3, <2>2 DEF Send, rows, Live
  <2> QED  BY <1>3, <2>1, <2>2, MinedMoves
<1> QED  BY <1>2, <1>3 DEF SentInv, Mined, Opened, Live

LEMMA SentInvInit == Init => SentInv
<1> SUFFICES ASSUME Init PROVE SentInv
  OBVIOUS
<1>1. mempool = {} /\ \A t : ~Mined(t)
  BY DEF Init, Mined
<1>2. \A l \in Links : Live(l) => link[l].active
  BY DEF Init, Live, NoLink
<1> QED  BY <1>1, <1>2 DEF SentInv

\* What is found stays found.
FoundNext(l, t) ==
  Pays[t][l] > 0 /\ link'[l].st = "live" /\ <<l, t>> \notin spoilt' => <<l, t>> \in row'

LEMMA Grows ==
  ASSUME [Next]_vars
  PROVE  row \subseteq row' /\ spoilt \subseteq spoilt' /\ idled \subseteq idled'
BY Moves, MoreMoves DEF RecordDonation, SkipDonation, UpdateWrite, ReadCampaigns

LEMMA FoundStays ==
  ASSUME Types, SentInv, [Next]_vars, NEW l \in Links, NEW t \in Txs, Mined(t), Found(l, t)
  PROVE  FoundNext(l, t)
<1> SUFFICES ASSUME Pays[t][l] > 0, link'[l].st = "live", <<l, t>> \notin spoilt'
             PROVE  <<l, t>> \in row'
  BY DEF FoundNext
<1>1. Opened(l)
  BY DEF SentInv
<1>2. Live(l)
  BY <1>1, StatusMoves DEF Opened, Live
<1>3. <<l, t>> \in row
  BY <1>2, Grows DEF Found
<1> QED  BY <1>3, Grows

\* How the block worker goes on with a batch.
AheadNext(l, t) ==
  LET w == worker'["block"] IN
  t \in w.queue /\ l \in w.camps /\ (w.cur = t => l \in w.left)

LEMMA CreditAhead ==
  ASSUME Types, SentInv, [Next]_vars, Credit("block"), worker["block"].pc = "tx"
  PROVE  /\ worker'["block"].pc = "tx" /\ worker'["block"].tip = worker["block"].tip
         /\ \A l \in Links, t \in Txs : Ahead(l, t) /\ Mined(t) => AheadNext(l, t) \/ FoundNext(l, t)
<1> DEFINE w == worker["block"]
           new == worker'["block"]
<1>0. w \in Crediting /\ WorkerTypes /\ "block" \in Workers
  BY Phases DEF Types, Workers
<1>1. CASE Collect("block")
  <2>1. PICK s \in w.queue : Set("block", [w EXCEPT !.cur = s,
                                              !.left = {l \in w.camps : Pays[s][l] > 0}])
    BY <1>1 DEF Collect
  <2>2. new = [w EXCEPT !.cur = s, !.left = {l \in w.camps : Pays[s][l] > 0}]
    BY <1>0, <2>1, SetOne
  <2>3. /\ new.pc = "tx" /\ new.tip = w.tip /\ new.queue = w.queue /\ new.camps = w.camps
        /\ new.cur = s /\ new.left = {l \in w.camps : Pays[s][l] > 0}
    BY <1>0, <2>2 DEF Crediting
  <2>4. ASSUME NEW l \in Links, NEW t \in Txs, Ahead(l, t)
        PROVE  AheadNext(l, t) \/ FoundNext(l, t)
    BY <2>3, <2>4 DEF Ahead, AheadNext, FoundNext
  <2> QED  BY <2>3, <2>4
<1>2. CASE RecordDonation("block")
  <2>1. PICK m \in w.left :
          IF NewRow(m, w.cur)
          THEN /\ row' = row \cup {<<m, w.cur>>}
               /\ Set("block", [[w EXCEPT !.left = w.left \ {m}]
                                  EXCEPT !.add = [to |-> m, zat |-> Pays[w.cur][m],
                                                  cents |-> Pays[w.cur][m]]])
          ELSE row' = row /\ Set("block", [w EXCEPT !.left = w.left \ {m}])
    BY <1>2 DEF RecordDonation
  <2>2. /\ new.pc = "tx" /\ new.tip = w.tip /\ new.queue = w.queue /\ new.camps = w.camps
        /\ new.cur = w.cur /\ new.left = w.left \ {m}
    <3>1. [w EXCEPT !.left = w.left \ {m}] \in Crediting
      BY <1>0 DEF Crediting
    <3>2. new = [w EXCEPT !.left = w.left \ {m}]
            \/ \E a : new = [[w EXCEPT !.left = w.left \ {m}] EXCEPT !.add = a]
      <4>1. CASE NewRow(m, w.cur)
        <5>1. Set("block", [[w EXCEPT !.left = w.left \ {m}]
                              EXCEPT !.add = [to |-> m, zat |-> Pays[w.cur][m],
                                              cents |-> Pays[w.cur][m]]])
          BY <2>1, <4>1
        <5>2. new = [[w EXCEPT !.left = w.left \ {m}]
                       EXCEPT !.add = [to |-> m, zat |-> Pays[w.cur][m],
                                       cents |-> Pays[w.cur][m]]]
          BY <1>0, <5>1, SetOne
        <5> QED  BY <5>2
      <4>2. CASE ~NewRow(m, w.cur)
        <5>1. Set("block", [w EXCEPT !.left = w.left \ {m}])
          BY <2>1, <4>2
        <5> QED  BY <1>0, <5>1, SetOne
      <4> QED  BY <4>1, <4>2
    <3> HIDE DEF w
    <3> QED  BY <1>0, <3>1, <3>2 DEF Crediting
  <2>3. link' = link /\ (<<m, w.cur>> \in row' \/ ~Live(m))
    <3>1. link' = link
      BY <1>2 DEF RecordDonation
    <3>2. CASE NewRow(m, w.cur)
      BY <2>1, <3>1, <3>2
    <3>3. CASE ~NewRow(m, w.cur)
      <4>1. row' = row
        BY <2>1, <3>3
      <4> QED  BY <3>1, <3>3, <4>1 DEF NewRow
    <3> QED  BY <3>2, <3>3
  <2>4. ASSUME NEW l \in Links, NEW t \in Txs, Ahead(l, t)
        PROVE  AheadNext(l, t) \/ FoundNext(l, t)
    <3>1. CASE l = m /\ t = w.cur
      BY <2>3, <3>1 DEF FoundNext, Live
    <3>2. CASE ~(l = m /\ t = w.cur)
      BY <2>2, <2>4, <3>2 DEF Ahead, AheadNext
    <3> QED  BY <3>1, <3>2
  <2> QED  BY <2>2, <2>4
<1>3. CASE SkipDonation("block")
  <2>1. PICK m \in w.left : /\ Set("block", [w EXCEPT !.left = w.left \ {m}])
                            /\ spoilt' = spoilt \cup {<<m, w.cur>>}
    BY <1>3 DEF SkipDonation
  <2>2. new = [w EXCEPT !.left = w.left \ {m}]
    BY <1>0, <2>1, SetOne
  <2>3. /\ new.pc = "tx" /\ new.tip = w.tip /\ new.queue = w.queue /\ new.camps = w.camps
        /\ new.cur = w.cur /\ new.left = w.left \ {m}
    BY <1>0, <2>2 DEF Crediting
  <2>4. ASSUME NEW l \in Links, NEW t \in Txs, Ahead(l, t)
        PROVE  AheadNext(l, t) \/ FoundNext(l, t)
    <3>1. CASE l = m /\ t = w.cur
      BY <2>1, <3>1 DEF FoundNext
    <3>2. CASE ~(l = m /\ t = w.cur)
      BY <2>3, <2>4, <3>2 DEF Ahead, AheadNext
    <3> QED  BY <3>1, <3>2
  <2> QED  BY <2>3, <2>4
<1>4. CASE IncrementRaised("block") \/ IncrementFails("block")
  <2>1. new = [w EXCEPT !.add = None]
    BY <1>0, <1>4, SetOne DEF IncrementRaised, IncrementFails
  <2>2. /\ new.pc = "tx" /\ new.tip = w.tip /\ new.queue = w.queue /\ new.camps = w.camps
        /\ new.cur = w.cur /\ new.left = w.left
    BY <1>0, <2>1 DEF Crediting
  <2>3. \A l, t : Ahead(l, t) => AheadNext(l, t)
    BY <2>2 DEF Ahead, AheadNext
  <2> QED  BY <2>2, <2>3
<1> QED  BY <1>1, <1>2, <1>3, <1>4 DEF Credit

\* The block worker is left out of the other workers' steps.
LEMMA BlockPhases ==
  ASSUME Types, RefInv, [Next]_vars
  PROVE  \/ worker'["block"].pc \notin {"camps", "tx"}
         \/ worker'["block"] = worker["block"]
         \/ GetHeight \/ ReadCampaigns \/ BlockTxDone
         \/ Credit("block") /\ worker["block"].pc = "tx"
<1> DEFINE w == worker["block"]
           new == worker'["block"]
<1>0. WorkerTypes /\ "block" \in Workers
  BY DEF Types, Workers
<1>1. ASSUME NEW k \in Workers, Credit(k)
      PROVE  \/ new.pc \notin {"camps", "tx"} \/ new = w \/ (Credit("block") /\ w.pc = "tx")
  <2>1. CASE k # "block"
    <3>1. \E v : Set(k, v)
      BY <1>1, CreditSteps
    <3> QED  BY <1>0, <2>1, <3>1, SetOne
  <2>2. CASE k = "block" /\ w \in Crediting
    BY <1>1, <2>2 DEF Crediting
  <2>3. CASE /\ k = "block" /\ [w EXCEPT !.add = None] \in Confirming
             /\ Set(k, [w EXCEPT !.add = None])
    <3>1. new \in Confirming
      BY <1>0, <2>3, SetOne
    <3> QED  BY <3>1 DEF Confirming
  <2> QED  BY <1>1, <2>1, <2>2, <2>3, CreditSteps
<1>2. CASE PollStart \/ PollNext \/ PushStart \/ PushDone
  <2>1. new = w
    BY <1>0, <1>2, SetOne DEF PollStart, PollNext, PushStart, PushDone, Workers
  <2> QED  BY <2>1
<1>3. CASE Crash
  <2>1. new = Rest
    BY <1>0, <1>3 DEF Crash
  <2> QED  BY <2>1 DEF Rest
<1>4. CASE worker' = worker
  BY <1>4
<1>5. CASE BlockStart \/ FetchFails \/ Checkpoint
  <2>1. CASE BlockStart
    <3>1. new = [Rest EXCEPT !.pc = "confirm", !.queue = {i \in Invs : inv[i].st = "detected"},
                             !.waiting = Pending # {}]
      BY <1>0, <2>1, SetOne DEF BlockStart
    <3>2. new.pc = "confirm"
      BY <3>1 DEF Rest
    <3> QED  BY <3>2
  <2>2. CASE FetchFails \/ Checkpoint
    <3>1. new = Rest
      BY <1>0, <2>2, SetOne DEF FetchFails, Checkpoint
    <3>2. Rest.pc = "idle"
      BY DEF Rest
    <3> QED  BY <3>1, <3>2
  <2> QED  BY <1>5, <2>1, <2>2
<1>6. CASE Confirm
  <2>1. w \in Confirming
    BY <1>0, <1>6, Phases DEF Confirm
  <2>2. PICK i \in w.queue :
          Set("block", [w EXCEPT !.pc = "count", !.cur = i, !.queue = w.queue \ {i}])
    BY <1>6 DEF Confirm
  <2>3. new = [w EXCEPT !.pc = "count", !.cur = i, !.queue = w.queue \ {i}]
    BY <1>0, <2>2, SetOne
  <2>4. new.pc = "count"
    BY <2>1, <2>3 DEF Confirming
  <2> QED  BY <2>4
<1>7. CASE CountInvoice
  BY <1>7, CountMoves
<1>8. CASE NotADonation
  <2>1. w \in Counting
    BY <1>0, <1>8, Phases DEF NotADonation
  <2>2. new = ToConfirm
    BY <1>0, <1>8, SetOne DEF NotADonation
  <2>3. new.pc = "confirm"
    BY <2>1, <2>2 DEF ToConfirm, Counting
  <2> QED  BY <2>3
<1> QED  BY <1>1, <1>2, <1>3, <1>4, <1>5, <1>6, <1>7, <1>8, Moves DEF Blocks, Credit

\* A campaign that may not be missed is among those looked for.
LEMMA LookedFor ==
  ASSUME SentInv, NEW l \in Links \ idled, NEW t \in Txs, Mined(t), Pays[t][l] > 0, Live(l)
  PROVE  l \in ActiveCampaigns
BY DEF SentInv, ActiveCampaigns

LEMMA ReadMoves ==
  ASSUME Types, BatchInv, ReadCampaigns
  PROVE  LET w == worker["block"]
             new == worker'["block"] IN
         /\ w.tip \in Nat /\ w.tip <= Len(chain) /\ height <= w.tip
         /\ UNCHANGED <<link, row, chain, idled>>
         /\ \E camps \in {ActiveCampaigns, {}}, end \in Nat :
              /\ height <= end /\ end <= w.tip
              /\ spoilt' = spoilt \cup Unsought(camps, end)
              /\ \/ camps = {} /\ height' = end /\ new = Rest
                 \/ /\ height' = height /\ new.tip = end
                    /\ new.camps = camps /\ new.cur = None
                    /\ camps # {} =>
                         \A h \in (height + 1)..end : chain[h] \subseteq new.queue
<1> DEFINE w == worker["block"]
           new == worker'["block"]
<1>0. WorkerTypes /\ "block" \in Workers
  BY DEF Types, Workers
<1>1. /\ w \in Choosing /\ w.tip \in Nat /\ w.tip <= Len(chain) /\ height <= w.tip
      /\ UNCHANGED <<link, row, chain, idled>>
  BY ReadShape
<1>2. PICK camps \in {ActiveCampaigns, {}}, from \in Nat, end \in Nat :
        /\ from = height \/ camps = {}
        /\ height <= end /\ end <= w.tip
        /\ spoilt' = spoilt \cup Unsought(camps, end)
        /\ \/ camps = {} /\ height' = end /\ Set("block", Rest)
           \/ height' = height /\ Set("block", BatchOf(camps, from, end))
  BY ReadShape
<1>3. CASE camps = {} /\ height' = end /\ Set("block", Rest)
  <2>1. new = Rest
    BY <1>0, <1>3, SetOne
  <2> QED  BY <1>1, <1>2, <1>3, <2>1
<1>4. CASE height' = height /\ Set("block", BatchOf(camps, from, end))
  <2>1. new = BatchOf(camps, from, end)
    BY <1>0, <1>4, SetOne
  <2>2. /\ new.tip = end /\ new.camps = camps /\ new.cur = None
        /\ new.queue = UNION {chain[h] : h \in (from + 1)..end}
    BY <1>1, <2>1, BatchShape
  <2>3. ASSUME camps # {}, NEW h \in (height + 1)..end
        PROVE  chain[h] \subseteq new.queue
    BY <1>2, <2>2, <2>3
  <2> QED  BY <1>1, <1>2, <1>4, <2>2, <2>3
<1> QED  BY <1>2, <1>3, <1>4

\* A donation that the worker will not look for is one that nothing is said of.
LEMMA UnsoughtOrFound ==
  ASSUME SentInv, NEW camps, NEW end \in Nat, height \in Nat, Len(chain) \in Nat,
         end <= Len(chain), NEW h \in (height + 1)..end, NEW t \in chain[h], t \in Txs,
         NEW l \in Links \ idled, l \notin camps, row' = row, link' = link,
         spoilt' = spoilt \cup Unsought(camps, end)
  PROVE  FoundNext(l, t)
<1>1. SUFFICES ASSUME Pays[t][l] > 0, Live(l) PROVE <<l, t>> \in spoilt'
  BY DEF FoundNext, Live
<1>2. h \in 1..Len(chain)
  OBVIOUS
<1>3. Mined(t)
  BY <1>2 DEF Mined
<1>4. l \in ActiveCampaigns \ camps
  BY <1>1, <1>3, LookedFor
<1> DEFINE p == <<l, t>>
<1>5. p \in (ActiveCampaigns \ camps) \X Txs /\ p[1] = l /\ p[2] = t
  BY <1>4
<1> HIDE DEF p
<1>6. p \in Unsought(camps, end)
  BY <1>1, <1>5 DEF Unsought
<1> QED  BY <1>6 DEF p

\* Where the checkpoint goes.
LEMMA HeightMoves ==
  ASSUME Types, BatchInv, [Next]_vars
  PROVE  \/ height' = height
         \/ /\ UNCHANGED <<link, row, chain, idled>>
            /\ height' \in Nat /\ worker'["block"] = Rest
            /\ height <= height' /\ height' <= Len(chain)
            /\ \/ spoilt' = spoilt \cup Unsought({}, height')
               \/ /\ spoilt' = spoilt /\ height' = worker["block"].tip
                  /\ worker["block"].pc = "tx" /\ worker["block"].queue = {}
<1>0. height \in Nat /\ Len(chain) \in Nat /\ worker["block"].tip \in Nat
  BY Phases DEF Types, ScanTypes, NetTypes, Workers
<1>1. CASE ReadCampaigns
  <2>1. PICK camps \in {ActiveCampaigns, {}}, end \in Nat :
          /\ height <= end /\ end <= worker["block"].tip
          /\ spoilt' = spoilt \cup Unsought(camps, end)
          /\ (camps = {} /\ height' = end /\ worker'["block"] = Rest) \/ height' = height
    BY <1>1, ReadMoves
  <2>2. worker["block"].tip <= Len(chain) /\ UNCHANGED <<link, row, chain, idled>>
    BY <1>1, ReadMoves
  <2>3. CASE camps = {} /\ height' = end /\ worker'["block"] = Rest
    <3>1. spoilt' = spoilt \cup Unsought({}, height')
      BY <2>1, <2>3 DEF Unsought
    <3>2. height' \in Nat /\ height <= height' /\ height' <= Len(chain)
      BY <1>0, <2>1, <2>2, <2>3
    <3> QED  BY <2>2, <2>3, <3>1, <3>2
  <2> QED  BY <2>1, <2>3
<1>2. CASE Checkpoint
  <2>1. worker["block"].tip <= Len(chain) /\ height <= worker["block"].tip
    BY <1>2 DEF Checkpoint, BatchInv
  <2>2. worker'["block"] = Rest
    BY <1>2, SetOne DEF Checkpoint, Types, Workers
  <2> QED  BY <1>0, <1>2, <2>1, <2>2 DEF Checkpoint, Scanned, rows, net, history
<1> QED  BY <1>1, <1>2, MoreMoves

LEMMA NotMissedStep ==
  ASSUME Types, SentInv, BatchInv, DonationsNotMissed, [Next]_vars
  PROVE  DonationsNotMissed'
<1>0. /\ height \in Nat /\ Len(chain) \in Nat /\ height <= Len(chain)
      /\ idled \subseteq idled'
  BY Grows DEF Types, ScanTypes, NetTypes, BatchInv
<1>1. SUFFICES ASSUME NEW h \in 1..height', NEW t \in chain'[h], NEW l \in Links \ idled'
               PROVE  FoundNext(l, t)
  BY DEF DonationsNotMissed, FoundNext, Live
<1>2. CASE h \in 1..height
  <2>1. h \in 1..Len(chain)
    BY <1>0, <1>2
  <2>2. t \in chain[h] /\ t \in Txs /\ Mined(t)
    BY <2>1, MinedMoves DEF Mined
  <2>3. Found(l, t)
    BY <1>0, <1>2, <2>2 DEF DonationsNotMissed, Found
  <2> QED  BY <2>2, <2>3, FoundStays
<1>3. ASSUME height' \in Nat, chain' = chain, height' <= Len(chain), h \notin 1..height
      PROVE  /\ h \in (height + 1)..height' /\ h \in 1..Len(chain)
             /\ t \in chain[h] /\ t \in Txs /\ Mined(t)
  <2>1. h \in (height + 1)..height' /\ h \in 1..Len(chain)
    BY <1>0, <1>3
  <2> QED  BY <1>3, <2>1, MinedMoves DEF Mined
<1>4. CASE /\ spoilt' = spoilt \cup Unsought({}, height') /\ height' \in Nat
           /\ UNCHANGED <<link, row, chain, idled>> /\ height' <= Len(chain)
           /\ h \notin 1..height
  <2>1. h \in (height + 1)..height' /\ t \in chain[h] /\ t \in Txs
    BY <1>3, <1>4
  <2>2. ASSUME NEW end \in Nat, end = height' PROVE FoundNext(l, t)
    BY <1>0, <1>4, <2>1, <2>2, UnsoughtOrFound
  <2> QED  BY <1>4, <2>2
<1>5. CASE /\ height' = worker["block"].tip /\ height' \in Nat /\ chain' = chain
           /\ height' <= Len(chain) /\ h \notin 1..height
           /\ worker["block"].pc = "tx" /\ worker["block"].queue = {}
  <2>1. h \in 1..worker["block"].tip /\ t \in chain[h] /\ t \in Txs /\ Mined(t)
    BY <1>3, <1>5
  <2>2. Found(l, t)
    BY <1>0, <1>5, <2>1 DEF BatchInv, Ahead
  <2> QED  BY <2>1, <2>2, FoundStays
<1> QED  BY <1>2, <1>4, <1>5, HeightMoves

LEMMA BatchInvStep ==
  ASSUME Types, RefInv, SentInv, BatchInv, DonationsNotMissed, [Next]_vars
  PROVE  BatchInv'
<1> DEFINE w == worker["block"]
           new == worker'["block"]
<1>0. /\ WorkerTypes /\ "block" \in Workers /\ height \in Nat /\ height <= Len(chain)
      /\ idled \subseteq idled' /\ w.tip \in Nat
      /\ Len(chain) \in Nat /\ Len(chain') \in Nat /\ Len(chain) <= Len(chain')
      /\ \A h \in 1..Len(chain) : chain'[h] = chain[h] /\ chain[h] \subseteq Txs
  BY Grows, MinedMoves, Phases DEF Types, ScanTypes, BatchInv, Workers
<1>1. height' <= Len(chain')
  BY <1>0, HeightMoves
<1>2. CASE new.pc \notin {"camps", "tx"}
  BY <1>1, <1>2 DEF BatchInv
<1>3. ASSUME new.pc \in {"camps", "tx"}, height' = height, new.tip \in Nat,
             height <= new.tip, new.tip <= Len(chain),
             \A h \in 1..new.tip : \A t \in chain[h] : \A l \in Links \ idled' :
               new.pc = "tx" => FoundNext(l, t) \/ AheadNext(l, t)
      PROVE  BatchInv'
  <2>1. height' <= new.tip /\ new.tip <= Len(chain')
    BY <1>0, <1>3
  <2>2. \A h \in 1..new.tip : chain'[h] = chain[h]
    BY <1>0, <1>3
  <2>3. \A h \in 1..new.tip : \A t \in chain'[h] : \A l \in Links \ idled' :
          new.pc = "tx" => FoundNext(l, t) \/ AheadNext(l, t)
    BY <1>3, <2>2
  <2> QED  BY <1>1, <2>1, <2>3 DEF BatchInv, FoundNext, AheadNext, Found, Ahead, Live
<1>4. height' = height \/ new.pc = "idle"
  BY HeightMoves DEF Rest
<1>5. ASSUME NEW h \in 1..w.tip, w.tip <= Len(chain), NEW t \in chain[h]
      PROVE  t \in Txs /\ Mined(t)
  BY <1>0, <1>5 DEF Mined
<1>6. CASE new = w /\ new.pc \in {"camps", "tx"}
  <2>1. w.pc \in {"camps", "tx"} /\ height' = height /\ height <= w.tip /\ w.tip <= Len(chain)
    BY <1>4, <1>6 DEF BatchInv
  <2>2. ASSUME NEW h \in 1..w.tip, NEW t \in chain[h], NEW l \in Links \ idled', w.pc = "tx"
        PROVE  FoundNext(l, t) \/ AheadNext(l, t)
    <3>1. t \in Txs /\ Mined(t)
      BY <1>5, <2>1
    <3>2. Found(l, t) \/ Ahead(l, t)
      BY <1>0, <2>2 DEF BatchInv
    <3>3. Ahead(l, t) => AheadNext(l, t)
      BY <1>6 DEF Ahead, AheadNext
    <3> QED  BY <3>1, <3>2, <3>3, FoundStays
  <2> QED  BY <1>0, <1>3, <1>6, <2>1, <2>2
<1>7. CASE GetHeight
  <2>1. w \in Confirming /\ chain' = chain /\ height' = height
    BY <1>0, <1>7, Phases DEF GetHeight, net
  <2>2. new = [w EXCEPT !.pc = "camps", !.tip = Len(chain)]
    BY <1>0, <1>7, SetOne DEF GetHeight
  <2>3. new.pc = "camps" /\ new.tip = Len(chain)
    BY <2>1, <2>2 DEF Confirming
  <2> QED  BY <1>0, <1>3, <2>1, <2>3
<1>8. CASE ReadCampaigns /\ new.pc \in {"camps", "tx"}
  <2>0. Rest.pc = "idle"
    BY DEF Rest
  <2>1. PICK camps \in {ActiveCampaigns, {}}, end \in Nat :
          /\ height <= end /\ end <= w.tip
          /\ spoilt' = spoilt \cup Unsought(camps, end)
          /\ height' = height /\ new.tip = end
          /\ new.camps = camps /\ new.cur = None
          /\ camps # {} => \A h \in (height + 1)..end : chain[h] \subseteq new.queue
    BY <1>8, <2>0, ReadMoves
  <2>2. w.tip <= Len(chain) /\ end <= Len(chain) /\ UNCHANGED <<link, row>>
    BY <1>0, <1>8, <2>1, ReadMoves
  <2>3. ASSUME NEW h \in 1..end, NEW t \in chain[h], NEW l \in Links \ idled'
        PROVE  FoundNext(l, t) \/ AheadNext(l, t)
    <3>1. t \in Txs /\ Mined(t) /\ l \in Links \ idled
      BY <1>0, <1>5, <2>1, <2>2
    <3>2. CASE h \in 1..height
      <4>1. Found(l, t)
        BY <3>1, <3>2 DEF DonationsNotMissed, Found
      <4> QED  BY <3>1, <4>1, FoundStays
    <3>3. CASE h \in (height + 1)..end
      <4>1. CASE l \in camps
        <5>1. t \in new.queue /\ new.cur # t
          BY <2>1, <3>1, <3>3, <4>1, NoneAssumption
        <5> QED  BY <2>1, <4>1, <5>1 DEF AheadNext
      <4>2. CASE l \notin camps
        BY <1>0, <2>1, <2>2, <3>1, <3>3, <4>2, UnsoughtOrFound
      <4> QED  BY <4>1, <4>2
    <3>4. h \in 1..height \/ h \in (height + 1)..end
      BY <1>0
    <3> QED  BY <3>2, <3>3, <3>4
  <2> QED  BY <1>3, <1>8, <2>1, <2>2, <2>3
<1>9. CASE BlockTxDone
  <2>1. w \in Crediting /\ w.left = {} /\ chain' = chain /\ height' = height /\ w.pc = "tx"
    BY <1>0, <1>9, Phases DEF BlockTxDone, TxDone, net
  <2>2. new = [w EXCEPT !.cur = None, !.queue = w.queue \ {w.cur}]
    BY <1>0, <1>9, SetOne DEF BlockTxDone, Onward
  <2>3. /\ new.pc = "tx" /\ new.tip = w.tip /\ new.queue = w.queue \ {w.cur}
        /\ new.camps = w.camps /\ new.cur = None
    BY <2>1, <2>2 DEF Crediting
  <2>4. height <= w.tip /\ w.tip <= Len(chain)
    BY <2>1 DEF BatchInv
  <2>5. ASSUME NEW h \in 1..w.tip, NEW t \in chain[h], NEW l \in Links \ idled'
        PROVE  FoundNext(l, t) \/ AheadNext(l, t)
    <3>1. t \in Txs /\ Mined(t) /\ t # None
      BY <1>5, <2>4, NoneAssumption
    <3>2. Found(l, t) \/ Ahead(l, t)
      BY <1>0, <2>1, <2>5 DEF BatchInv
    <3>3. Ahead(l, t) => AheadNext(l, t)
      BY <2>1, <2>3, <3>1 DEF Ahead, AheadNext
    <3> QED  BY <3>1, <3>2, <3>3, FoundStays
  <2> QED  BY <1>0, <1>3, <2>1, <2>3, <2>4, <2>5
<1>10. CASE Credit("block") /\ w.pc = "tx" /\ new.pc \in {"camps", "tx"}
  <2>1. /\ new.pc = "tx" /\ new.tip = w.tip /\ height' = height
        /\ \A l \in Links, t \in Txs :
             Ahead(l, t) /\ Mined(t) => AheadNext(l, t) \/ FoundNext(l, t)
    BY <1>4, <1>10, CreditAhead
  <2>2. height <= w.tip /\ w.tip <= Len(chain)
    BY <1>10 DEF BatchInv
  <2>3. ASSUME NEW h \in 1..w.tip, NEW t \in chain[h], NEW l \in Links \ idled'
        PROVE  FoundNext(l, t) \/ AheadNext(l, t)
    <3>1. t \in Txs /\ Mined(t)
      BY <1>5, <2>2
    <3>2. Found(l, t) \/ Ahead(l, t)
      BY <1>0, <1>10, <2>3 DEF BatchInv
    <3> QED  BY <2>1, <3>1, <3>2, FoundStays
  <2> QED  BY <1>0, <1>3, <2>1, <2>2, <2>3
<1> QED  BY <1>2, <1>6, <1>7, <1>8, <1>9, <1>10, BlockPhases

LEMMA BatchInvInit == Init => BatchInv /\ DonationsNotMissed
<1> SUFFICES ASSUME Init PROVE BatchInv /\ DonationsNotMissed
  OBVIOUS
<1>1. height = 0 /\ chain = <<>> /\ worker["block"] = Rest
  BY DEF Init, Workers
<1>2. Rest.pc = "idle" /\ Len(<<>>) = 0
  BY DEF Rest
<1> QED  BY <1>1, <1>2 DEF BatchInv, DonationsNotMissed

-----------------------------------------------------------------------------
(* What is bounded.                                                        *)

LEMMA CallBoundsStep ==
  ASSUME Types, CallBounds, [Next]_vars
  PROVE  CallBounds'
<1>0. edits \in Nat /\ faults \in Nat /\ cast.edits \in Nat /\ cast.faults \in Nat
  BY CastsAssumption DEF Types, CallTypes, HistoryTypes
<1>1. cast' = cast
  BY MoreMoves
<1> USE DEF Next, OfLink, OfInvoice, Dashboard, Credit, Create, GenerateSlug, NumberLink,
           InsertLink, Delete, UpdateRead, UpdateWrite, BackfillRead, BackfillNumber,
           BackfillWrite, ResolveDonation, IncrementCreated, TagInvoice, PayInvoice, Expire,
           Send, Mine, Collect, RecordDonation, SkipDonation, IncrementRaised, IncrementFails,
           PollStart, PollNext, PushStart, PushDone, Crash, Breaks, LooksFor,
           Blocks, BlockStart, Confirm, CountInvoice, NotADonation, GetHeight,
           ReadCampaigns, BlockTxDone, FetchFails, Checkpoint,
           rows, net, scan, calls, history, vars
<1>2. edits' = edits \/ (edits < cast.edits /\ edits' = edits + 1)
  OBVIOUS
<1>3. faults' = faults \/ (faults < cast.faults /\ faults' = faults + 1)
  OBVIOUS
<1> HIDE DEF Next, OfLink, OfInvoice, Dashboard, Credit, Create, GenerateSlug, NumberLink,
            InsertLink, Delete, UpdateRead, UpdateWrite, BackfillRead, BackfillNumber,
            BackfillWrite, ResolveDonation, IncrementCreated, TagInvoice, PayInvoice, Expire,
            Send, Mine, Collect, RecordDonation, SkipDonation, IncrementRaised, IncrementFails,
            PollStart, PollNext, PushStart, PushDone, Crash, Breaks, LooksFor,
            Blocks, BlockStart, Confirm, CountInvoice, NotADonation, GetHeight,
            ReadCampaigns, BlockTxDone, FetchFails, Checkpoint,
            rows, net, scan, calls, history, vars
<1> QED  BY <1>0, <1>1, <1>2, <1>3 DEF CallBounds

LEMMA TipBoundsStep ==
  ASSUME Types, RefInv, BatchInv, TipBounds, [Next]_vars
  PROVE  TipBounds'
<1> SUFFICES ASSUME NEW k \in Workers PROVE worker'[k].tip <= Len(chain')
  BY DEF TipBounds
<1> DEFINE w == worker[k]
           new == worker'[k]
<1>0. /\ WorkerTypes /\ "block" \in Workers /\ "poll" \in Workers /\ "push" \in Workers
      /\ w.tip \in Nat /\ w.tip <= Len(chain)
      /\ Len(chain) \in Nat /\ Len(chain') \in Nat /\ Len(chain) <= Len(chain')
  BY MinedMoves, Phases DEF Types, TipBounds, Workers
<1>1. CASE new.tip = w.tip
  BY <1>0, <1>1
<1>2. CASE new.tip = 0
  BY <1>0, <1>2
<1>3. Rest.tip = 0
  BY DEF Rest
<1>4. ASSUME NEW j \in Workers, Credit(j) PROVE new.tip = w.tip
  <2>1. CASE k = j
    BY <1>4, <2>1, CreditMoves
  <2>2. CASE k # j
    <3>1. \E v : Set(j, v)
      BY <1>4, CreditSteps
    <3> QED  BY <1>0, <2>2, <3>1, SetOne
  <2> QED  BY <2>1, <2>2
<1>5. CASE Crash
  BY <1>2, <1>3, <1>5 DEF Crash
<1>6. CASE PollStart
  <2>1. PICK c \in {ActiveCampaigns, {}} : Set("poll", Task(c, mempool \ seen))
    BY <1>6, StartShapes
  <2>2. new = w \/ new = Task(c, mempool \ seen)
    BY <1>0, <2>1, SetOne
  <2> QED  BY <1>1, <1>2, <2>2, TaskShape
<1>7. CASE PushStart
  <2>1. PICK t \in mempool, c \in {ActiveCampaigns, {}} : Set("push", Task(c, {t}))
    BY <1>7, StartShapes
  <2>2. new = w \/ new = Task(c, {t})
    BY <1>0, <2>1, SetOne
  <2> QED  BY <1>1, <1>2, <2>2, TaskShape
<1>8. CASE PollNext \/ PushDone \/ FetchFails \/ Checkpoint \/ BlockTxDone
  <2>1. ASSUME NEW j \in Workers, TxDone(j) PROVE Onward(j).tip = worker[j].tip
    <3>1. worker[j] \in Crediting \/ worker[j] \in Counting
      BY <1>0, <2>1, Phases DEF TxDone
    <3> QED  BY <3>1 DEF Onward, Crediting, Counting
  <2>2. \/ new = w \/ new = Rest
        \/ (k = "poll" /\ TxDone("poll") /\ new = Onward("poll"))
        \/ (k = "block" /\ TxDone("block") /\ new = Onward("block"))
    <3>1. CASE PollNext
      <4>1. \/ Set("poll", Rest)
            \/ Set("poll", Onward("poll")) /\ TxDone("poll")
        BY <3>1 DEF PollNext
      <4> QED  BY <1>0, <4>1, SetOne
    <3>2. CASE BlockTxDone
      BY <1>0, <3>2, SetOne DEF BlockTxDone
    <3>3. CASE PushDone \/ FetchFails \/ Checkpoint
      <4>1. Set("push", Rest) \/ Set("block", Rest)
        BY <3>3 DEF PushDone, FetchFails, Checkpoint
      <4> QED  BY <1>0, <4>1, SetOne
    <3> QED  BY <1>8, <3>1, <3>2, <3>3
  <2> QED  BY <1>0, <1>1, <1>2, <1>3, <2>1, <2>2
<1>9. CASE k # "block" /\ Blocks
  <2>1. \E v : Set("block", v)
    BY <1>9 DEF Blocks, BlockStart, Confirm, CountInvoice, NotADonation, GetHeight,
                ReadCampaigns, BlockTxDone, FetchFails, Checkpoint
  <2>2. new = w
    BY <1>0, <1>9, <2>1, SetOne
  <2> QED  BY <1>1, <2>2
<1>10. CASE k = "block" /\ BlockStart
  <2>1. new = [Rest EXCEPT !.pc = "confirm", !.queue = {i \in Invs : inv[i].st = "detected"},
                           !.waiting = Pending # {}]
    BY <1>0, <1>10, SetOne DEF BlockStart
  <2>2. new.tip = 0
    BY <2>1 DEF Rest
  <2> QED  BY <1>2, <2>2
<1>11. CASE k = "block" /\ Confirm
  <2>1. w \in Confirming
    BY <1>0, <1>11, Phases DEF Confirm
  <2>2. PICK i \in w.queue :
          Set("block", [w EXCEPT !.pc = "count", !.cur = i, !.queue = w.queue \ {i}])
    BY <1>11 DEF Confirm
  <2>3. new = [w EXCEPT !.pc = "count", !.cur = i, !.queue = w.queue \ {i}]
    BY <1>0, <1>11, <2>2, SetOne
  <2>4. new.tip = w.tip
    BY <2>1, <2>3 DEF Confirming
  <2> QED  BY <1>1, <2>4
<1>12. CASE k = "block" /\ (CountInvoice \/ NotADonation)
  <2>1. w \in Counting
    BY <1>0, <1>12, Phases DEF CountInvoice, NotADonation
  <2>2. ToConfirm = [w EXCEPT !.pc = "confirm", !.cur = None]
    BY <1>12 DEF ToConfirm
  <2>3. new = ToConfirm \/ \E a : new = [ToConfirm EXCEPT !.add = a]
    <3>1. CASE CountInvoice
      <4>1. \E a : Set("block", [ToConfirm EXCEPT !.add = a])
        BY <3>1 DEF CountInvoice
      <4> QED  BY <1>0, <1>12, <4>1, SetOne
    <3>2. CASE NotADonation
      BY <1>0, <1>12, <3>2, SetOne DEF NotADonation
    <3> QED  BY <1>12, <3>1, <3>2
  <2> HIDE DEF w
  <2>4. new.tip = w.tip
    BY <2>1, <2>2, <2>3 DEF Counting
  <2> QED  BY <1>1, <2>4
<1>13. CASE k = "block" /\ GetHeight
  <2>1. w \in Confirming
    BY <1>0, <1>13, Phases DEF GetHeight
  <2>2. new = [w EXCEPT !.pc = "camps", !.tip = Len(chain)]
    BY <1>0, <1>13, SetOne DEF GetHeight
  <2>3. new.tip = Len(chain)
    BY <2>1, <2>2 DEF Confirming
  <2> QED  BY <1>0, <2>3
<1>14. CASE k = "block" /\ ReadCampaigns
  BY <1>0, <1>3, <1>14, ReadMoves
<1>15. CASE worker' = worker
  BY <1>1, <1>15
<1> HIDE DEF new, w
<1> QED  BY <1>1, <1>4, <1>5, <1>6, <1>7, <1>8, <1>9, <1>10, <1>11, <1>12, <1>13, <1>14, <1>15,
            Moves DEF Blocks, Credit

\* What an invoice received is an amount that arrives, an invoice that was not
\* made has no caller, and one that was counted as created stays so.
Joined(i) == inv[i].call \notin {"none", "count"}
LEMMA InvBoundsStep ==
  ASSUME Types, RefInv, InvBounds, [Next]_vars
  PROVE  /\ InvBounds'
         /\ \A i \in Invs : Joined(i) =>
              inv'[i].call \notin {"none", "count"} /\ inv'[i].link = inv[i].link
<1> SUFFICES ASSUME NEW i \in Invs
             PROVE  /\ inv'[i].received \in Received \cup {0}
                    /\ inv'[i].st = "none" => inv'[i].call = "none"
                    /\ Joined(i) => /\ inv'[i].call \notin {"none", "count"}
                                    /\ inv'[i].link = inv[i].link
  BY DEF InvBounds
<1>0. /\ inv \in [Invs -> InvRow] /\ WorkerTypes /\ "block" \in Workers
      /\ inv[i].received \in Received \cup {0}
      /\ inv[i].st = "none" => inv[i].call = "none"
  <2>1. inv \in [Invs -> InvRow] /\ WorkerTypes /\ "block" \in Workers
    BY DEF Types, RowTypes, Workers
  <2>2. /\ inv[i].received \in Received \cup {0}
        /\ inv[i].st = "none" => inv[i].call = "none"
    BY DEF InvBounds
  <2> QED  BY <2>1, <2>2
<1>1. ASSUME NEW j \in Invs, ResolveDonation(j)
      PROVE  \/ inv'[i] = inv[i]
             \/ /\ inv[i].st = "none" /\ inv'[i].st = "pending"
                /\ inv'[i].received = inv[i].received
  <2>1. PICK l \in Links :
          inv' = [inv EXCEPT ![j] = [inv[j] EXCEPT !.st = "pending", !.link = l,
                                                   !.addr = next, !.call = "count"]]
    BY <1>1 DEF ResolveDonation
  <2>2. inv[j].st = "none"
    BY <1>1 DEF ResolveDonation
  <2>3. CASE i = j
    <3>1. inv'[i] = [inv[i] EXCEPT !.st = "pending", !.link = l, !.addr = next,
                                   !.call = "count"]
      BY <1>0, <2>1, <2>3
    <3>2. inv'[i].st = "pending" /\ inv'[i].received = inv[i].received
      BY <1>0, <3>1 DEF InvRow
    <3> QED  BY <2>2, <2>3, <3>2
  <2>4. CASE i # j
    BY <1>0, <2>1, <2>4
  <2> QED  BY <2>3, <2>4
<1>2. ASSUME NEW j \in Invs, IncrementCreated(j) \/ TagInvoice(j)
      PROVE  /\ inv'[i].st = inv[i].st /\ inv'[i].link = inv[i].link
             /\ inv'[i].received = inv[i].received
             /\ \/ inv'[i].call = inv[i].call
                \/ inv[i].call \in {"count", "tag"} /\ inv'[i].call \in {"tag", "shown"}
  BY <1>0, <1>2 DEF IncrementCreated, TagInvoice, InvRow
<1>3. ASSUME NEW j \in Invs, Expire(j)
      PROVE  /\ inv'[i].st \in {inv[i].st, "expired"} /\ inv'[i].link = inv[i].link
             /\ inv'[i].received = inv[i].received /\ inv'[i].call = inv[i].call
  BY <1>0, <1>3 DEF Expire, InvRow
<1>4. ASSUME NEW j \in Invs, PayInvoice(j)
      PROVE  /\ inv'[i].st \in {inv[i].st, "detected"} /\ inv'[i].link = inv[i].link
             /\ inv'[i].received \in Received \cup {0} /\ inv'[i].call = inv[i].call
  <2>1. PICK r \in Received :
          inv' = [inv EXCEPT ![j].st = "detected", ![j].received = r]
    BY <1>4 DEF PayInvoice
  <2>2. CASE i = j
    BY <1>0, <2>1, <2>2 DEF InvRow
  <2>3. CASE i # j
    BY <1>0, <2>1, <2>3
  <2> QED  BY <2>2, <2>3
<1>5. CASE Confirm
  <2>1. PICK j \in worker["block"].queue : inv' = [inv EXCEPT ![j].st = "confirmed"]
    BY <1>5 DEF Confirm
  <2>2. /\ inv'[i].st \in {inv[i].st, "confirmed"} /\ inv'[i].link = inv[i].link
        /\ inv'[i].received = inv[i].received /\ inv'[i].call = inv[i].call
    BY <1>0, <2>1 DEF InvRow
  <2> QED  BY <1>0, <2>2 DEF Joined
<1>6. CASE CountInvoice
  <2>1. inv' = [inv EXCEPT ![worker["block"].cur].counted = TRUE]
    BY <1>6 DEF CountInvoice
  <2>2. /\ inv'[i].st = inv[i].st /\ inv'[i].link = inv[i].link
        /\ inv'[i].received = inv[i].received /\ inv'[i].call = inv[i].call
    BY <1>0, <2>1 DEF InvRow
  <2> QED  BY <1>0, <2>2 DEF Joined
<1>7. CASE Crash
  <2>1. /\ inv'[i].st = inv[i].st /\ inv'[i].link = inv[i].link
        /\ inv'[i].received = inv[i].received
        /\ \/ inv'[i].call = inv[i].call
           \/ inv[i].call \in {"count", "tag"} /\ inv'[i].call = "lost"
    BY <1>0, <1>7 DEF Crash, InvRow
  <2> QED  BY <1>0, <2>1 DEF Joined
<1>8. CASE inv' = inv
  BY <1>0, <1>8 DEF Joined
<1>9. ASSUME NEW j \in Invs, \/ ResolveDonation(j) \/ IncrementCreated(j) \/ TagInvoice(j)
                             \/ PayInvoice(j) \/ Expire(j)
      PROVE  /\ inv'[i].received \in Received \cup {0}
             /\ inv'[i].st = "none" => inv'[i].call = "none"
             /\ Joined(i) => /\ inv'[i].call \notin {"none", "count"}
                             /\ inv'[i].link = inv[i].link
  BY <1>0, <1>1, <1>2, <1>3, <1>4, <1>9 DEF Joined
<1> QED  BY <1>5, <1>6, <1>7, <1>8, <1>9, Moves

\* What a step does to a slug and to the count of invoices created.
LEMMA SlugMoves ==
  ASSUME Types, [Next]_vars, NEW l \in Links
  PROVE  /\ \/ link'[l].slug = link[l].slug
            \/ ~Opened(l) /\ link'[l].slug \in {0, 1}
            \/ /\ ~Opened(l) /\ SlugTaken(link[l].slug)
               /\ link'[l].slug = link[l].slug + 1
         /\ \/ link'[l].created = link[l].created \/ link'[l].created = 0
            \/ \E i \in Invs : /\ IncrementCreated(i) /\ inv[i].link = l
                               /\ link'[l].created = link[l].created + 1
<1>0. link \in [Links -> LinkRow]
  BY DEF Types, RowTypes
<1>1. ASSUME NEW m \in Links, NumberLink(m) \/ InsertLink(m) \/ Delete(m)
      PROVE  link'[l].slug = link[l].slug /\ link'[l].created = link[l].created
  BY <1>0, <1>1 DEF NumberLink, InsertLink, Delete, LinkRow
<1>2. ASSUME NEW m \in Links, Create(m)
      PROVE  /\ link'[l].slug = link[l].slug \/ (~Opened(l) /\ link'[l].slug = 1)
             /\ link'[l].created = link[l].created
  <2>1. link' = [link EXCEPT ![m].st = "naming", ![m].slug = 1] /\ link[m].st = "none"
    BY <1>2 DEF Create
  <2>2. CASE l = m
    BY <1>0, <2>1, <2>2 DEF LinkRow, Opened
  <2>3. CASE l # m
    BY <1>0, <2>1, <2>3
  <2> QED  BY <2>2, <2>3
<1>3. ASSUME NEW m \in Links, GenerateSlug(m)
      PROVE  /\ \/ link'[l].slug = link[l].slug
                \/ /\ ~Opened(l) /\ SlugTaken(link[l].slug)
                   /\ link'[l].slug = link[l].slug + 1
             /\ link'[l].created = link[l].created
  <2>1. CASE SlugTaken(link[m].slug)
    <3>1. link' = [link EXCEPT ![m].slug = link[m].slug + 1] /\ link[m].st = "naming"
      BY <1>3, <2>1 DEF GenerateSlug
    <3> QED  BY <1>0, <2>1, <3>1 DEF LinkRow, Opened
  <2>2. CASE ~SlugTaken(link[m].slug)
    <3>1. link' = [link EXCEPT ![m].st = "numbering"]
      BY <1>3, <2>2 DEF GenerateSlug
    <3> QED  BY <1>0, <3>1 DEF LinkRow
  <2> QED  BY <2>1, <2>2
<1>4. ASSUME NEW i \in Invs, IncrementCreated(i)
      PROVE  /\ link'[l].slug = link[l].slug
             /\ \/ link'[l].created = link[l].created
                \/ inv[i].link = l /\ link'[l].created = link[l].created + 1
  <2> DEFINE x == inv[i].link
  <2>1. link' = [link EXCEPT ![x].created = link[x].created + 1]
    BY <1>4 DEF IncrementCreated
  <2> HIDE DEF x
  <2>2. CASE x = l
    BY <1>0, <2>1, <2>2 DEF LinkRow, x
  <2>3. CASE x # l
    BY <1>0, <2>1, <2>3
  <2> QED  BY <2>2, <2>3
<1>5. CASE UpdateWrite
  BY <1>0, <1>5 DEF UpdateWrite, Written, LinkRow
<1>6. CASE BackfillWrite
  BY <1>0, <1>6 DEF BackfillWrite, LinkRow
<1>7. ASSUME NEW k \in Workers, IncrementRaised(k)
      PROVE  link'[l].slug = link[l].slug /\ link'[l].created = link[l].created
  <2> DEFINE n == worker[k].add.to
             x == Plus(link[n].total, worker[k].add)
  <2>1. link' = link \/ link' = [link EXCEPT ![n].total = x]
    BY <1>7 DEF IncrementRaised
  <2> HIDE DEF n, x
  <2> QED  BY <1>0, <2>1 DEF LinkRow
<1>8. CASE Crash
  <2>1. \/ link'[l] = link[l]
        \/ ~Opened(l) /\ link'[l].slug = 0 /\ link'[l].created = 0
    BY <1>8 DEF Crash, NoLink, Opened
  <2> QED  BY <2>1
<1> QED  BY <1>1, <1>2, <1>3, <1>4, <1>5, <1>6, <1>7, <1>8, Moves

LEMMA SlugBoundsStep ==
  ASSUME Types, SlugBounds, [Next]_vars
  PROVE  SlugBounds'
<1> SUFFICES ASSUME NEW l \in Links, NEW s \in 1..(link'[l].slug - 1)
             PROVE  \E m \in Links : link'[m].st \in {"live", "deleted"} /\ link'[m].slug = s
  BY DEF SlugBounds, Opened
<1>1. \A m \in Links : link[m].slug \in Nat
  BY DEF Types, RowTypes, LinkRow
<1>2. \E m \in Links : Opened(m) /\ link[m].slug = s
  <2>1. CASE s \in 1..(link[l].slug - 1)
    BY <2>1 DEF SlugBounds
  <2>2. CASE s = link[l].slug /\ SlugTaken(link[l].slug)
    BY <2>2 DEF SlugTaken, Live, Opened
  <2> QED  BY <1>1, <2>1, <2>2, SlugMoves
<1>3. \A m \in Links : Opened(m) => /\ link'[m].st \in {"live", "deleted"}
                                    /\ link'[m].slug = link[m].slug
  BY OpenedStays, SlugMoves
<1> QED  BY <1>2, <1>3

LEMMA CreatedBoundsStep ==
  ASSUME Types, RefInv, InvBounds, CreatedBounds, [Next]_vars
  PROVE  CreatedBounds'
<1> SUFFICES ASSUME NEW l \in Links
             PROVE  link'[l].created <= Cardinality((CreatedFor(l))')
  BY DEF CreatedBounds, CreatedFor
<1> DEFINE A == CreatedFor(l)
           B == {i \in Invs : inv'[i].link = l /\ inv'[i].call \notin {"none", "count"}}
<1>1. /\ (CreatedFor(l))' = B
      /\ A \subseteq B /\ A \subseteq Invs /\ B \subseteq Invs
  BY InvBoundsStep DEF CreatedFor, Joined
<1>2. /\ IsFiniteSet(A) /\ IsFiniteSet(B)
      /\ Cardinality(A) \in Nat /\ Cardinality(B) \in Nat
      /\ Cardinality(A) <= Cardinality(B)
  BY <1>1, BoundsAssumption, FS_Subset, FS_CardinalityType
<1>3. link[l].created \in Nat /\ link[l].created <= Cardinality(A)
  BY DEF Types, RowTypes, LinkRow, CreatedBounds
<1>4. CASE link'[l].created = link[l].created \/ link'[l].created = 0
  BY <1>1, <1>2, <1>3, <1>4
<1>5. ASSUME NEW i \in Invs, IncrementCreated(i), inv[i].link = l,
             link'[l].created = link[l].created + 1
      PROVE  link'[l].created <= Cardinality((CreatedFor(l))')
  <2>1. i \notin A
    BY <1>5 DEF IncrementCreated, CreatedFor
  <2>2. i \in B
    <3>1. inv' = [inv EXCEPT ![i].call = "tag"] /\ inv \in [Invs -> InvRow]
      BY <1>5 DEF IncrementCreated, Types, RowTypes
    <3>2. inv'[i].call = "tag" /\ inv'[i].link = l
      BY <1>5, <3>1 DEF InvRow
    <3> QED  BY <3>2
  <2> HIDE DEF A, B
  <2>3. A \cup {i} \in SUBSET B
    BY <1>1, <2>2
  <2>4. Cardinality(A \cup {i}) = Cardinality(A) + 1
    BY <1>2, <2>1, FS_AddElement
  <2>5. Cardinality(A \cup {i}) <= Cardinality(B)
    BY <1>2, <2>3, FS_Subset
  <2> QED  BY <1>1, <1>2, <1>3, <1>5, <2>4, <2>5
<1> HIDE DEF A, B
<1> QED  BY <1>4, <1>5, SlugMoves

LEMMA BoundsStep ==
  ASSUME Types, RefInv, BatchInv, Bounds, [Next]_vars
  PROVE  Bounds'
BY CallBoundsStep, TipBoundsStep, InvBoundsStep, SlugBoundsStep, CreatedBoundsStep DEF Bounds

LEMMA BoundsInit == Init => Bounds
<1> SUFFICES ASSUME Init PROVE Bounds
  OBVIOUS
<1>1. CallBounds
  BY CastsAssumption DEF Init, CallBounds
<1>2. TipBounds
  BY DEF Init, TipBounds, Rest
<1>3. InvBounds
  BY DEF Init, InvBounds, NoInv
<1>4. \A l \in Links : link[l].slug \in {0, 1} /\ link[l].created = 0
  BY DEF Init, NoLink
<1>5. SlugBounds
  BY <1>4 DEF SlugBounds
<1>6. CreatedBounds
  <2> SUFFICES ASSUME NEW l \in Links PROVE link[l].created <= Cardinality(CreatedFor(l))
    BY DEF CreatedBounds
  <2>1. CreatedFor(l) \in SUBSET Invs
    BY DEF CreatedFor
  <2>2. Cardinality(CreatedFor(l)) \in Nat
    BY <2>1, BoundsAssumption, FS_Subset, FS_CardinalityType
  <2> QED  BY <1>4, <2>2
<1> QED  BY <1>1, <1>2, <1>3, <1>5, <1>6 DEF Bounds

-----------------------------------------------------------------------------
(* The theorems.                                                           *)

LEMMA IInvInit == Init => IInv
BY TypesInit, AddrInvInit, RefInvInit, SumInvInit, SentInvInit, BatchInvInit, BoundsInit
   DEF IInv

LEMMA IInvStep == IInv /\ [Next]_vars => IInv'
<1> SUFFICES ASSUME IInv, [Next]_vars PROVE IInv'
  OBVIOUS
<1>0. /\ Types /\ AddrInv /\ RefInv /\ SumInv /\ SentInv /\ BatchInv
      /\ DonationsNotMissed /\ Bounds
  BY DEF IInv
<1>1. Types'
  BY <1>0, TypesStep
<1>2. AddrInv' /\ RefInv' /\ SentInv'
  BY <1>0, AddrInvStep, RefInvStep, SentInvStep
<1>3. SumInv'
  BY <1>0, <1>1, SumInvStep DEF Types
<1>4. BatchInv' /\ DonationsNotMissed'
  BY <1>0, BatchInvStep, NotMissedStep
<1>5. Bounds'
  BY <1>0, BoundsStep
<1> QED  BY <1>1, <1>2, <1>3, <1>4, <1>5 DEF IInv

LEMMA SpecIInv == Spec => []IInv
<1>1. Init => IInv
  BY IInvInit
<1>2. IInv /\ [Next]_vars => IInv'
  BY IInvStep
<1> QED  BY <1>1, <1>2, PTL DEF Spec

\* Each suffix up to a link's own is some link's: there are no more suffixes
\* than links.
LEMMA SlugsFit ==
  ASSUME Types, SlugBounds, NEW l \in Links
  PROVE  link[l].slug \in 0..Cardinality(Links)
<1> DEFINE n == link[l].slug
           f == [s \in 1..n |-> CHOOSE m \in Links : link[m].slug = s]
<1>1. n \in Nat /\ IsFiniteSet(Links) /\ Cardinality(Links) \in Nat
  BY BoundsAssumption, FS_CardinalityType DEF Types, RowTypes, LinkRow
<1>2. \A s \in 1..n : \E m \in Links : link[m].slug = s
  <2> SUFFICES ASSUME NEW s \in 1..n PROVE \E m \in Links : link[m].slug = s
    OBVIOUS
  <2>1. CASE s = n
    BY <2>1
  <2>2. CASE s # n
    <3>1. s \in 1..(n - 1)
      BY <1>1, <2>2
    <3> QED  BY <3>1 DEF SlugBounds
  <2> QED  BY <2>1, <2>2
<1>3. \A s \in 1..n : f[s] \in Links /\ link[f[s]].slug = s
  BY <1>2
<1>4. f \in Injection(1..n, Links)
  <2>1. f \in [1..n -> Links]
    BY <1>3
  <2>2. \A s, r \in 1..n : f[s] = f[r] => s = r
    BY <1>3
  <2> HIDE DEF f
  <2> QED  BY <2>1, <2>2 DEF Injection, IsInjective
<1>5. Cardinality(1..n) <= Cardinality(Links)
  <2> HIDE DEF f
  <2> QED  BY <1>1, <1>4, FS_Injection
<1>6. Cardinality(1..n) = n
  <2>1. 1 \in Int /\ n \in Int
    BY <1>1
  <2>2. Cardinality(1..n) = IF 1 > n THEN 0 ELSE n - 1 + 1
    BY <2>1, FS_Interval
  <2>3. n = IF 1 > n THEN 0 ELSE n - 1 + 1
    BY <1>1
  <2> HIDE DEF n
  <2> QED  BY <2>2, <2>3
<1> HIDE DEF f, n
<1>7. n \in 0..Cardinality(Links)
  BY <1>1, <1>5, <1>6
<1> QED  BY <1>7 DEF n

LEMMA TypeOKHolds == IInv => TypeOK
<1> SUFFICES ASSUME IInv PROVE TypeOK
  OBVIOUS
<1>0. Types /\ BatchInv /\ Bounds
  BY DEF IInv
<1>1. link \in [Links ->
       [st : {"none", "naming", "numbering", "inserting", "live", "refused", "deleted"},
        slug : 0..Cardinality(Links), addr : Nat \cup {None}, active : BOOLEAN,
        created : 0..Cardinality(Invs), total : Totals]]
  <2>1. link \in [Links -> LinkRow]
    BY <1>0 DEF Types, RowTypes
  <2>2. ASSUME NEW l \in Links
        PROVE  /\ link[l].slug \in 0..Cardinality(Links)
               /\ link[l].created \in 0..Cardinality(Invs)
    <3>1. link[l].slug \in 0..Cardinality(Links)
      BY <1>0, SlugsFit DEF Bounds
    <3>2. CreatedFor(l) \in SUBSET Invs
      BY DEF CreatedFor
    <3>3. /\ Cardinality(CreatedFor(l)) \in Nat /\ Cardinality(Invs) \in Nat
          /\ Cardinality(CreatedFor(l)) <= Cardinality(Invs)
      BY <3>2, BoundsAssumption, FS_Subset, FS_CardinalityType
    <3>4. link[l].created \in Nat /\ link[l].created <= Cardinality(CreatedFor(l))
      BY <1>0, <2>1 DEF LinkRow, Bounds, CreatedBounds
    <3> QED  BY <3>1, <3>3, <3>4
  <2> QED  BY <2>1, <2>2 DEF LinkRow
<1>2. inv \in [Invs ->
       [st : {"none", "pending", "detected", "confirmed", "expired"},
        link : Links \cup {None}, addr : Nat \cup {None},
        call : {"none", "count", "tag", "shown", "lost"},
        donation : BOOLEAN, counted : BOOLEAN, received : Received \cup {0}]]
  BY <1>0 DEF Types, RowTypes, Bounds, InvBounds, InvRow
<1>3. height \in 0..Len(chain) /\ Len(chain) \in Nat
  BY <1>0 DEF Types, NetTypes, ScanTypes, BatchInv
<1>4. ASSUME NEW k \in Workers
      PROVE  /\ worker[k].pc \in {"idle", "tx", "confirm", "count", "camps"}
             /\ worker[k].camps \subseteq Links /\ worker[k].left \subseteq Links
             /\ worker[k].queue \subseteq Txs \cup Invs
             /\ worker[k].cur \in Txs \cup Invs \cup {None}
             /\ worker[k].tip \in 0..Len(chain) /\ worker[k].add \in Credits \cup {None}
  <2> DEFINE w == worker[k]
  <2>1. w \in WorkerRow /\ w.tip <= Len(chain)
    BY <1>0 DEF Types, WorkerTypes, Bounds, TipBounds
  <2> HIDE DEF w
  <2>2. /\ w.pc \in {"idle", "tx", "confirm", "count", "camps"}
        /\ w.camps \subseteq Links /\ w.left \subseteq Links
        /\ w.queue \subseteq Txs \cup Invs
        /\ w.cur \in Txs \cup Invs \cup {None}
        /\ w.tip \in 0..Len(chain) /\ w.add \in Credits \cup {None}
    <3>1. CASE w \in Resting
      BY <1>3, <3>1 DEF Resting, Rest
    <3>2. CASE w \in Crediting
      BY <1>3, <2>1, <3>2 DEF Crediting
    <3>3. CASE w \in Confirming
      BY <1>3, <2>1, <3>3 DEF Confirming
    <3>4. CASE w \in Counting
      BY <1>3, <2>1, <3>4 DEF Counting
    <3>5. CASE w \in Choosing
      BY <1>3, <2>1, <3>5 DEF Choosing
    <3> QED  BY <2>1, <3>1, <3>2, <3>3, <3>4, <3>5 DEF WorkerRow
  <2> QED  BY <2>2 DEF w
<1>5. edit.pc \in {"idle", "write"} /\ fill.pc \in {"idle", "next", "write"}
  BY <1>0 DEF Types, CallTypes, EditRow, FillRow, Blank
<1>6. edits \in 0..cast.edits /\ faults \in 0..cast.faults
  BY <1>0, CastsAssumption DEF Types, CallTypes, HistoryTypes, Bounds, CallBounds
<1>7. /\ next \in Nat /\ row \subseteq Links \X Txs
      /\ mempool \subseteq Txs /\ chain \in Seq(SUBSET Txs) /\ seen \subseteq Txs
      /\ cast \in Casts /\ cut \in [Links -> Totals]
      /\ spoilt \subseteq Links \X Txs /\ idled \subseteq Links
  BY <1>0 DEF Types, RowTypes, NetTypes, ScanTypes, HistoryTypes
<1> QED  BY <1>1, <1>2, <1>3, <1>4, <1>5, <1>6, <1>7 DEF TypeOK

\* Every column and every worker's local holds a value of its type: no slug
\* suffix goes beyond the number of campaigns (generate_donation_slug), no
\* campaign counts more invoices than were made, and no worker's batch ends
\* beyond the chain, for any number of campaigns, invoices and transactions.
THEOREM TypeCorrect == Spec => []TypeOK
<1>1. IInv => TypeOK
  BY TypeOKHolds
<1> QED  BY <1>1, SpecIInv, PTL

\* No two campaigns or invoices are ever given the same address, whoever asks
\* for a diversifier index at the same time and whatever restarts: creating a
\* campaign, a donor's invoice and the operator's backfill all take the next one.
THEOREM OneAddressOneOwner == Spec => []OneOwner
<1>1. IInv => OneOwner
  BY DEF IInv, AddrInv
<1> QED  BY <1>1, SpecIInv, PTL

\* The zatoshis of every live campaign are what was given to it, each direct
\* donation and each counted invoice once, with what a worker is about to add
\* and what an interrupted one never did, however the poll, the push and the
\* block scan interleave and whatever the dashboard writes back.
THEOREM TotalsAreGiven == Spec => []TotalsAddUp
<1>1. IInv => TotalsAddUp
  BY DEF IInv, SumInv, TotalsAddUp, Live
<1> QED  BY <1>1, SpecIInv, PTL

\* The checkpoint of the block scan never passes a direct donation to a
\* campaign that was never paused without putting it on record, unless the
\* worker gave its credit up: campaigns made during a batch, restarts and
\* failed fetches lose none, for any batch size and any chain.
THEOREM NoDonationMissed == Spec => []DonationsNotMissed
<1>1. IInv => DonationsNotMissed
  BY DEF IInv
<1> QED  BY <1>1, SpecIInv, PTL
=============================================================================
