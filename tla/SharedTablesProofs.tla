-------------------------- MODULE SharedTablesProofs --------------------------
(***************************************************************************)
(* For every set of files, loaders and runs, and whatever rules and tools  *)
(* do meanwhile: rows refer to the rows they should, completed loads are   *)
(* whole, incidents are found, alerts justified and scored, and answers    *)
(* true.                                                                   *)
(*                                                                         *)
(* TablesInv: a number belongs to one row because a sequence assigns it    *)
(* and is only restarted when the rows are gone; what a loader read of a   *)
(* table holds until it has inserted, because TRUNCATE cannot get past a   *)
(* table that a loader has read, nor a loader past one TRUNCATE has.       *)
(* LoadsInv: until the next reset rows are only added, so what a load has  *)
(* got through stays whole.  PaymentsInv: payments are added in the order  *)
(* of their numbers.                                                       *)
(*                                                                         *)
(* Over these, AlertsInv and ScoresInv: what a rule found goes on to be    *)
(* found in more data, so candidates in hand stay good until a reset.      *)
(* CallInv: what a tool holds is true of the files, links for good and     *)
(* payments until a reset.  RunsInv and UsersInv are about types.          *)
(***************************************************************************)
EXTENDS SharedTables, CommonLemmas

(* An INSERT has finitely many lines. *)
LEMMA LinesAreFinite ==
    ASSUME NEW n \in Nat, NEW rows, DOMAIN rows \subseteq 1..n
    PROVE  IsFiniteSet(DOMAIN rows)
<1>1. IsFiniteSet(1..n)
  BY FS_Interval
<1>2. DOMAIN rows \in SUBSET (1..n)
  OBVIOUS
<1>3. QED BY <1>1, <1>2, FS_Subset

(* The lines of an INSERT are numbered from one, in order. *)
LEMMA PositionsCount ==
    ASSUME NEW n \in Nat, NEW rows, DOMAIN rows \subseteq 1..n
    PROVE  /\ Count(rows) \in Nat
           /\ \A i \in DOMAIN rows : Position(rows, i) \in 1..Count(rows)
           /\ \A i, j \in DOMAIN rows : Position(rows, i) = Position(rows, j) => i = j
<1> DEFINE Upto(i) == {j \in DOMAIN rows : j <= i}
<1>1. IsFiniteSet(DOMAIN rows)
  BY LinesAreFinite
<1>2. Count(rows) \in Nat
  BY <1>1, FS_CardinalityType DEF Count
<1>3. ASSUME NEW i \in DOMAIN rows
      PROVE  IsFiniteSet(Upto(i)) /\ Cardinality(Upto(i)) \in 1..Count(rows)
  <2>1. Upto(i) \subseteq DOMAIN rows /\ i \in Upto(i)
    OBVIOUS
  <2>2. IsFiniteSet(Upto(i)) /\ Cardinality(Upto(i)) <= Count(rows)
    BY <1>1, <2>1, FS_Subset DEF Count
  <2>3. Cardinality(Upto(i)) \in Nat /\ Cardinality(Upto(i)) # 0
    BY <2>1, <2>2, FS_CardinalityType, FS_EmptySet
  <2>4. QED BY <1>2, <2>2, <2>3
<1>4. ASSUME NEW i \in DOMAIN rows, NEW j \in DOMAIN rows, i < j
      PROVE  Cardinality(Upto(i)) # Cardinality(Upto(j))
  <2>1. Upto(i) \subseteq Upto(j) /\ j \in Upto(j) /\ j \notin Upto(i)
    BY <1>4
  <2>2. QED BY <1>3, <2>1, FS_Subset
<1>5. \A i, j \in DOMAIN rows : Position(rows, i) = Position(rows, j) => i = j
  <2>1. \A i, j \in DOMAIN rows : i < j \/ j < i \/ i = j
    OBVIOUS
  <2>2. QED BY <1>4, <2>1 DEF Position
<1>6. QED BY <1>2, <1>3, <1>5 DEF Position

(* Adding the rows of an INSERT keeps numbers unique. *)
LEMMA StoredNumbersAreUnique ==
    ASSUME NEW n \in Nat, NEW rows, DOMAIN rows \subseteq 1..n,
           \A i \in DOMAIN rows : {"id", "ref"} \subseteq DOMAIN rows[i],
           NEW table, NEW upto \in Nat, NumbersAreUnique(table, upto)
    PROVE  NumbersAreUnique(table \cup Stored(rows, upto), upto + Count(rows))
<1>1. ASSUME NEW row \in Stored(rows, upto)
      PROVE  \E i \in DOMAIN rows :
               row.id = upto + Position(rows, i) /\ row.ref = rows[i].ref
  BY DEF Stored
<1>2. \A row \in Stored(rows, upto) : row.id \in (upto + 1)..(upto + Count(rows))
  BY <1>1, PositionsCount
<1>3. \A row, other \in Stored(rows, upto) : row.id = other.id => row.ref = other.ref
  BY <1>1, PositionsCount
<1>4. Count(rows) \in Nat
  BY PositionsCount
<1>5. QED BY <1>2, <1>3, <1>4 DEF NumbersAreUnique

(* A sequence only moves forward, also when the INSERT fails. *)
LEMMA AssignedIsNat ==
    ASSUME NEW n \in Nat, NEW rows, DOMAIN rows \subseteq 1..n, NEW table
    PROVE  Assigned(rows, table) \in Nat
<1>1. \A i : IsFiniteSet({j \in DOMAIN rows : j <= i})
  BY LinesAreFinite, FS_Subset, \A i : {j \in DOMAIN rows : j <= i} \in SUBSET DOMAIN rows
<1>2. \A i : Position(rows, i) \in Nat
  BY <1>1, FS_CardinalityType DEF Position
<1>3. QED BY <1>2, PositionsCount DEF Assigned

(* A sequence that is ahead of its table keeps numbers unique. *)
LEMMA LaterUpto ==
    ASSUME NEW table, NEW upto \in Nat, NEW later \in Nat,
           NumbersAreUnique(table, upto), upto <= later
    PROVE  NumbersAreUnique(table, later)
BY DEF NumbersAreUnique

(* The number of a reference is that of one of its rows. *)
LEMMA NumberOfLeads ==
    ASSUME NEW table
    PROVE  DOMAIN NumberOf(table) = Refs(table) /\ Leads(NumberOf(table), table)
<1>1. \A ref \in Refs(table) : \E row \in table : row.ref = ref
  BY DEF Refs
<1>2. QED BY <1>1 DEF NumberOf, Leads

(* The lines of a file are numbered from one. *)
LEMMA LinesOfFile ==
    ASSUME TablesInv, NEW l \in Loaders, stage[l] # "idle"
    PROVE  /\ run[l].file \in files /\ run[l].file \in Files
           /\ Len(run[l].file.accounts) \in Nat
           /\ DOMAIN run[l].file.accounts = 1..Len(run[l].file.accounts)
           /\ \A i \in DOMAIN run[l].file.accounts :
                run[l].file.accounts[i] \in AccountRefs(run[l].file)
           /\ Len(run[l].file.transactions) \in Nat
           /\ DOMAIN run[l].file.transactions = 1..Len(run[l].file.transactions)
           /\ \A i \in DOMAIN run[l].file.transactions :
                run[l].file.transactions[i] \in CsvRows(run[l].file)
<1>1. run[l].file \in files /\ run[l].file \in Files
  BY DEF TablesInv, LoaderInv, Files
<1>2. /\ run[l].file.accounts \in Seq(AccountRefs(run[l].file))
      /\ run[l].file.transactions \in Seq(CsvRows(run[l].file))
  BY <1>1, IngestionAssumption
<1>3. QED BY <1>1, <1>2

-----------------------------------------------------------------------------
(* What the assignments to a field of a run leave of the other ones. *)
LEMMA AssignSince ==
    ASSUME NEW r, IsRun(r), NEW v, NEW s, s = [r EXCEPT !.since = v]
    PROVE  IsRun(s) /\ s.file = r.file /\ s.since = v
BY DEF IsRun

LEMMA AssignNumber ==
    ASSUME NEW r, IsRun(r), NEW v, NEW s, s = [r EXCEPT !.number = v]
    PROVE  IsRun(s) /\ s.file = r.file /\ s.since = r.since /\ s.number = v /\ s.loaded = r.loaded
BY DEF IsRun

LEMMA CountCustomers ==
    ASSUME NEW r, IsRun(r), NEW v, NEW s, s = [r EXCEPT !.loaded.customers = v]
    PROVE  IsRun(s) /\ s.file = r.file /\ s.since = r.since /\ s.loaded.customers = v
BY DEF IsRun

LEMMA CountAccounts ==
    ASSUME NEW r, IsRun(r), NEW v, NEW s, s = [r EXCEPT !.loaded.accounts = v]
    PROVE  /\ IsRun(s) /\ s.file = r.file /\ s.since = r.since
           /\ s.loaded.customers = r.loaded.customers /\ s.loaded.accounts = v
BY DEF IsRun

LEMMA CountTransactions ==
    ASSUME NEW r, IsRun(r), NEW v, NEW s, s = [r EXCEPT !.loaded.transactions = v]
    PROVE  /\ IsRun(s) /\ s.file = r.file /\ s.since = r.since
           /\ s.loaded.customers = r.loaded.customers
           /\ s.loaded.accounts = r.loaded.accounts /\ s.loaded.transactions = v
BY DEF IsRun

(* What a loader knows stays so when rows are added by another. *)
LEMMA OthersKeep ==
    ASSUME NEW other, LoaderInv(other), stage'[other] = stage[other],
           run'[other] = run[other], files' = files,
           customers \subseteq customers', accounts \subseteq accounts'
    PROVE  LoaderInv(other)'
BY DEF LoaderInv, Leads

(* TablesInv holds when the tables are empty and nobody loads. *)
LEMMA InitTablesInv == ASSUME Init PROVE TablesInv
<1>1. /\ customers = {} /\ accounts = {} /\ transactions = {} /\ files \in Sources
      /\ last \in [customers : Nat, accounts : Nat, transactions : Nat]
  BY DEF Init
<1>2. stage \in [Loaders -> Stages] /\ DOMAIN run = Loaders
  BY DEF Init, Stages
<1>3. ASSUME NEW l \in Loaders PROVE LoaderInv(l)
  <2>1. stage[l] = "idle" /\ run[l] = NoRun
    BY DEF Init
  <2>2. QED BY <2>1 DEF LoaderInv, IsRun, NoRun
<1>4. LocksInv
  BY DEF Init, LocksInv, Exclusive
<1>5. QED BY <1>1, <1>2, <1>3, <1>4 DEF TablesInv, NumbersAreUnique, RowsInv

(* A loader that takes a table as it is free, coming from the stage where it has the
   tables before, or that takes none, keeps the locks apart. *)
LEMMA MovingOnKeepsLocks ==
    ASSUME TablesInv, NEW l \in Loaders, NEW to \in Stages, Goto(l, to),
           \/ to \notin {"reset_accounts", "reset_customers", "accounts", "transactions"}
           \/ Free(l) /\ <<stage[l], to>> \in
                {<<"reset", "reset_accounts">>, <<"reset_accounts", "reset_customers">>,
                 <<"read_customers", "accounts">>, <<"read_accounts", "transactions">>}
    PROVE  LocksInv'
<1>1. /\ stage'[l] = to
      /\ \A other \in Loaders : other # l => stage'[other] = stage[other]
  BY DEF Goto, TablesInv
<1>2. \A other \in Loaders \ {l} : /\ Exclusive(other)' = Exclusive(other)
                                   /\ Shared(other)' = Shared(other)
  BY <1>1 DEF Exclusive, Shared
<1>3. \A i, j \in Loaders : i # j => Exclusive(i) \cap (Exclusive(j) \cup Shared(j)) = {}
  BY DEF TablesInv, LocksInv
<1>4. ASSUME NEW other \in Loaders \ {l}
      PROVE  /\ Exclusive(l)' \cap (Exclusive(other) \cup Shared(other)) = {}
             /\ Exclusive(other) \cap (Exclusive(l)' \cup Shared(l)') = {}
  <2>1. CASE to \notin {"reset_accounts", "reset_customers", "accounts", "transactions"}
    BY <1>1, <2>1 DEF Exclusive, Shared
  <2>2. ASSUME Free(l)
        PROVE  /\ Needs(l) \notin Exclusive(other)
               /\ stage[l] \in Resets => Needs(l) \notin Shared(other)
    BY <2>2 DEF Free, WaitsFor
  <2>3. CASE Free(l) /\ stage[l] = "reset" /\ to = "reset_accounts"
    <3>1. Needs(l) = "transactions" /\ stage[l] \in Resets
      BY <2>3 DEF Needs, Resets
    <3>2. Exclusive(l)' = {"transactions"} /\ Shared(l)' = {}
      BY <1>1, <2>3 DEF Exclusive, Shared
    <3>3. QED BY <2>2, <2>3, <3>1, <3>2
  <2>4. CASE Free(l) /\ stage[l] = "reset_accounts" /\ to = "reset_customers"
    <3>1. Needs(l) = "accounts" /\ stage[l] \in Resets /\ Exclusive(l) = {"transactions"}
      BY <2>4 DEF Needs, Resets, Exclusive
    <3>2. Exclusive(l)' = {"transactions", "accounts"} /\ Shared(l)' = {}
      BY <1>1, <2>4 DEF Exclusive, Shared
    <3>3. QED BY <1>3, <2>2, <2>4, <3>1, <3>2
  <2>5. CASE Free(l) /\ stage[l] = "read_customers" /\ to = "accounts"
    <3>1. Needs(l) = "customers"
      BY <2>5 DEF Needs
    <3>2. Exclusive(l)' = {} /\ Shared(l)' = {"customers"}
      BY <1>1, <2>5 DEF Exclusive, Shared
    <3>3. QED BY <2>2, <2>5, <3>1, <3>2
  <2>6. CASE Free(l) /\ stage[l] = "read_accounts" /\ to = "transactions"
    <3>1. Needs(l) = "accounts"
      BY <2>6 DEF Needs
    <3>2. Exclusive(l)' = {} /\ Shared(l)' = {"accounts"}
      BY <1>1, <2>6 DEF Exclusive, Shared
    <3>3. QED BY <2>2, <2>6, <3>1, <3>2
  <2>7. QED BY <2>1, <2>3, <2>4, <2>5, <2>6
<1>5. ASSUME NEW i \in Loaders, NEW j \in Loaders, i # j
      PROVE  (Exclusive(i) \cap (Exclusive(j) \cup Shared(j)))' = {}
  <2>1. CASE i # l /\ j # l
    BY <1>2, <1>3, <1>5, <2>1
  <2>2. CASE i = l
    BY <1>2, <1>4, <1>5, <2>2
  <2>3. CASE j = l
    BY <1>2, <1>4, <1>5, <2>3
  <2>4. QED BY <2>1, <2>2, <2>3
<1>6. QED BY <1>5 DEF LocksInv

(* A loader that leaves the tables alone keeps the invariant, whether or not it has
   taken numbers from a sequence. *)
LEMMA MovingOn ==
    ASSUME TablesInv, NEW l \in Loaders, NEW to \in Stages, Goto(l, to),
           DOMAIN run' = Loaders, \A other \in Loaders \ {l} : run'[other] = run[other],
           UNCHANGED <<files, customers, accounts, transactions>>,
           last' \in [customers : Nat, accounts : Nat, transactions : Nat],
           last.customers <= last'.customers, last.accounts <= last'.accounts,
           LocksInv', LoaderInv(l)'
    PROVE  TablesInv'
<1>1. \A other \in Loaders \ {l} : stage'[other] = stage[other]
  BY DEF Goto, TablesInv
<1>2. ASSUME NEW other \in Loaders PROVE LoaderInv(other)'
  BY <1>1, <1>2, OthersKeep DEF TablesInv
<1>3. stage' \in [Loaders -> Stages]
  BY DEF Goto, TablesInv
<1>4. RowsInv'
  BY DEF TablesInv, RowsInv
<1>5. /\ NumbersAreUnique(customers', last'.customers)
      /\ NumbersAreUnique(accounts', last'.accounts)
  BY LaterUpto DEF TablesInv
<1>6. QED BY <1>2, <1>3, <1>4, <1>5 DEF TablesInv

LEMMA SequencesStay ==
    ASSUME TablesInv, last' = last
    PROVE  /\ last' \in [customers : Nat, accounts : Nat, transactions : Nat]
           /\ last.customers <= last'.customers /\ last.accounts <= last'.accounts
BY DEF TablesInv

LEMMA LeavingKeeps ==
    ASSUME TablesInv, NEW l \in Loaders, Leave(l),
           UNCHANGED <<files, customers, accounts, transactions>>,
           last' \in [customers : Nat, accounts : Nat, transactions : Nat],
           last.customers <= last'.customers, last.accounts <= last'.accounts
    PROVE  TablesInv'
<1>1. LoaderInv(l)'
  BY DEF Leave, Goto, LoaderInv, IsRun, NoRun, TablesInv
<1>2. DOMAIN run' = Loaders /\ \A other \in Loaders \ {l} : run'[other] = run[other]
  BY DEF Leave, TablesInv
<1>3. LocksInv'
  BY MovingOnKeepsLocks DEF Leave, Stages
<1>4. QED BY <1>1, <1>2, <1>3, MovingOn DEF Leave, Stages

LEMMA BeginKeeps == ASSUME TablesInv, NEW l \in Loaders, Begin(l) PROVE TablesInv'
<1>1. PICK file \in files, reset \in BOOLEAN :
        /\ run' = [run EXCEPT ![l] =
              [NoRun EXCEPT !.file = file, !.reset = reset, !.since = resets]]
        /\ Goto(l, IF reset THEN "reset" ELSE "customers")
  BY DEF Begin
<1>2. LoaderInv(l)'
  BY <1>1 DEF Begin, Goto, LoaderInv, IsRun, NoRun, TablesInv
<1>3. DOMAIN run' = Loaders /\ \A other \in Loaders \ {l} : run'[other] = run[other]
  BY <1>1 DEF TablesInv
<1>4. UNCHANGED <<files, customers, accounts, transactions, last>>
  BY DEF Begin, tables
<1>5. (IF reset THEN "reset" ELSE "customers") \in Stages
  BY DEF Stages, Resets
<1>6. LocksInv'
  BY <1>1, <1>5, MovingOnKeepsLocks
<1>7. QED BY <1>1, <1>2, <1>3, <1>4, <1>5, <1>6, MovingOn, SequencesStay

(* TRUNCATE has one table more, and has emptied none. *)
LEMMA LockKeeps ==
    ASSUME TablesInv, NEW l \in Loaders, LockTransactions(l) \/ LockAccounts(l)
    PROVE  TablesInv'
<1>1. PICK to \in {"reset_accounts", "reset_customers"} :
        /\ Free(l) /\ Goto(l, to)
        /\ <<stage[l], to>> \in
             {<<"reset", "reset_accounts">>, <<"reset_accounts", "reset_customers">>}
        /\ UNCHANGED <<files, customers, accounts, transactions, last, run>>
  BY DEF LockTransactions, LockAccounts, LockTable, tables
<1>2. to \in Stages
  BY DEF Stages, Resets
<1>3. stage'[l] = to
  BY <1>1 DEF Goto, TablesInv
<1>4. LocksInv'
  BY <1>1, <1>2, MovingOnKeepsLocks
<1>5. LoaderInv(l)'
  BY <1>1, <1>3 DEF LoaderInv, TablesInv
<1>6. QED BY <1>1, <1>2, <1>4, <1>5, MovingOn, SequencesStay DEF TablesInv

(* The rows go, but nobody has numbers of them: the last table is free as the others
   were. *)
LEMMA ResetKeeps == ASSUME TablesInv, NEW l \in Loaders, Reset(l) PROVE TablesInv'
<1>1. /\ stage' = [stage EXCEPT ![l] = "customers"]
      /\ run' = [run EXCEPT ![l].since = resets + 1]
      /\ files' = files
  BY DEF Reset, Goto
<1>2. ASSUME NEW other \in Loaders PROVE LoaderInv(other)'
  <2>1. CASE other = l
    <3>1. run'[l] = [run[l] EXCEPT !.since = resets + 1] /\ stage'[l] = "customers"
      BY <1>1 DEF TablesInv
    <3>2. IsRun(run'[l]) /\ run'[l].file = run[l].file
      BY <3>1, AssignSince DEF TablesInv, LoaderInv
    <3>3. QED BY <1>1, <2>1, <3>1, <3>2 DEF Reset, LoaderInv, TablesInv
  <2>2. CASE other # l
    <3>1. stage'[other] = stage[other] /\ run'[other] = run[other]
      BY <1>1, <2>2 DEF TablesInv
    <3>2. stage[other] # "accounts" /\ stage[other] # "transactions"
      <4>1. Needs(l) = "customers" /\ stage[l] \in Resets /\ "accounts" \in Exclusive(l)
        BY DEF Reset, Needs, Resets, Exclusive
      <4>2. "customers" \notin Shared(other)
        BY <2>2, <4>1 DEF Reset, Free, WaitsFor
      <4>3. "accounts" \notin Shared(other)
        BY <2>2, <4>1 DEF TablesInv, LocksInv
      <4>4. QED BY <4>2, <4>3 DEF Shared
    <3>3. QED BY <1>1, <3>1, <3>2 DEF LoaderInv, TablesInv
  <2>3. QED BY <2>1, <2>2
<1>3. stage' \in [Loaders -> Stages] /\ DOMAIN run' = Loaders
  BY <1>1 DEF TablesInv, Stages
<1>4. /\ last' \in [customers : Nat, accounts : Nat, transactions : Nat]
      /\ customers' = {} /\ accounts' = {} /\ transactions' = {}
  BY DEF Reset, Truncate, Empty
<1>5. LocksInv'
  BY <1>1, MovingOnKeepsLocks DEF Goto, Stages
<1>6. QED BY <1>1, <1>2, <1>3, <1>4, <1>5 DEF TablesInv, NumbersAreUnique, RowsInv

LEMMA ReadCustomersKeeps ==
    ASSUME TablesInv, NEW l \in Loaders, ReadCustomers(l) PROVE TablesInv'
<1>1. UNCHANGED <<files, customers, accounts, transactions, last>>
  BY DEF ReadCustomers, tables
<1>2. CASE AccountRefs(run[l].file) \subseteq Refs(customers)
  <2>1. run' = [run EXCEPT ![l].number = NumberOf(customers)] /\ Goto(l, "accounts")
    BY <1>2 DEF ReadCustomers
  <2>2. LoaderInv(l)'
    <3>0. run'[l] = [run[l] EXCEPT !.number = NumberOf(customers)] /\ IsRun(run[l])
      BY <2>1 DEF TablesInv, LoaderInv
    <3>1. run'[l].number = NumberOf(customers) /\ run'[l].file = run[l].file /\ IsRun(run'[l])
      BY <3>0, AssignNumber
    <3>2. stage'[l] = "accounts" /\ run[l].file \in files'
      BY <1>1, <2>1 DEF Goto, TablesInv, LoaderInv, ReadCustomers
    <3>3. QED BY <1>1, <1>2, <3>1, <3>2, NumberOfLeads DEF LoaderInv
  <2>3. DOMAIN run' = Loaders /\ \A other \in Loaders \ {l} : run'[other] = run[other]
    BY <2>1 DEF TablesInv
  <2>4. LocksInv'
    BY <2>1, MovingOnKeepsLocks DEF ReadCustomers, Stages
  <2>5. QED BY <1>1, <2>1, <2>2, <2>3, <2>4, MovingOn, SequencesStay DEF Stages
<1>3. CASE ~(AccountRefs(run[l].file) \subseteq Refs(customers))
  BY <1>1, <1>3, LeavingKeeps, SequencesStay DEF ReadCustomers
<1>4. QED BY <1>2, <1>3

LEMMA ReadAccountsKeeps ==
    ASSUME TablesInv, NEW l \in Loaders, ReadAccounts(l) PROVE TablesInv'
<1>1. UNCHANGED <<files, customers, accounts, transactions, last>>
  BY DEF ReadAccounts, tables
<1>2. run' = [run EXCEPT ![l].number = NumberOf(accounts)] /\ Goto(l, "transactions")
  BY DEF ReadAccounts
<1>3. LoaderInv(l)'
  <2>0. run'[l] = [run[l] EXCEPT !.number = NumberOf(accounts)] /\ IsRun(run[l])
    BY <1>2 DEF TablesInv, LoaderInv
  <2>1. run'[l].number = NumberOf(accounts) /\ run'[l].file = run[l].file /\ IsRun(run'[l])
    BY <2>0, AssignNumber
  <2>2. stage'[l] = "transactions" /\ run[l].file \in files'
    BY <1>1, <1>2 DEF Goto, TablesInv, LoaderInv, ReadAccounts
  <2>3. QED BY <1>1, <2>1, <2>2, NumberOfLeads DEF LoaderInv
<1>4. DOMAIN run' = Loaders /\ \A other \in Loaders \ {l} : run'[other] = run[other]
  BY <1>2 DEF TablesInv
<1>5. LocksInv'
  BY <1>2, MovingOnKeepsLocks DEF ReadAccounts, Stages
<1>6. QED BY <1>1, <1>2, <1>3, <1>4, <1>5, MovingOn, SequencesStay DEF Stages

LEMMA CompleteKeeps == ASSUME TablesInv, NEW l \in Loaders, Complete(l) PROVE TablesInv'
BY LeavingKeeps, SequencesStay DEF Complete, tables

LEMMA CrashKeeps == ASSUME TablesInv, NEW l \in Loaders, Crash(l) PROVE TablesInv'
BY LeavingKeeps, SequencesStay DEF Crash, tables

LEMMA BreakDeadlockKeeps ==
    ASSUME TablesInv, NEW l \in Loaders, BreakDeadlock(l) PROVE TablesInv'
BY LeavingKeeps, SequencesStay DEF BreakDeadlock, tables

-----------------------------------------------------------------------------
(* The lines that are inserted are among those of the file. *)
LEMMA RowsAreLines ==
    ASSUME TablesInv, NEW l \in Loaders, stage[l] # "idle"
    PROVE  /\ \E n \in Nat : DOMAIN CustomerRows(l) \subseteq 1..n
           /\ \E n \in Nat : DOMAIN AccountRows(l) \subseteq 1..n
           /\ \E n \in Nat : DOMAIN TransactionRows(l) \subseteq 1..n
<1>1. DOMAIN CustomerRows(l) = 1..Len(run[l].file.accounts)
  BY LinesOfFile DEF CustomerRows
<1>2. DOMAIN AccountRows(l) = 1..Len(run[l].file.accounts)
  BY LinesOfFile DEF AccountRows
<1>3. DOMAIN TransactionRows(l) \subseteq 1..Len(run[l].file.transactions)
  BY LinesOfFile DEF TransactionRows
<1>4. Len(run[l].file.accounts) \in Nat /\ Len(run[l].file.transactions) \in Nat
  BY LinesOfFile
<1>5. QED BY <1>1, <1>2, <1>3, <1>4

LEMMA InsertCustomersKeeps ==
    ASSUME TablesInv, NEW l \in Loaders, InsertCustomers(l) PROVE TablesInv'
<1> DEFINE rows == CustomerRows(l)
<1>1. PICK n \in Nat : DOMAIN rows \subseteq 1..n
  BY RowsAreLines DEF InsertCustomers
<1>2. /\ last' = [last EXCEPT !.customers = @ + Assigned(rows, customers)]
      /\ UNCHANGED <<files, accounts, transactions>>
  BY DEF InsertCustomers, InsertFails
<1>3. /\ last' \in [customers : Nat, accounts : Nat, transactions : Nat]
      /\ last.customers <= last'.customers /\ last'.accounts = last.accounts
      /\ last'.customers = last.customers + Assigned(rows, customers)
  <2>1. Assigned(rows, customers) \in Nat
    BY <1>1, AssignedIsNat
  <2>2. QED BY <1>2, <2>1 DEF TablesInv
<1>4. CASE InsertFails(l, rows, customers)
  BY <1>2, <1>3, <1>4, LeavingKeeps DEF InsertFails, TablesInv
<1>5. CASE /\ Duplicates(rows, customers) = {}
           /\ customers' = customers \cup Stored(rows, last.customers)
           /\ run' = [run EXCEPT ![l].loaded.customers = Count(rows)]
           /\ Goto(l, "read_customers")
  <2>1. ASSUME NEW other \in Loaders PROVE LoaderInv(other)'
    <3>1. CASE other = l
      <4>1. run'[l] = [run[l] EXCEPT !.loaded.customers = Count(rows)]
        BY <1>5 DEF TablesInv
      <4>2. IsRun(run'[l]) /\ run'[l].file = run[l].file
        BY <4>1, CountCustomers DEF TablesInv, LoaderInv
      <4>3. QED BY <1>2, <1>5, <3>1, <4>2 DEF LoaderInv, TablesInv, Goto, InsertCustomers
    <3>2. CASE other # l
      BY <1>2, <1>5, <3>2, OthersKeep DEF TablesInv, Goto
    <3>3. QED BY <3>1, <3>2
  <2>2. stage' \in [Loaders -> Stages] /\ DOMAIN run' = Loaders
    BY <1>5 DEF TablesInv, Goto, Stages
  <2>3. NumbersAreUnique(customers', last'.customers)
    <3>1. \A i \in DOMAIN rows : {"id", "ref"} \subseteq DOMAIN rows[i]
      BY DEF CustomerRows
    <3>2. Assigned(rows, customers) = Count(rows)
      BY <1>5 DEF Assigned
    <3>3. QED BY <1>1, <1>3, <1>5, <3>1, <3>2, StoredNumbersAreUnique DEF TablesInv
  <2>4. RowsInv'
    BY <1>2, <1>5 DEF RowsInv, TablesInv
  <2>5. LocksInv'
    BY <1>5, MovingOnKeepsLocks DEF Stages
  <2>6. QED BY <1>2, <1>3, <2>1, <2>2, <2>3, <2>4, <2>5 DEF TablesInv
<1>6. QED BY <1>4, <1>5 DEF InsertCustomers

(* A new account has the number of its customer from the mapping, which leads. *)
LEMMA InsertAccountsKeeps ==
    ASSUME TablesInv, NEW l \in Loaders, InsertAccounts(l) PROVE TablesInv'
<1> DEFINE rows == AccountRows(l)
<1>1. PICK n \in Nat : DOMAIN rows \subseteq 1..n
  BY RowsAreLines DEF InsertAccounts
<1>2. /\ last' = [last EXCEPT !.accounts = @ + Assigned(rows, accounts)]
      /\ UNCHANGED <<files, customers, transactions>>
  BY DEF InsertAccounts, InsertFails
<1>3. /\ last' \in [customers : Nat, accounts : Nat, transactions : Nat]
      /\ last.accounts <= last'.accounts /\ last'.customers = last.customers
      /\ last'.accounts = last.accounts + Assigned(rows, accounts)
  <2>1. Assigned(rows, accounts) \in Nat
    BY <1>1, AssignedIsNat
  <2>2. QED BY <1>2, <2>1 DEF TablesInv
<1>4. CASE InsertFails(l, rows, accounts)
  BY <1>2, <1>3, <1>4, LeavingKeeps DEF InsertFails, TablesInv
<1>5. CASE /\ Duplicates(rows, accounts) = {}
           /\ accounts' = accounts \cup Stored(rows, last.accounts)
           /\ run' = [run EXCEPT ![l].loaded.accounts = Count(rows)]
           /\ Goto(l, "read_accounts")
  <2>1. ASSUME NEW other \in Loaders PROVE LoaderInv(other)'
    <3>1. CASE other = l
      <4>1. run'[l] = [run[l] EXCEPT !.loaded.accounts = Count(rows)]
        BY <1>5 DEF TablesInv
      <4>2. IsRun(run'[l]) /\ run'[l].file = run[l].file
        BY <4>1, CountAccounts DEF TablesInv, LoaderInv
      <4>3. QED BY <1>2, <1>5, <3>1, <4>2 DEF LoaderInv, TablesInv, Goto, InsertAccounts
    <3>2. CASE other # l
      BY <1>2, <1>5, <3>2, OthersKeep DEF TablesInv, Goto
    <3>3. QED BY <3>1, <3>2
  <2>2. stage' \in [Loaders -> Stages] /\ DOMAIN run' = Loaders
    BY <1>5 DEF TablesInv, Goto, Stages
  <2>3. NumbersAreUnique(accounts', last'.accounts)
    <3>1. \A i \in DOMAIN rows : {"id", "ref"} \subseteq DOMAIN rows[i]
      BY DEF AccountRows
    <3>2. Assigned(rows, accounts) = Count(rows)
      BY <1>5 DEF Assigned
    <3>3. QED BY <1>1, <1>3, <1>5, <3>1, <3>2, StoredNumbersAreUnique DEF TablesInv
  <2>4. ASSUME NEW a \in Stored(rows, last.accounts)
        PROVE  \E c \in customers : c.id = a.customer_id /\ c.ref = a.ref
    <3>1. PICK i \in DOMAIN run[l].file.accounts :
            /\ a.ref = run[l].file.accounts[i]
            /\ a.customer_id = run[l].number[run[l].file.accounts[i]]
      BY DEF Stored, AccountRows
    <3>2. a.ref \in AccountRefs(run[l].file)
      BY <3>1, LinesOfFile DEF InsertAccounts
    <3>3. a.ref \in DOMAIN run[l].number /\ Leads(run[l].number, customers)
      BY <3>2 DEF InsertAccounts, TablesInv, LoaderInv
    <3>4. QED BY <3>1, <3>3 DEF Leads
  <2>5. RowsInv'
    BY <1>2, <1>5, <2>4 DEF RowsInv, TablesInv
  <2>6. LocksInv'
    BY <1>5, MovingOnKeepsLocks DEF Stages
  <2>7. QED BY <1>2, <1>3, <2>1, <2>2, <2>3, <2>5, <2>6 DEF TablesInv
<1>6. QED BY <1>4, <1>5 DEF InsertAccounts

(* A new transaction has the numbers of its two accounts, which differ. *)
LEMMA InsertTransactionsKeeps ==
    ASSUME TablesInv, NEW l \in Loaders, InsertTransactions(l) PROVE TablesInv'
<1> DEFINE rows == TransactionRows(l)
<1>1. PICK n \in Nat : DOMAIN rows \subseteq 1..n
  BY RowsAreLines DEF InsertTransactions
<1>2. /\ last' = [last EXCEPT !.transactions = @ + Assigned(rows, transactions)]
      /\ UNCHANGED <<files, customers, accounts>>
  BY DEF InsertTransactions, InsertFails
<1>3. /\ last' \in [customers : Nat, accounts : Nat, transactions : Nat]
      /\ last'.accounts = last.accounts /\ last'.customers = last.customers
  <2>1. Assigned(rows, transactions) \in Nat
    BY <1>1, AssignedIsNat
  <2>2. QED BY <1>2, <2>1 DEF TablesInv
<1>4. CASE InsertFails(l, rows, transactions)
  BY <1>2, <1>3, <1>4, LeavingKeeps DEF InsertFails, TablesInv
<1>5. CASE /\ Duplicates(rows, transactions) = {}
           /\ transactions' = transactions \cup Stored(rows, last.transactions)
           /\ run' = [run EXCEPT ![l].loaded.transactions = Count(rows)]
           /\ Goto(l, "complete")
  <2>1. ASSUME NEW other \in Loaders PROVE LoaderInv(other)'
    <3>1. CASE other = l
      <4>1. run'[l] = [run[l] EXCEPT !.loaded.transactions = Count(rows)]
        BY <1>5 DEF TablesInv
      <4>2. IsRun(run'[l]) /\ run'[l].file = run[l].file
        BY <4>1, CountTransactions DEF TablesInv, LoaderInv
      <4>3. QED BY <1>2, <1>5, <3>1, <4>2 DEF LoaderInv, TablesInv, Goto, InsertTransactions
    <3>2. CASE other # l
      BY <1>2, <1>5, <3>2, OthersKeep DEF TablesInv, Goto
    <3>3. QED BY <3>1, <3>2
  <2>2. stage' \in [Loaders -> Stages] /\ DOMAIN run' = Loaders
    BY <1>5 DEF TablesInv, Goto, Stages
  <2>3. ASSUME NEW t \in Stored(rows, last.transactions)
        PROVE  \E s, r \in accounts, file \in files : \E row \in CsvRows(file) :
                 /\ s.id = t.sender /\ r.id = t.receiver
                 /\ row.ref = t.ref /\ row.orig = s.ref /\ row.bene = r.ref
                 /\ row.orig # row.bene
    <3> DEFINE number == run[l].number
    <3>1. PICK i \in DOMAIN run[l].file.transactions :
            LET row == run[l].file.transactions[i]
            IN  /\ Loadable(row, number)
                /\ t.ref = row.ref
                /\ t.sender = number[row.orig] /\ t.receiver = number[row.bene]
      BY DEF Stored, TransactionRows
    <3>2. PICK row \in CsvRows(run[l].file) :
            /\ Loadable(row, number)
            /\ t.ref = row.ref
            /\ t.sender = number[row.orig] /\ t.receiver = number[row.bene]
      BY <3>1, LinesOfFile DEF InsertTransactions
    <3>3. Leads(number, accounts) /\ run[l].file \in files
      BY DEF InsertTransactions, TablesInv, LoaderInv
    <3>4. PICK s \in accounts, r \in accounts :
            /\ s.id = t.sender /\ s.ref = row.orig
            /\ r.id = t.receiver /\ r.ref = row.bene
      BY <3>2, <3>3 DEF Leads, Loadable
    <3>5. row.orig # row.bene
      BY <3>2 DEF Loadable
    <3>6. QED BY <3>2, <3>3, <3>4, <3>5
  <2>4. RowsInv'
    BY <1>2, <1>5, <2>3 DEF RowsInv, TablesInv
  <2>5. LocksInv'
    BY <1>5, MovingOnKeepsLocks DEF Stages
  <2>6. QED BY <1>2, <1>3, <2>1, <2>2, <2>4, <2>5 DEF TablesInv
<1>6. QED BY <1>4, <1>5 DEF InsertTransactions

-----------------------------------------------------------------------------
(* Rules and tools read the tables and write alerts and tokens. *)
LEMMA UsersKeep ==
    ASSUME TablesInv,
           UNCHANGED <<files, customers, accounts, transactions, last, stage, run>>
    PROVE  TablesInv'
<1>1. LocksInv'
  BY DEF TablesInv, LocksInv, Exclusive, Shared
<1>2. QED BY <1>1 DEF TablesInv, NumbersAreUnique, LoaderInv, Leads, RowsInv

LEMMA ToolsOnlyRead == ASSUME UseTool PROVE UNCHANGED vars
<1>1. ASSUME NEW request,
             \/ RefuseCall(request) \/ GetTransactionHistory(request)
             \/ GetLinkedAccounts(request) \/ GetCustomerProfile(request)
             \/ GetAlertHistory(request)
      PROVE  UNCHANGED vars
  BY <1>1 DEF RefuseCall, GetTransactionHistory, GetLinkedAccounts, GetCustomerProfile,
              GetAlertHistory, Accepted, StartCall
<1>2. ASSUME NEW item, DescribeTransaction(item) \/ DescribeLink(item)
      PROVE  UNCHANGED vars
  BY <1>2 DEF DescribeTransaction, DescribeLink
<1>3. QED BY <1>1, <1>2 DEF UseTool

LEMMA StepKeepsTablesInv == ASSUME TablesInv, [SharedNext]_allVars PROVE TablesInv'
<1>1. ASSUME NEW l \in Loaders, Load(l) PROVE TablesInv'
  BY <1>1, BeginKeeps, InsertCustomersKeeps, ReadCustomersKeeps, InsertAccountsKeeps,
     ReadAccountsKeeps, InsertTransactionsKeeps, CompleteKeeps, BreakDeadlockKeeps, CrashKeeps
     DEF Load
<1>2. ASSUME NEW l \in Loaders, ResetTables(l) PROVE TablesInv'
  BY <1>2, LockKeeps, ResetKeeps DEF ResetTables
<1>3. CASE EvaluateRule \/ InsertBatch \/ CompleteRule \/ EngineCrash
  BY <1>3, UsersKeep DEF EvaluateRule, InsertBatch, CompleteRule, EngineCrash, vars, tables
<1>4. CASE UseTool
  BY <1>4, ToolsOnlyRead, UsersKeep DEF vars, tables
<1>5. CASE UNCHANGED allVars
  BY <1>5, UsersKeep DEF allVars, vars, tables
<1>6. QED BY <1>1, <1>2, <1>3, <1>4, <1>5 DEF SharedNext

(* Rows that were stored with numbers that lead refer to their own, since a number
   is that of one row. *)
LEMMA TablesInvSuffices == ASSUME TablesInv PROVE RowsReferToTheirOwn
<1>1. check_no_orphan_transactions /\ check_no_orphan_accounts
  BY DEF TablesInv, RowsInv, check_no_orphan_transactions, check_no_orphan_accounts
<1>2. \A s, r \in accounts : s.id = r.id => s.ref = r.ref
  BY DEF TablesInv, NumbersAreUnique
<1>3. check_no_self_transfers
  BY <1>2 DEF TablesInv, RowsInv, check_no_self_transfers
<1>4. \A a \in accounts, c \in customers : a.customer_id = c.id => a.ref = c.ref
  BY DEF TablesInv, RowsInv, NumbersAreUnique
<1>5. ASSUME NEW t \in transactions, NEW s \in accounts, NEW r \in accounts,
             t.sender = s.id, t.receiver = r.id
      PROVE  \E file \in files : \E row \in CsvRows(file) :
               row.ref = t.ref /\ row.orig = s.ref /\ row.bene = r.ref
  BY <1>2, <1>5 DEF TablesInv, RowsInv
<1>6. QED BY <1>1, <1>3, <1>4, <1>5 DEF RowsReferToTheirOwn

(* RowsReferToTheirOwn for every instance: with any number of loaders, and with
   the rule engine and the tools at work on the same tables. *)
THEOREM RowsAlwaysReferToTheirOwn == SharedSpec => []RowsReferToTheirOwn
<1>1. SharedInit => TablesInv
  BY InitTablesInv DEF SharedInit
<1>2. TablesInv /\ [SharedNext]_allVars => TablesInv'
  BY StepKeepsTablesInv
<1>3. TablesInv => RowsReferToTheirOwn
  BY TablesInvSuffices
<1>4. QED BY <1>1, <1>2, <1>3, PTL DEF SharedSpec

-----------------------------------------------------------------------------
(* What is in the tables of a file stays there while they only grow. *)
LEMMA GrowthKeepsWhole ==
    ASSUME NEW file, NEW loaded, customers \subseteq customers', accounts \subseteq accounts',
           transactions \subseteq transactions', IsFiniteSet(transactions')
    PROVE  /\ CustomersAreWhole(file, loaded) => CustomersAreWhole(file, loaded)'
           /\ AccountsAreWhole(file, loaded) => AccountsAreWhole(file, loaded)'
           /\ PaymentsAreWhole(file, loaded) => PaymentsAreWhole(file, loaded)'
<1>1. CustomersAreWhole(file, loaded) => CustomersAreWhole(file, loaded)'
  BY DEF CustomersAreWhole, Refs
<1>2. AccountsAreWhole(file, loaded) => AccountsAreWhole(file, loaded)'
  BY DEF AccountsAreWhole, Refs
<1>3. ASSUME PaymentsAreWhole(file, loaded)
      PROVE  PaymentsAreWhole(file, loaded)'
  <2> DEFINE before == TransactionsOf(file)
             after == {t \in transactions' : \E row \in CsvRows(file) : row.ref = t.ref}
  <2>1. before \subseteq after /\ after \in SUBSET transactions'
    BY DEF TransactionsOf
  <2>2. IsFiniteSet(after)
    BY <2>1, FS_Subset
  <2>3. Cardinality(before) <= Cardinality(after)
    BY <2>1, <2>2, FS_Subset
  <2>4. Cardinality(before) \in Nat /\ Cardinality(after) \in Nat
    BY <2>1, <2>2, FS_Subset, FS_CardinalityType
  <2>5. TransactionsOf(file)' = after
    BY DEF TransactionsOf
  <2>6. Refs(before) \subseteq Refs(after)
    BY <2>1 DEF Refs
  <2>7. loaded.transactions \in Cardinality(OwnRows(file))..Cardinality(after)
    BY <1>3, <2>3, <2>4 DEF PaymentsAreWhole
  <2>8. QED BY <1>3, <2>5, <2>6, <2>7 DEF PaymentsAreWhole
<1>4. QED BY <1>1, <1>2, <1>3

(* So what a loader has got through stays whole when others add rows. *)
LEMMA OthersProgress ==
    ASSUME NEW l, ProgressInv(l), stage'[l] = stage[l], run'[l] = run[l], resets' = resets,
           customers \subseteq customers', accounts \subseteq accounts',
           transactions \subseteq transactions', IsFiniteSet(transactions')
    PROVE  ProgressInv(l)'
<1>1. PICK file, loaded : file = run[l].file /\ loaded = run[l].loaded
  OBVIOUS
<1>2. /\ CustomersAreWhole(file, loaded) => CustomersAreWhole(file, loaded)'
      /\ AccountsAreWhole(file, loaded) => AccountsAreWhole(file, loaded)'
      /\ PaymentsAreWhole(file, loaded) => PaymentsAreWhole(file, loaded)'
  BY GrowthKeepsWhole
<1>3. \A table : Past(l, table)' = Past(l, table)
  BY DEF Past
<1>4. CASE run[l].since = resets
  <2>1. /\ Past(l, "customers")' => CustomersAreWhole(file, loaded)'
        /\ Past(l, "accounts")' => AccountsAreWhole(file, loaded)'
        /\ Past(l, "transactions")' => PaymentsAreWhole(file, loaded)'
    BY <1>1, <1>2, <1>3, <1>4 DEF ProgressInv
  <2>2. CustomersAreWhole(file, loaded)' = CustomersAreWhole(run[l].file, run[l].loaded)'
    BY <1>1 DEF CustomersAreWhole
  <2>3. AccountsAreWhole(file, loaded)' = AccountsAreWhole(run[l].file, run[l].loaded)'
    BY <1>1 DEF AccountsAreWhole
  <2>4. PaymentsAreWhole(file, loaded)' = PaymentsAreWhole(run[l].file, run[l].loaded)'
    BY <1>1 DEF PaymentsAreWhole, OwnRows, TransactionsOf
  <2>5. QED BY <2>1, <2>2, <2>3, <2>4 DEF ProgressInv
<1>5. CASE run[l].since # resets
  BY <1>5 DEF ProgressInv
<1>6. QED BY <1>4, <1>5

LEMMA InitLoadsInv == ASSUME Init PROVE LoadsInv
<1>1. IsFiniteSet(transactions)
  BY FS_EmptySet DEF Init
<1>2. ASSUME NEW l \in Loaders PROVE ProgressInv(l)
  <2>1. stage[l] = "idle" /\ run[l].since = 0 /\ resets = 0
    BY DEF Init, NoRun
  <2>2. QED BY <2>1 DEF ProgressInv, Past
<1>3. QED BY <1>1, <1>2 DEF Init, LoadsInv, CompletedLoadsAreWhole

(* A loader's step by which the tables only grow keeps the invariant, if it keeps
   the loader's own part. *)
LEMMA AddingKeepsLoads ==
    ASSUME TablesInv, LoadsInv, NEW l \in Loaders, NEW to, Goto(l, to),
           \A other \in Loaders \ {l} : run'[other] = run[other],
           UNCHANGED <<completed, resets>>,
           customers \subseteq customers', accounts \subseteq accounts',
           transactions \subseteq transactions', IsFiniteSet(transactions'),
           ProgressInv(l)'
    PROVE  LoadsInv'
<1>1. ASSUME NEW other \in Loaders PROVE ProgressInv(other)'
  <2>1. CASE other # l
    <3>1. stage'[other] = stage[other] /\ run'[other] = run[other]
      BY <2>1 DEF Goto, TablesInv
    <3>2. QED BY <3>1, OthersProgress DEF LoadsInv
  <2>2. QED BY <2>1
<1>2. ASSUME NEW c \in completed, c.since = resets
      PROVE  /\ CustomersAreWhole(c.file, c.loaded)'
             /\ AccountsAreWhole(c.file, c.loaded)'
             /\ PaymentsAreWhole(c.file, c.loaded)'
  BY <1>2, GrowthKeepsWhole DEF LoadsInv, CompletedLoadsAreWhole
<1>3. QED BY <1>1, <1>2 DEF LoadsInv, CompletedLoadsAreWhole

(* A loader that has left has nothing to show for. *)
LEMMA LeavingKeepsLoads ==
    ASSUME TablesInv, LoadsInv, NEW l \in Loaders, Leave(l),
           UNCHANGED <<completed, resets, customers, accounts, transactions>>
    PROVE  LoadsInv'
<1>1. stage'[l] = "idle" /\ run'[l].since = 0 /\ Goto(l, "idle")
  BY DEF Leave, Goto, TablesInv, NoRun
<1>2. ProgressInv(l)'
  BY <1>1 DEF ProgressInv, Past, LoadsInv
<1>3. \A other \in Loaders \ {l} : run'[other] = run[other]
  BY DEF Leave, TablesInv
<1>4. QED BY <1>1, <1>2, <1>3, AddingKeepsLoads DEF LoadsInv

LEMMA BeginKeepsLoads ==
    ASSUME TablesInv, LoadsInv, NEW l \in Loaders, Begin(l) PROVE LoadsInv'
<1>1. PICK file \in files, reset \in BOOLEAN :
        /\ run' = [run EXCEPT ![l] =
              [NoRun EXCEPT !.file = file, !.reset = reset, !.since = resets]]
        /\ Goto(l, IF reset THEN "reset" ELSE "customers")
  BY DEF Begin
<1>2. run'[l].since = resets /\ stage'[l] \in {"reset", "customers"}
  BY <1>1 DEF Goto, TablesInv, NoRun
<1>3. ProgressInv(l)'
  BY <1>2 DEF ProgressInv, Past, Begin, LoadsInv
<1>4. \A other \in Loaders \ {l} : run'[other] = run[other]
  BY <1>1 DEF TablesInv
<1>5. QED BY <1>1, <1>3, <1>4, AddingKeepsLoads DEF Begin, tables, LoadsInv

LEMMA LockKeepsLoads ==
    ASSUME TablesInv, LoadsInv, NEW l \in Loaders, LockTransactions(l) \/ LockAccounts(l)
    PROVE  LoadsInv'
<1>1. PICK to \in {"reset_accounts", "reset_customers"} :
        /\ Goto(l, to)
        /\ UNCHANGED <<customers, accounts, transactions, run, completed, resets>>
  BY DEF LockTransactions, LockAccounts, LockTable, tables
<1>2. stage'[l] \in {"reset_accounts", "reset_customers"}
  BY <1>1 DEF Goto, TablesInv
<1>3. ProgressInv(l)'
  BY <1>1, <1>2 DEF ProgressInv, Past, LoadsInv
<1>4. QED BY <1>1, <1>3, AddingKeepsLoads DEF LoadsInv

(* After a reset nobody else has loaded anything since the last one. *)
LEMMA ResetKeepsLoads ==
    ASSUME TablesInv, LoadsInv, NEW l \in Loaders, Reset(l) PROVE LoadsInv'
<1>1. /\ stage' = [stage EXCEPT ![l] = "customers"]
      /\ run' = [run EXCEPT ![l].since = resets + 1]
      /\ resets' = resets + 1 /\ completed' = completed /\ transactions' = {}
  BY DEF Reset, Goto, Truncate, Empty
<1>2. ASSUME NEW other \in Loaders PROVE ProgressInv(other)'
  <2>1. CASE other = l
    <3>1. run'[l] = [run[l] EXCEPT !.since = resets + 1] /\ IsRun(run[l])
      BY <1>1 DEF TablesInv, LoaderInv
    <3>2. run'[l].since = resets + 1
      BY <3>1, AssignSince
    <3>3. stage'[l] = "customers" /\ run'[l].since \in 0..resets'
      BY <1>1, <3>2 DEF TablesInv, LoadsInv
    <3>4. ~Past(l, "customers")' /\ ~Past(l, "accounts")' /\ ~Past(l, "transactions")'
      BY <3>3 DEF Past
    <3>5. QED BY <2>1, <3>3, <3>4 DEF ProgressInv
  <2>2. CASE other # l
    <3>1. run'[other] = run[other]
      BY <1>1, <2>2 DEF TablesInv
    <3>2. run[other].since \in 0..resets /\ resets \in Nat /\ resets' = resets + 1
      BY <1>1 DEF LoadsInv, ProgressInv
    <3>3. run'[other].since \in 0..resets' /\ run'[other].since # resets'
      BY <3>1, <3>2
    <3>4. QED BY <3>3 DEF ProgressInv
  <2>3. QED BY <2>1, <2>2
<1>3. \A c \in completed' : c.since \in 0..resets' /\ c.since # resets'
  BY <1>1 DEF LoadsInv
<1>4. IsFiniteSet(transactions')
  BY <1>1, FS_EmptySet
<1>5. QED BY <1>1, <1>2, <1>3, <1>4 DEF LoadsInv, CompletedLoadsAreWhole

LEMMA ReadCustomersKeepsLoads ==
    ASSUME TablesInv, LoadsInv, NEW l \in Loaders, ReadCustomers(l) PROVE LoadsInv'
<1>1. UNCHANGED <<files, customers, accounts, transactions, completed, resets>>
  BY DEF ReadCustomers, tables
<1>2. CASE AccountRefs(run[l].file) \subseteq Refs(customers)
  <2>1. run' = [run EXCEPT ![l].number = NumberOf(customers)] /\ Goto(l, "accounts")
    BY <1>2 DEF ReadCustomers
  <2>2. run'[l] = [run[l] EXCEPT !.number = NumberOf(customers)] /\ IsRun(run[l])
    BY <2>1 DEF TablesInv, LoaderInv
  <2>3. /\ run'[l].file = run[l].file /\ run'[l].since = run[l].since
        /\ run'[l].loaded = run[l].loaded
    BY <2>2, AssignNumber
  <2>4. stage[l] = "read_customers" /\ stage'[l] = "accounts"
    BY <2>1 DEF Goto, TablesInv, ReadCustomers
  <2>5. ProgressInv(l)'
    <3>1. Past(l, "customers") /\ ~Past(l, "accounts")' /\ ~Past(l, "transactions")'
      BY <2>4 DEF Past
    <3>2. ProgressInv(l)
      BY DEF LoadsInv
    <3>3. QED BY <1>1, <2>3, <2>4, <3>1, <3>2 DEF ProgressInv, CustomersAreWhole
  <2>6. \A other \in Loaders \ {l} : run'[other] = run[other]
    BY <2>1 DEF TablesInv
  <2>7. QED BY <1>1, <2>1, <2>5, <2>6, AddingKeepsLoads DEF LoadsInv
<1>3. CASE ~(AccountRefs(run[l].file) \subseteq Refs(customers))
  BY <1>1, <1>3, LeavingKeepsLoads DEF ReadCustomers
<1>4. QED BY <1>2, <1>3

(* The mapping has the accounts of the file, which has just been loaded. *)
LEMMA ReadAccountsKeepsLoads ==
    ASSUME TablesInv, LoadsInv, NEW l \in Loaders, ReadAccounts(l) PROVE LoadsInv'
<1>1. UNCHANGED <<files, customers, accounts, transactions, completed, resets>>
  BY DEF ReadAccounts, tables
<1>2. run' = [run EXCEPT ![l].number = NumberOf(accounts)] /\ Goto(l, "transactions")
  BY DEF ReadAccounts
<1>3. run'[l] = [run[l] EXCEPT !.number = NumberOf(accounts)] /\ IsRun(run[l])
  BY <1>2 DEF TablesInv, LoaderInv
<1>4. /\ run'[l].file = run[l].file /\ run'[l].since = run[l].since
      /\ run'[l].loaded = run[l].loaded /\ run'[l].number = NumberOf(accounts)
  BY <1>3, AssignNumber
<1>5. stage[l] = "read_accounts" /\ stage'[l] = "transactions"
  BY <1>2 DEF Goto, TablesInv, ReadAccounts
<1>6. ProgressInv(l)'
  <2>1. Past(l, "customers") /\ Past(l, "accounts") /\ ~Past(l, "transactions")'
    BY <1>5 DEF Past
  <2>2. ProgressInv(l) /\ DOMAIN run'[l].number = Refs(accounts)
    BY <1>4, NumberOfLeads DEF LoadsInv
  <2>3. QED BY <1>1, <1>4, <2>1, <2>2
            DEF ProgressInv, CustomersAreWhole, AccountsAreWhole
<1>7. \A other \in Loaders \ {l} : run'[other] = run[other]
  BY <1>2 DEF TablesInv
<1>8. QED BY <1>1, <1>2, <1>6, <1>7, AddingKeepsLoads DEF LoadsInv

(* The references of the lines are those of the rows. *)
LEMMA StoredHasRefs ==
    ASSUME NEW rows, NEW upto, \A i \in DOMAIN rows : {"id", "ref"} \subseteq DOMAIN rows[i]
    PROVE  \A i \in DOMAIN rows : rows[i].ref \in Refs(Stored(rows, upto))
<1> SUFFICES ASSUME NEW i \in DOMAIN rows
             PROVE  rows[i].ref \in Refs(Stored(rows, upto))
  OBVIOUS
<1> DEFINE row == [rows[i] EXCEPT !.id = upto + Position(rows, i)]
<1>1. row \in Stored(rows, upto)
  BY DEF Stored
<1>2. row.ref = rows[i].ref
  OBVIOUS
<1>3. QED BY <1>1, <1>2 DEF Refs

LEMMA LinesCount ==
    ASSUME NEW rows, NEW n \in Nat, DOMAIN rows = 1..n PROVE Count(rows) = n
BY FS_Interval DEF Count

LEMMA InsertCustomersKeepsLoads ==
    ASSUME TablesInv, LoadsInv, NEW l \in Loaders, InsertCustomers(l) PROVE LoadsInv'
<1> DEFINE rows == CustomerRows(l)
           file == run[l].file
<1>1. UNCHANGED <<files, accounts, transactions, completed, resets>>
  BY DEF InsertCustomers, InsertFails
<1>2. CASE InsertFails(l, rows, customers)
  BY <1>1, <1>2, LeavingKeepsLoads DEF InsertFails
<1>3. CASE /\ customers' = customers \cup Stored(rows, last.customers)
           /\ run' = [run EXCEPT ![l].loaded.customers = Count(rows)]
           /\ Goto(l, "read_customers")
  <2>1. run'[l] = [run[l] EXCEPT !.loaded.customers = Count(rows)] /\ IsRun(run[l])
    BY <1>3 DEF TablesInv, LoaderInv
  <2>2. /\ run'[l].file = file /\ run'[l].since = run[l].since
        /\ run'[l].loaded.customers = Count(rows)
    BY <2>1, CountCustomers
  <2>3. stage[l] = "customers" /\ stage'[l] = "read_customers"
    BY <1>3 DEF Goto, TablesInv, InsertCustomers
  <2>4. /\ Len(file.accounts) \in Nat /\ DOMAIN rows = 1..Len(file.accounts)
        /\ DOMAIN file.accounts = 1..Len(file.accounts)
    BY <2>3, LinesOfFile DEF CustomerRows
  <2>5. Count(rows) = Len(file.accounts)
    BY <2>4, LinesCount
  <2>6. \A i \in DOMAIN file.accounts : file.accounts[i] \in Refs(Stored(rows, last.customers))
    <3>1. \A i \in DOMAIN rows : rows[i].ref \in Refs(Stored(rows, last.customers))
      BY <2>4, StoredHasRefs DEF CustomerRows, TablesInv
    <3>2. QED BY <2>4, <3>1 DEF CustomerRows
  <2>7. AccountRefs(file) \subseteq Refs(customers')
    <3>1. Refs(Stored(rows, last.customers)) \subseteq Refs(customers')
      BY <1>3 DEF Refs
    <3>2. QED BY <2>6, <3>1 DEF AccountRefs, ToSet
  <2>8. ProgressInv(l)'
    <3>1. Past(l, "customers")' /\ ~Past(l, "accounts")' /\ ~Past(l, "transactions")'
      BY <2>3 DEF Past
    <3>2. ProgressInv(l)
      BY DEF LoadsInv
    <3>3. QED BY <1>1, <2>2, <2>3, <2>5, <2>7, <3>1, <3>2 DEF ProgressInv, CustomersAreWhole
  <2>9. \A other \in Loaders \ {l} : run'[other] = run[other]
    BY <1>3 DEF TablesInv
  <2>10. QED BY <1>1, <1>3, <2>8, <2>9, AddingKeepsLoads DEF LoadsInv
<1>4. QED BY <1>2, <1>3 DEF InsertCustomers

LEMMA InsertAccountsKeepsLoads ==
    ASSUME TablesInv, LoadsInv, NEW l \in Loaders, InsertAccounts(l) PROVE LoadsInv'
<1> DEFINE rows == AccountRows(l)
           file == run[l].file
<1>1. UNCHANGED <<files, customers, transactions, completed, resets>>
  BY DEF InsertAccounts, InsertFails
<1>2. CASE InsertFails(l, rows, accounts)
  BY <1>1, <1>2, LeavingKeepsLoads DEF InsertFails
<1>3. CASE /\ accounts' = accounts \cup Stored(rows, last.accounts)
           /\ run' = [run EXCEPT ![l].loaded.accounts = Count(rows)]
           /\ Goto(l, "read_accounts")
  <2>1. run'[l] = [run[l] EXCEPT !.loaded.accounts = Count(rows)] /\ IsRun(run[l])
    BY <1>3 DEF TablesInv, LoaderInv
  <2>2. /\ run'[l].file = file /\ run'[l].since = run[l].since
        /\ run'[l].loaded.customers = run[l].loaded.customers
        /\ run'[l].loaded.accounts = Count(rows)
    BY <2>1, CountAccounts
  <2>3. stage[l] = "accounts" /\ stage'[l] = "read_accounts"
    BY <1>3 DEF Goto, TablesInv, InsertAccounts
  <2>4. /\ Len(file.accounts) \in Nat /\ DOMAIN rows = 1..Len(file.accounts)
        /\ DOMAIN file.accounts = 1..Len(file.accounts)
    BY <2>3, LinesOfFile DEF AccountRows
  <2>5. Count(rows) = Len(file.accounts)
    BY <2>4, LinesCount
  <2>6. \A i \in DOMAIN file.accounts : file.accounts[i] \in Refs(Stored(rows, last.accounts))
    <3>1. \A i \in DOMAIN rows : rows[i].ref \in Refs(Stored(rows, last.accounts))
      BY <2>4, StoredHasRefs DEF AccountRows, TablesInv
    <3>2. QED BY <2>4, <3>1 DEF AccountRows
  <2>7. AccountRefs(file) \subseteq Refs(accounts')
    <3>1. Refs(Stored(rows, last.accounts)) \subseteq Refs(accounts')
      BY <1>3 DEF Refs
    <3>2. QED BY <2>6, <3>1 DEF AccountRefs, ToSet
  <2>8. ProgressInv(l)'
    <3>1. Past(l, "customers") /\ Past(l, "accounts")' /\ ~Past(l, "transactions")'
      BY <2>3 DEF Past
    <3>2. ProgressInv(l)
      BY DEF LoadsInv
    <3>3. QED BY <1>1, <2>2, <2>3, <2>5, <2>7, <3>1, <3>2
              DEF ProgressInv, CustomersAreWhole, AccountsAreWhole
  <2>9. \A other \in Loaders \ {l} : run'[other] = run[other]
    BY <1>3 DEF TablesInv
  <2>10. QED BY <1>1, <1>3, <2>8, <2>9, AddingKeepsLoads DEF LoadsInv
<1>4. QED BY <1>2, <1>3 DEF InsertAccounts

(* An INSERT adds finitely many rows. *)
LEMMA StoredIsFinite ==
    ASSUME NEW n \in Nat, NEW rows, DOMAIN rows \subseteq 1..n, NEW upto
    PROVE  IsFiniteSet(Stored(rows, upto))
<1> DEFINE stored == [i \in DOMAIN rows |-> [rows[i] EXCEPT !.id = upto + Position(rows, i)]]
<1>1. stored \in Surjection(DOMAIN rows, Stored(rows, upto))
  BY DEF Surjection, Stored
<1>2. QED BY <1>1, LinesAreFinite, FS_Surjection

(* A payment between accounts of the file has a line among those inserted, of its
   own, and a line inserted has a row of its own. *)
LEMMA StoredPayments ==
    ASSUME NEW file \in Files, NEW rows, NEW upto, NEW n \in Nat,
           DOMAIN rows \subseteq 1..n, DOMAIN rows \subseteq DOMAIN file.transactions,
           \A i \in DOMAIN file.transactions : file.transactions[i] \in CsvRows(file),
           \A i \in DOMAIN rows : {"id", "ref"} \subseteq DOMAIN rows[i]
                                    /\ rows[i].ref = file.transactions[i].ref,
           \A row \in OwnRows(file) : \E i \in DOMAIN rows : file.transactions[i] = row,
           NEW before, IsFiniteSet(before)
    PROVE  LET after == before \cup Stored(rows, upto)
               brought == {t \in after : \E row \in CsvRows(file) : row.ref = t.ref}
           IN  /\ Refs(OwnRows(file)) \subseteq Refs(brought)
               /\ Count(rows) \in Cardinality(OwnRows(file))..Cardinality(brought)
<1> DEFINE D == DOMAIN rows
           own == OwnRows(file)
           new == Stored(rows, upto)
           after == before \cup new
           brought == {t \in after : \E row \in CsvRows(file) : row.ref = t.ref}
           line == [row \in own |-> CHOOSE i \in D : file.transactions[i] = row]
           stored == [i \in D |-> [rows[i] EXCEPT !.id = upto + Position(rows, i)]]
<1>1. IsFiniteSet(D) /\ Count(rows) = Cardinality(D)
  BY LinesAreFinite DEF Count
<1>2. line \in Injection(own, D)
  <2>1. \A row \in own : line[row] \in D /\ file.transactions[line[row]] = row
    OBVIOUS
  <2>2. line \in [own -> D]
    BY <2>1
  <2>3. \A row, other \in own : line[row] = line[other] => row = other
    BY <2>1
  <2>4. QED BY <2>2, <2>3 DEF Injection, IsInjective
<1>3. IsFiniteSet(own) /\ Cardinality(own) <= Cardinality(D)
  BY <1>1, <1>2, FS_Injection
<1>4. \A i \in D : stored[i] \in new /\ stored[i].ref = rows[i].ref
  BY DEF Stored
<1>5. \A i, j \in D : stored[i] = stored[j] => i = j
  <2>1. \A i, j \in D : file.transactions[i].ref = file.transactions[j].ref => i = j
    BY IngestionAssumption
  <2>2. QED BY <1>4, <2>1
<1>6. IsFiniteSet(after)
  BY StoredIsFinite, FS_Union
<1>7. IsFiniteSet(brought)
  BY <1>6, FS_Subset
<1>8. \A i \in D : stored[i] \in brought
  BY <1>4
<1>9. stored \in Injection(D, brought)
  <2>1. stored \in [D -> brought]
    BY <1>8
  <2>2. QED BY <1>5, <2>1 DEF Injection, IsInjective
<1>10. Cardinality(D) <= Cardinality(brought)
  BY <1>7, <1>9, FS_Injection
<1>11. Cardinality(own) \in Nat /\ Cardinality(D) \in Nat /\ Cardinality(brought) \in Nat
  BY <1>1, <1>3, <1>7, FS_CardinalityType
<1>12. Refs(own) \subseteq Refs(brought)
  <2>1. ASSUME NEW row \in own PROVE row.ref \in Refs(brought)
    <3>1. PICK i \in D : file.transactions[i] = row
      OBVIOUS
    <3>2. stored[i] \in brought /\ stored[i].ref = row.ref
      BY <1>4, <1>8, <3>1
    <3>3. QED BY <3>2 DEF Refs
  <2>2. QED BY <2>1 DEF Refs
<1>13. QED BY <1>1, <1>3, <1>10, <1>11, <1>12

LEMMA InsertTransactionsKeepsLoads ==
    ASSUME TablesInv, LoadsInv, NEW l \in Loaders, InsertTransactions(l) PROVE LoadsInv'
<1> DEFINE rows == TransactionRows(l)
           file == run[l].file
<1>1. UNCHANGED <<files, customers, accounts, completed, resets>>
  BY DEF InsertTransactions, InsertFails
<1>2. CASE InsertFails(l, rows, transactions)
  BY <1>1, <1>2, LeavingKeepsLoads DEF InsertFails
<1>3. CASE /\ transactions' = transactions \cup Stored(rows, last.transactions)
           /\ run' = [run EXCEPT ![l].loaded.transactions = Count(rows)]
           /\ Goto(l, "complete")
  <2>1. run'[l] = [run[l] EXCEPT !.loaded.transactions = Count(rows)] /\ IsRun(run[l])
    BY <1>3 DEF TablesInv, LoaderInv
  <2>2. /\ run'[l].file = file /\ run'[l].since = run[l].since
        /\ run'[l].loaded.customers = run[l].loaded.customers
        /\ run'[l].loaded.accounts = run[l].loaded.accounts
        /\ run'[l].loaded.transactions = Count(rows)
    BY <2>1, CountTransactions
  <2>3. stage[l] = "transactions" /\ stage'[l] = "complete"
    BY <1>3 DEF Goto, TablesInv, InsertTransactions
  <2>4. /\ file \in Files
        /\ \A i \in DOMAIN file.transactions : file.transactions[i] \in CsvRows(file)
    BY <2>3, LinesOfFile
  <2>5. /\ DOMAIN rows \subseteq DOMAIN file.transactions
        /\ \E n \in Nat : DOMAIN rows \subseteq 1..n
        /\ \A i \in DOMAIN rows : /\ {"id", "ref"} \subseteq DOMAIN rows[i]
                                  /\ rows[i].ref = file.transactions[i].ref
    BY <2>3, RowsAreLines DEF TransactionRows
  <2>6. IsFiniteSet(transactions')
    <3>1. PICK n \in Nat : DOMAIN rows \subseteq 1..n
      BY <2>5
    <3>2. IsFiniteSet(Stored(rows, last.transactions))
      BY <3>1, StoredIsFinite
    <3>3. QED BY <1>3, <3>2, FS_Union DEF LoadsInv
  <2> DEFINE brought == {t \in transactions' : \E row \in CsvRows(file) : row.ref = t.ref}
  <2>7. ASSUME run[l].since = resets
        PROVE  /\ Refs(OwnRows(file)) \subseteq Refs(brought)
               /\ Count(rows) \in Cardinality(OwnRows(file))..Cardinality(brought)
    <3>1. AccountRefs(file) \subseteq DOMAIN run[l].number
      BY <2>3, <2>7 DEF LoadsInv, ProgressInv
    <3>2. \A row \in OwnRows(file) : \E i \in DOMAIN rows : file.transactions[i] = row
      BY <2>4, <3>1 DEF OwnRows, TransactionRows, Loadable, CsvRows, ToSet
    <3>3. QED BY <1>3, <2>4, <2>5, <3>2, StoredPayments DEF LoadsInv
  <2>8. ProgressInv(l)'
    <3>1. Past(l, "customers") /\ Past(l, "accounts") /\ ~Past(l, "transactions")
      BY <2>3 DEF Past
    <3>2. ProgressInv(l)
      BY DEF LoadsInv
    <3>3. run[l].since = resets =>
            PaymentsAreWhole(run[l].file, run[l].loaded)'
      BY <2>2, <2>7 DEF PaymentsAreWhole, TransactionsOf, OwnRows
    <3>4. run[l].since = resets =>
            /\ CustomersAreWhole(run[l].file, run[l].loaded)'
            /\ AccountsAreWhole(run[l].file, run[l].loaded)'
      BY <1>1, <2>2, <3>1, <3>2 DEF ProgressInv, CustomersAreWhole, AccountsAreWhole
    <3>5. QED BY <1>1, <2>2, <2>3, <3>2, <3>3, <3>4 DEF ProgressInv
  <2>9. \A other \in Loaders \ {l} : run'[other] = run[other]
    BY <1>3 DEF TablesInv
  <2>10. QED BY <1>1, <1>3, <2>6, <2>8, <2>9, AddingKeepsLoads
<1>4. QED BY <1>2, <1>3 DEF InsertTransactions

(* What a load records as completed is what it has got through. *)
LEMMA CompleteKeepsLoads ==
    ASSUME TablesInv, LoadsInv, NEW l \in Loaders, Complete(l) PROVE LoadsInv'
<1> DEFINE row == [file |-> run[l].file, since |-> run[l].since, loaded |-> run[l].loaded]
<1>1. /\ UNCHANGED <<resets, customers, accounts, transactions>>
      /\ completed' = completed \cup {row} /\ Leave(l)
  BY DEF Complete, tables
<1>2. ProgressInv(l) /\ resets \in Nat /\ IsFiniteSet(transactions)
  BY DEF LoadsInv
<1>3. stage'[l] = "idle" /\ run'[l].since = 0
  BY <1>1 DEF Leave, Goto, TablesInv, NoRun
<1>4. ASSUME NEW other \in Loaders PROVE ProgressInv(other)'
  <2>1. CASE other = l
    BY <1>1, <1>2, <1>3, <2>1 DEF ProgressInv, Past
  <2>2. CASE other # l
    <3>1. stage'[other] = stage[other] /\ run'[other] = run[other]
      BY <1>1, <2>2 DEF Leave, Goto, TablesInv
    <3>2. QED BY <1>1, <1>2, <3>1, OthersProgress DEF LoadsInv
  <2>3. QED BY <2>1, <2>2
<1>5. ASSUME row.since = resets
      PROVE  /\ CustomersAreWhole(row.file, row.loaded)
             /\ AccountsAreWhole(row.file, row.loaded)
             /\ PaymentsAreWhole(row.file, row.loaded)
  <2>1. Past(l, "customers") /\ Past(l, "accounts") /\ Past(l, "transactions")
    BY DEF Complete, Past
  <2>2. QED BY <1>2, <1>5, <2>1 DEF ProgressInv
<1>6. ASSUME NEW c \in completed', c.since = resets
      PROVE  /\ CustomersAreWhole(c.file, c.loaded)
             /\ AccountsAreWhole(c.file, c.loaded)
             /\ PaymentsAreWhole(c.file, c.loaded)
  BY <1>1, <1>5, <1>6 DEF LoadsInv, CompletedLoadsAreWhole
<1>7. CompletedLoadsAreWhole'
  BY <1>1, <1>6 DEF CompletedLoadsAreWhole, CustomersAreWhole, AccountsAreWhole,
                    PaymentsAreWhole, TransactionsOf
<1>8. \A c \in completed' : c.since \in 0..resets
  BY <1>1, <1>2 DEF LoadsInv, ProgressInv
<1>9. QED BY <1>1, <1>2, <1>4, <1>7, <1>8 DEF LoadsInv

LEMMA CrashKeepsLoads ==
    ASSUME TablesInv, LoadsInv, NEW l \in Loaders, Crash(l) PROVE LoadsInv'
BY LeavingKeepsLoads DEF Crash, tables

LEMMA BreakDeadlockKeepsLoads ==
    ASSUME TablesInv, LoadsInv, NEW l \in Loaders, BreakDeadlock(l) PROVE LoadsInv'
BY LeavingKeepsLoads DEF BreakDeadlock, tables

LEMMA UsersKeepLoads ==
    ASSUME LoadsInv,
           UNCHANGED <<customers, accounts, transactions, stage, run, completed, resets>>
    PROVE  LoadsInv'
<1>1. \A l \in Loaders : ProgressInv(l)'
  BY OthersProgress DEF LoadsInv
<1>2. CompletedLoadsAreWhole'
  BY DEF LoadsInv, CompletedLoadsAreWhole, CustomersAreWhole, AccountsAreWhole,
         PaymentsAreWhole, TransactionsOf
<1>3. QED BY <1>1, <1>2 DEF LoadsInv

LEMMA StepKeepsLoadsInv ==
    ASSUME TablesInv, LoadsInv, [SharedNext]_allVars PROVE LoadsInv'
<1>1. ASSUME NEW l \in Loaders, Load(l) PROVE LoadsInv'
  BY <1>1, BeginKeepsLoads, InsertCustomersKeepsLoads, ReadCustomersKeepsLoads,
     InsertAccountsKeepsLoads, ReadAccountsKeepsLoads, InsertTransactionsKeepsLoads,
     CompleteKeepsLoads, BreakDeadlockKeepsLoads, CrashKeepsLoads DEF Load
<1>2. ASSUME NEW l \in Loaders, ResetTables(l) PROVE LoadsInv'
  BY <1>2, LockKeepsLoads, ResetKeepsLoads DEF ResetTables
<1>3. CASE EvaluateRule \/ InsertBatch \/ CompleteRule \/ EngineCrash
  BY <1>3, UsersKeepLoads
     DEF EvaluateRule, InsertBatch, CompleteRule, EngineCrash, vars, tables
<1>4. CASE UseTool
  BY <1>4, ToolsOnlyRead, UsersKeepLoads DEF vars, tables
<1>5. CASE UNCHANGED allVars
  BY <1>5, UsersKeepLoads DEF allVars, vars, tables
<1>6. QED BY <1>1, <1>2, <1>3, <1>4, <1>5 DEF SharedNext

(* CompletedLoadsAreWhole for every instance: no order of loads, failures, crashes
   and resets lets a load be recorded as completed that is not, with counts that
   are not right, unless a reset came while it ran. *)
THEOREM CompletedLoadsAlwaysWhole == SharedSpec => []CompletedLoadsAreWhole
<1>1. SharedInit => TablesInv /\ LoadsInv
  BY InitTablesInv, InitLoadsInv DEF SharedInit
<1>2. TablesInv /\ LoadsInv /\ [SharedNext]_allVars => TablesInv' /\ LoadsInv'
  BY StepKeepsTablesInv, StepKeepsLoadsInv
<1>3. LoadsInv => CompletedLoadsAreWhole
  BY DEF LoadsInv
<1>4. QED BY <1>1, <1>2, <1>3, PTL DEF SharedSpec

-----------------------------------------------------------------------------
(* The rules.  More rows, more money and more counterparties. *)
LEMMA TotalGrows ==
    ASSUME NEW T, IsFiniteSet(T), \A t \in T : t.amount \in Nat, NEW S \in SUBSET T
    PROVE  Total(S) \in Nat /\ Total(T) \in Nat /\ Total(S) <= Total(T)
<1> DEFINE f == [t \in S |-> t.amount]
           g == [t \in T |-> t.amount]
<1>1. DOMAIN f = S /\ DOMAIN g = T /\ IsFiniteSet(S)
  BY FS_Subset
<1>2. (\A t \in T : g[t] \in Nat) /\ \A t \in S : f[t] = g[t]
  OBVIOUS
<1>3. Total(S) = SumFunctionOnSet(f, S) /\ Total(T) = SumFunctionOnSet(g, T)
  BY <1>1 DEF Total, SumFunction
<1> HIDE DEF f, g
<1>4. SumFunctionOnSet(f, S) = SumFunctionOnSet(g, S)
  BY <1>1, <1>2, SumOfEqual
<1>5. /\ SumFunctionOnSet(g, S) \in Nat /\ SumFunctionOnSet(g, T) \in Nat
      /\ SumFunctionOnSet(g, S) <= SumFunctionOnSet(g, T)
  BY <1>1, <1>2, SumIsNat, SumGrows
<1>6. QED BY <1>3, <1>4, <1>5

LEMMA CountGrows ==
    ASSUME NEW T, IsFiniteSet(T), NEW S \in SUBSET T
    PROVE  Cardinality(S) \in Nat /\ Cardinality(T) \in Nat /\ Cardinality(S) <= Cardinality(T)
BY FS_Subset, FS_CardinalityType

Values(rows, col) == {t[col] : t \in rows}

LEMMA DistinctGrow ==
    ASSUME NEW T, IsFiniteSet(T), NEW S \in SUBSET T, NEW col
    PROVE  /\ Cardinality(Values(S, col)) \in Nat /\ Cardinality(Values(T, col)) \in Nat
           /\ Cardinality(Values(S, col)) <= Cardinality(Values(T, col))
<1> DEFINE f == [t \in T |-> t[col]]
<1>1. f \in Surjection(T, Values(T, col))
  BY DEF Surjection, Values
<1>2. IsFiniteSet(Values(T, col))
  BY <1>1, FS_Surjection
<1>3. Values(S, col) \in SUBSET Values(T, col)
  BY DEF Values
<1>4. QED BY <1>2, <1>3, CountGrows

(* A rule that asks for enough of something finds what it found, in more data. *)
LEMMA StructuringGrows ==
    ASSUME NEW T, IsFiniteSet(T), \A t \in T : t.amount \in Nat, NEW S \in SUBSET T
    PROVE  StructuringMatches(S) \subseteq StructuringMatches(T)
<1> DEFINE Sent(table, t) == {o \in SubThreshold(table) : o.sender = t.sender}
           window(table, t) == Window(Sent(table, t), t, Structuring.window)
<1>1. ASSUME NEW t \in StructuringMatches(S)
      PROVE  t \in StructuringMatches(T)
  <2>1. /\ t \in SubThreshold(S)
        /\ Cardinality(window(S, t)) >= Structuring.min_count
        /\ Total(window(S, t)) >= Structuring.min_total
    BY DEF StructuringMatches
  <2>2. /\ t \in SubThreshold(T) /\ window(S, t) \in SUBSET window(T, t)
        /\ window(T, t) \in SUBSET T
    BY <2>1 DEF SubThreshold, Window
  <2>3. IsFiniteSet(window(T, t)) /\ \A o \in window(T, t) : o.amount \in Nat
    BY <2>2, FS_Subset
  <2> HIDE DEF window
  <2>4. /\ Total(window(S, t)) <= Total(window(T, t))
        /\ Total(window(S, t)) \in Nat /\ Total(window(T, t)) \in Nat
    BY <2>2, <2>3, TotalGrows
  <2>5. /\ Cardinality(window(S, t)) <= Cardinality(window(T, t))
        /\ Cardinality(window(S, t)) \in Nat /\ Cardinality(window(T, t)) \in Nat
    BY <2>2, <2>3, CountGrows
  <2>6. Structuring.min_count \in Nat /\ Structuring.min_total \in Nat
    BY StructuringAssumption
  <2>7. /\ Cardinality(window(T, t)) >= Structuring.min_count
        /\ Total(window(T, t)) >= Structuring.min_total
    BY <2>1, <2>4, <2>5, <2>6
  <2>8. QED BY <2>2, <2>7 DEF StructuringMatches, window
<1>2. QED BY <1>1

LEMMA FanGrows ==
    ASSUME NEW T, IsFiniteSet(T), \A t \in T : t.amount \in Nat, NEW S \in SUBSET T,
           NEW hub_col, NEW counterparty_col
    PROVE  FanMatches(S, hub_col, counterparty_col) \subseteq
             FanMatches(T, hub_col, counterparty_col)
<1> DEFINE window(table, t) == Window({o \in table : o[hub_col] = t[hub_col]}, t, Fan.window)
           values(rows) == Values(rows, counterparty_col)
<1>1. ASSUME NEW t \in FanMatches(S, hub_col, counterparty_col)
      PROVE  t \in FanMatches(T, hub_col, counterparty_col)
  <2>1. /\ t \in S
        /\ Cardinality(values(window(S, t))) >= Fan.min_distinct
        /\ Total(window(S, t)) >= Fan.min_total
    BY DEF FanMatches, Values
  <2>2. /\ t \in T /\ window(S, t) \in SUBSET window(T, t)
        /\ window(T, t) \in SUBSET T
    BY <2>1 DEF Window
  <2>3. IsFiniteSet(window(T, t)) /\ \A o \in window(T, t) : o.amount \in Nat
    BY <2>2, FS_Subset
  <2> HIDE DEF window
  <2>4. /\ Total(window(S, t)) <= Total(window(T, t))
        /\ Total(window(S, t)) \in Nat /\ Total(window(T, t)) \in Nat
    BY <2>2, <2>3, TotalGrows
  <2>5. /\ Cardinality(values(window(S, t))) <= Cardinality(values(window(T, t)))
        /\ Cardinality(values(window(S, t))) \in Nat
        /\ Cardinality(values(window(T, t))) \in Nat
    BY <2>2, <2>3, DistinctGrow
  <2>6. Fan.min_distinct \in Nat /\ Fan.min_total \in Nat
    BY FanAssumption
  <2> HIDE DEF values
  <2>7. /\ Cardinality(values(window(T, t))) >= Fan.min_distinct
        /\ Total(window(T, t)) >= Fan.min_total
    BY <2>1, <2>4, <2>5, <2>6
  <2>8. QED BY <2>2, <2>7 DEF FanMatches, window, values, Values
<1>2. QED BY <1>1

LEMMA MatchingGrows ==
    ASSUME NEW T, IsFiniteSet(T), \A t \in T : t.amount \in Nat, NEW S \in SUBSET T,
           NEW code \in RuleCodes, code # "RAPID_MOVEMENT_001"
    PROVE  /\ Matching(code, S) \subseteq Matching(code, T)
           /\ Candidates(code, S) \subseteq Candidates(code, T)
<1>1. Matching(code, S) \subseteq Matching(code, T)
  BY StructuringGrows, FanGrows DEF RuleCodes, Matching, FanIn, FanOut
<1>2. QED BY <1>1 DEF Candidates

(* The payment that completes an incident is found in the incident's own data, and so
   in any that holds it. *)
LEMMA IncidentIsFound ==
    ASSUME NEW T, IsFiniteSet(T), \A t \in T : t.amount \in Nat /\ t.at \in Int,
           NEW S \in SUBSET T, NEW code \in RuleCodes, IsIncident(code, S), NEW t \in Latest(S)
    PROVE  t \in Matching(code, T)
<1>1. t \in S /\ \A o \in S : o \in S /\ o.at <= t.at /\ o.at \in Int
  BY DEF Latest
<1>2. ASSUME NEW length \in Nat, Close(S, length)
      PROVE  Window(S, t, length) = S
  <2>1. \A o \in S : t.at - o.at <= length
    BY <1>1, <1>2 DEF Close
  <2>2. \A o \in S : t.at - length <= o.at
    BY <1>1, <2>1
  <2>3. QED BY <1>1, <2>2 DEF Window
<1>3. CASE code = "STRUCTURING_001"
  <2>1. IsStructured(S)
    BY <1>3 DEF IsIncident
  <2>2. {o \in SubThreshold(S) : o.sender = t.sender} = S
    BY <1>1, <2>1 DEF IsStructured, SubThreshold, SameHub
  <2>3. Window(S, t, Structuring.window) = S
    BY <1>2, <2>1, StructuringAssumption DEF IsStructured
  <2>4. t \in StructuringMatches(S)
    BY <1>1, <2>1, <2>2, <2>3 DEF StructuringMatches, IsStructured, SubThreshold
  <2>5. QED BY <1>3, <2>4, StructuringGrows DEF Matching
<1>4. ASSUME NEW hub_col, NEW counterparty_col, IsFan(S, hub_col, counterparty_col)
      PROVE  t \in FanMatches(T, hub_col, counterparty_col)
  <2>1. {o \in S : o[hub_col] = t[hub_col]} = S
    BY <1>1, <1>4 DEF IsFan, SameHub
  <2>2. Window(S, t, Fan.window) = S
    BY <1>2, <1>4, FanAssumption DEF IsFan
  <2>3. t \in FanMatches(S, hub_col, counterparty_col)
    BY <1>1, <1>4, <2>1, <2>2 DEF FanMatches, IsFan
  <2>4. QED BY <2>3, FanGrows
<1>5. CASE code = "FAN_IN_001"
  BY <1>4, <1>5 DEF IsIncident, Matching, FanIn
<1>6. CASE code = "FAN_OUT_001"
  BY <1>4, <1>6 DEF IsIncident, Matching, FanOut
<1>7. QED BY <1>3, <1>5, <1>6 DEF IsIncident

-----------------------------------------------------------------------------
(* The rows of an INSERT of transactions carry amounts and times of the file, and
   numbers after those there were. *)
LEMMA NewPayments ==
    ASSUME TablesInv, NEW l \in Loaders, stage[l] = "transactions",
           NEW new, new = Stored(TransactionRows(l), last.transactions)
    PROVE  /\ \A t \in new : /\ t.id \in (last.transactions + 1)..
                                        (last.transactions + Count(TransactionRows(l)))
                             /\ t.amount \in Nat /\ t.at \in Nat
           /\ \A t, o \in new : t.id = o.id => t = o
           /\ Count(TransactionRows(l)) \in Nat
           /\ IsFiniteSet(new)
<1> DEFINE rows == TransactionRows(l)
           upto == last.transactions
<1>1. PICK n \in Nat : DOMAIN rows \subseteq 1..n
  BY RowsAreLines
<1>2. upto \in Nat
  BY DEF TablesInv
<1>3. ASSUME NEW i \in DOMAIN rows
      PROVE  /\ rows[i].amount \in Nat /\ rows[i].at \in Nat
             /\ DOMAIN rows[i] = {"id", "ref", "sender", "receiver", "amount", "at"}
  <2>1. i \in DOMAIN run[l].file.transactions
    BY DEF TransactionRows
  <2>2. run[l].file.transactions[i] \in CsvRows(run[l].file) /\ run[l].file \in Files
    BY <2>1, LinesOfFile
  <2>3. run[l].file.transactions[i].amount \in Nat /\ run[l].file.transactions[i].at \in Nat
    BY <2>2, IngestionAssumption
  <2>4. QED BY <2>3 DEF TransactionRows
<1>4. /\ Count(rows) \in Nat
      /\ \A i \in DOMAIN rows : Position(rows, i) \in 1..Count(rows)
      /\ \A i, j \in DOMAIN rows : Position(rows, i) = Position(rows, j) => i = j
  BY <1>1, PositionsCount
<1> HIDE DEF rows
<1>5. ASSUME NEW t \in new
      PROVE  \E i \in DOMAIN rows : /\ t = [rows[i] EXCEPT !.id = upto + Position(rows, i)]
                                    /\ t.id = upto + Position(rows, i)
                                    /\ t.amount = rows[i].amount /\ t.at = rows[i].at
  <2>1. PICK i \in DOMAIN rows : t = [rows[i] EXCEPT !.id = upto + Position(rows, i)]
    BY DEF Stored, rows
  <2>2. QED BY <1>3, <2>1
<1>6. \A t, o \in new : t.id = o.id => t = o
  <2> SUFFICES ASSUME NEW t \in new, NEW o \in new, t.id = o.id PROVE t = o
    OBVIOUS
  <2>1. PICK i \in DOMAIN rows : /\ t = [rows[i] EXCEPT !.id = upto + Position(rows, i)]
                                /\ t.id = upto + Position(rows, i)
    BY <1>5
  <2>2. PICK j \in DOMAIN rows : /\ o = [rows[j] EXCEPT !.id = upto + Position(rows, j)]
                                /\ o.id = upto + Position(rows, j)
    BY <1>5
  <2>3. Position(rows, i) = Position(rows, j)
    BY <1>2, <1>4, <2>1, <2>2
  <2>4. i = j
    BY <1>4, <2>3
  <2>5. QED BY <2>1, <2>2, <2>4
<1>7. \A t \in new : /\ t.id \in (upto + 1)..(upto + Count(rows))
                    /\ t.amount \in Nat /\ t.at \in Nat
  <2> SUFFICES ASSUME NEW t \in new
               PROVE  /\ t.id \in (upto + 1)..(upto + Count(rows))
                      /\ t.amount \in Nat /\ t.at \in Nat
    OBVIOUS
  <2>1. PICK i \in DOMAIN rows : /\ t.id = upto + Position(rows, i)
                                /\ t.amount = rows[i].amount /\ t.at = rows[i].at
    BY <1>5
  <2>2. Position(rows, i) \in 1..Count(rows)
    BY <1>4
  <2>3. QED BY <1>2, <1>3, <1>4, <2>1, <2>2
<1>8. IsFiniteSet(new)
  BY <1>1, StoredIsFinite DEF rows
<1>9. QED BY <1>4, <1>6, <1>7, <1>8 DEF rows

(* A step of a load adds payments after those there are, and nothing else that the
   rule engine sees. *)
LoadAdds ==
    /\ transactions \subseteq transactions'
    /\ last'.transactions \in Nat /\ last.transactions <= last'.transactions
    /\ \A t \in transactions' \ transactions :
         /\ t.id \in (last.transactions + 1)..last'.transactions
         /\ t.amount \in Nat /\ t.at \in Nat
         /\ \A o \in transactions' \ transactions : t.id = o.id => t = o
    /\ UNCHANGED <<alerts, resets>>

LEMMA LoadsOnlyAdd == ASSUME TablesInv, NEW l \in Loaders, Load(l) PROVE LoadAdds
<1>1. last.transactions \in Nat
  BY DEF TablesInv
<1>2. CASE transactions' = transactions /\ last' = last /\ UNCHANGED <<alerts, resets>>
  BY <1>1, <1>2 DEF LoadAdds
<1>3. CASE \/ Begin(l) \/ ReadCustomers(l) \/ ReadAccounts(l) \/ Complete(l)
           \/ BreakDeadlock(l) \/ Crash(l)
  BY <1>2, <1>3 DEF Begin, ReadCustomers, ReadAccounts, Complete, BreakDeadlock, Crash, tables
<1>4. CASE InsertCustomers(l) \/ InsertAccounts(l)
  <2>1. transactions' = transactions /\ UNCHANGED <<alerts, resets>>
    BY <1>4 DEF InsertCustomers, InsertAccounts, InsertFails
  <2>2. last'.transactions = last.transactions
    BY <1>4 DEF InsertCustomers, InsertAccounts, TablesInv
  <2>3. QED BY <1>1, <2>1, <2>2 DEF LoadAdds
<1>5. CASE InsertTransactions(l)
  <2> DEFINE rows == TransactionRows(l)
  <2>1. stage[l] = "transactions" /\ UNCHANGED <<alerts, resets>>
    BY <1>5 DEF InsertTransactions, InsertFails
  <2>2. PICK n \in Nat : DOMAIN rows \subseteq 1..n
    BY <2>1, RowsAreLines
  <2>3. last'.transactions = last.transactions + Assigned(rows, transactions)
    BY <1>5 DEF InsertTransactions, TablesInv
  <2>4. Assigned(rows, transactions) \in Nat
    BY <2>2, AssignedIsNat
  <2>5. last'.transactions \in Nat /\ last.transactions <= last'.transactions
    BY <1>1, <2>3, <2>4
  <2>6. CASE InsertFails(l, rows, transactions)
    BY <2>1, <2>5, <2>6 DEF InsertFails, LoadAdds
  <2>7. CASE /\ Duplicates(rows, transactions) = {}
             /\ transactions' = transactions \cup Stored(rows, last.transactions)
    <3>1. Assigned(rows, transactions) = Count(rows)
      BY <2>7 DEF Assigned
    <3> DEFINE new == Stored(rows, last.transactions)
    <3>2. /\ \A t \in new : /\ t.id \in (last.transactions + 1)..(last.transactions + Count(rows))
                            /\ t.amount \in Nat /\ t.at \in Nat
          /\ \A t, o \in new : t.id = o.id => t = o
      BY <2>1, NewPayments
    <3> HIDE DEF rows
    <3>3. transactions' = transactions \cup new
      BY <2>7
    <3> HIDE DEF new
    <3>4. QED BY <2>1, <2>3, <2>5, <3>1, <3>2, <3>3 DEF LoadAdds
  <2>8. QED BY <1>5, <2>6, <2>7 DEF InsertTransactions
<1>6. QED BY <1>3, <1>4, <1>5 DEF Load

LEMMA LoadKeepsPayments ==
    ASSUME TablesInv, PaymentsInv, NEW l \in Loaders, Load(l) PROVE PaymentsInv'
<1>1. LoadAdds /\ last.transactions \in Nat
  BY LoadsOnlyAdd DEF TablesInv
<1>2. ASSUME NEW t \in transactions'
      PROVE  t.id \in 1..last'.transactions /\ t.amount \in Nat /\ t.at \in Nat
  BY <1>1 DEF LoadAdds, PaymentsInv
<1>3. ASSUME NEW t \in transactions', NEW o \in transactions', t.id = o.id
      PROVE  t = o
  <2>1. ASSUME NEW s \in transactions, NEW r \in transactions' \ transactions
        PROVE  s.id # r.id
    BY <1>1 DEF LoadAdds, PaymentsInv
  <2>2. QED BY <1>1, <1>3, <2>1 DEF LoadAdds, PaymentsInv
<1>4. QED BY <1>2, <1>3 DEF PaymentsInv

LEMMA StepKeepsPayments ==
    ASSUME TablesInv, PaymentsInv, [SharedNext]_allVars PROVE PaymentsInv'
<1>1. ASSUME NEW l \in Loaders, ResetTables(l) PROVE PaymentsInv'
  BY <1>1 DEF ResetTables, LockTransactions, LockAccounts, LockTable, Reset, Truncate, Empty,
              tables, PaymentsInv
<1>2. CASE EvaluateRule \/ InsertBatch \/ CompleteRule \/ EngineCrash
  BY <1>2 DEF EvaluateRule, InsertBatch, CompleteRule, EngineCrash, vars, tables, PaymentsInv
<1>3. CASE UseTool \/ UNCHANGED allVars
  BY <1>3, ToolsOnlyRead DEF allVars, vars, tables, PaymentsInv
<1>4. QED BY <1>1, <1>2, <1>3, LoadKeepsPayments DEF SharedNext

(* Together: what every step keeps of the tables. *)
DataInv == TablesInv /\ LoadsInv /\ PaymentsInv

LEMMA InitDataInv == ASSUME SharedInit PROVE DataInv
BY InitTablesInv, InitLoadsInv DEF SharedInit, DataInv, PaymentsInv, Init

LEMMA StepKeepsDataInv == ASSUME DataInv, [SharedNext]_allVars PROVE DataInv'
BY StepKeepsTablesInv, StepKeepsLoadsInv, StepKeepsPayments DEF DataInv

(* IncidentsAreFound for every instance: whatever payments there are, the one that
   completes an incident is found by the rule for it. *)
THEOREM IncidentsAlwaysFound == SharedSpec => []IncidentsAreFound
<1>1. DataInv => IncidentsAreFound
  BY IncidentIsFound DEF DataInv, LoadsInv, PaymentsInv, IncidentsAreFound
<1>2. SharedInit => DataInv
  BY InitDataInv
<1>3. DataInv /\ [SharedNext]_allVars => DataInv'
  BY StepKeepsDataInv
<1>4. QED BY <1>1, <1>2, <1>3, PTL DEF SharedSpec

-----------------------------------------------------------------------------
(* The candidates of a rule are about the payments it has read. *)
LEMMA CandidatesType ==
    ASSUME NEW code \in RuleCodes, NEW table, NEW c \in Candidates(code, table)
    PROVE  /\ c.rule_code = code
           /\ \E t \in table : /\ c.transaction_id = t.id
                                /\ c.account_id = AlertedAccount(code, t)
<1>1. Matching(code, table) \subseteq table
  BY DEF RuleCodes, Matching, StructuringMatches, SubThreshold, FanIn, FanOut, FanMatches,
         RapidMovementMatches
<1>2. QED BY <1>1 DEF Candidates

(* An alert that is justified stays so while payments are added. *)
LEMMA JustifiedStays ==
    ASSUME DataInv, IsFiniteSet(transactions'), PaymentsInv', transactions \subseteq transactions',
           NEW c, c.rule_code \in RuleCodes, IsJustified(c)
    PROVE  IsJustified(c)'
<1>1. \A t \in transactions' : t.amount \in Nat
  BY DEF PaymentsInv
<1>2. QED BY <1>1, MatchingGrows DEF IsJustified

(* The codes of alerts are those of rules; a scan is of one rule. *)
CodesInv ==
    /\ DOMAIN engine = {"stage", "code", "queue", "since", "upto", "fresh"}
    /\ \A alert \in alerts : alert.rule_code \in RuleCodes
    /\ engine.stage = "insert" => \A c \in engine.queue : c.rule_code = engine.code

EngineInv == CodesInv /\ AlertsInv /\ ScoresInv

LEMMA InitEngineInv == ASSUME SharedInit PROVE EngineInv
BY DEF SharedInit, Init, NoScan, EngineInv, CodesInv, AlertsInv, AlertsStayJustified, ScoresInv

(* A load changes nothing of what has been seen, nor of what it is worth. *)
LEMMA ScoredStays ==
    ASSUME PaymentsInv, LoadAdds, last.transactions \in Nat, misplaced' = misplaced,
           NEW code, NEW upto \in 0..last.transactions, NEW queue, Scored(code, upto, queue)
    PROVE  upto \in 0..last'.transactions /\ Scored(code, upto, queue)'
<1>1. {t \in transactions' : t.id <= upto} = {t \in transactions : t.id <= upto}
  BY DEF PaymentsInv, LoadAdds
<1>2. upto \in 0..last'.transactions
  BY DEF LoadAdds
<1>3. alerts' = alerts
  BY DEF LoadAdds
<1>4. QED BY <1>1, <1>2, <1>3 DEF Scored

(* Only TRUNCATE takes tables from others. *)
LEMMA LoadsTakeNoTable ==
    ASSUME TablesInv, NEW l \in Loaders, Load(l), NEW names, Available(names)
    PROVE  Available(names)'
<1>1. \E to \in Stages \ {"reset_accounts", "reset_customers"} : Goto(l, to)
  <2>1. CASE Begin(l)
    BY <2>1 DEF Begin, Stages, Resets
  <2>2. CASE InsertCustomers(l) \/ InsertAccounts(l) \/ InsertTransactions(l)
    BY <2>2 DEF InsertCustomers, InsertAccounts, InsertTransactions, InsertFails, Leave, Stages
  <2>3. CASE ReadCustomers(l) \/ ReadAccounts(l)
    BY <2>3 DEF ReadCustomers, ReadAccounts, Leave, Stages
  <2>4. CASE Complete(l) \/ BreakDeadlock(l) \/ Crash(l)
    BY <2>4 DEF Complete, BreakDeadlock, Crash, Leave, Stages
  <2>5. QED BY <2>1, <2>2, <2>3, <2>4 DEF Load
<1>2. \A other \in Loaders : Exclusive(other)' \in {{}, Exclusive(other)}
  BY <1>1 DEF Goto, TablesInv, Exclusive
<1>3. QED BY <1>2 DEF Available

(* A TRUNCATE waits for a scan whose SELECT is not committed. *)
LEMMA ScansKeepTruncateOut ==
    ASSUME EngineInv, NEW l \in Loaders, ResetTables(l)
    PROVE  ~(engine.stage = "insert" /\ engine.fresh)
<1> SUFFICES ASSUME engine.stage = "insert", engine.fresh PROVE FALSE
  OBVIOUS
<1>1. Needs(l) # "transactions" /\ "transactions" \notin Exclusive(l)
  BY DEF EngineInv, AlertsInv, Available, ResetTables, NoReaders, HeldByEngine
<1>2. stage[l] \in Resets
  BY DEF ResetTables, LockTransactions, LockAccounts, LockTable, Reset, Resets
<1>3. QED BY <1>1, <1>2 DEF Resets, Needs, Exclusive

LEMMA LoadKeepsEngineInv ==
    ASSUME DataInv, DataInv', EngineInv, NEW l \in Loaders, Load(l) PROVE EngineInv'
<1>1. LoadAdds /\ last.transactions \in Nat
  BY LoadsOnlyAdd DEF DataInv, TablesInv
<1>2. UNCHANGED <<engine, scans, misplaced, alerts, resets>>
  BY <1>1 DEF Load, users, LoadAdds
<1>3. CodesInv'
  BY <1>2 DEF EngineInv, CodesInv
<1>4. \A c : c.rule_code \in RuleCodes /\ IsJustified(c) => IsJustified(c)'
  BY <1>1, JustifiedStays DEF DataInv, LoadsInv, LoadAdds
<1>5. AlertsInv'
  <2>1. Available({"transactions"}) => Available({"transactions"})'
    BY LoadsTakeNoTable DEF DataInv
  <2>2. QED BY <1>2, <1>4, <2>1 DEF EngineInv, CodesInv, AlertsInv, AlertsStayJustified
<1>6. ScoresInv'
  BY <1>1, <1>2, ScoredStays DEF DataInv, EngineInv, ScoresInv
<1>7. QED BY <1>3, <1>5, <1>6 DEF EngineInv

LEMMA ResetKeepsEngineInv ==
    ASSUME DataInv, EngineInv, NEW l \in Loaders, ResetTables(l) PROVE EngineInv'
<1>1. engine' = engine /\ ~(engine.stage = "insert" /\ engine.fresh)
  BY ScansKeepTruncateOut DEF ResetTables, users
<1>2. CASE Reset(l) /\ scans' = {}
  <2>1. alerts' = {} /\ resets' = resets + 1 /\ resets \in Nat
    BY <1>2 DEF Reset, Truncate, DataInv, LoadsInv
  <2>2. engine.stage = "insert" => engine.since \in 0..resets' /\ engine.since # resets'
    BY <2>1 DEF EngineInv, AlertsInv
  <2>3. QED
    BY <1>1, <1>2, <2>1, <2>2
       DEF EngineInv, CodesInv, AlertsInv, AlertsStayJustified, ScoresInv
<1>3. CASE (LockTransactions(l) \/ LockAccounts(l)) /\ UNCHANGED users
  <2>1. UNCHANGED <<transactions, last, alerts, resets, scans, misplaced>>
    BY <1>3 DEF LockTransactions, LockAccounts, LockTable, tables, users
  <2>2. CodesInv' /\ AlertsInv'
    BY <1>1, <2>1 DEF EngineInv, CodesInv, AlertsInv, AlertsStayJustified, IsJustified
  <2>3. ScoresInv'
    BY <1>1, <2>1 DEF EngineInv, ScoresInv, Scored
  <2>4. QED BY <2>2, <2>3 DEF EngineInv
<1>4. QED BY <1>2, <1>3 DEF ResetTables

(* All that completes an incident by now is among the candidates. *)
LEMMA EvaluateKeepsEngineInv ==
    ASSUME DataInv, EngineInv, EvaluateRule PROVE EngineInv'
<1>1. PICK code \in Registry :
        engine' = [stage |-> "insert", code |-> code, since |-> resets,
                   queue |-> Candidates(code, transactions),
                   upto |-> last.transactions, fresh |-> TRUE]
  BY DEF EvaluateRule
<1>2. /\ engine'.stage = "insert" /\ engine'.code = code /\ engine'.since = resets
      /\ engine'.queue = Candidates(code, transactions) /\ engine'.upto = last.transactions
      /\ DOMAIN engine' = {"stage", "code", "queue", "since", "upto", "fresh"}
  BY <1>1
<1>3. UNCHANGED <<vars, scans, misplaced>> /\ code \in RuleCodes
  BY SharedTablesAssumption DEF EvaluateRule
<1>4. UNCHANGED <<transactions, last, alerts, resets>>
  BY <1>3 DEF vars, tables
<1>5. resets \in Nat /\ last.transactions \in Nat
  BY DEF DataInv, LoadsInv, TablesInv
<1>6. CodesInv'
  BY <1>2, <1>3, <1>4, CandidatesType DEF EngineInv, CodesInv
<1>7. AlertsInv'
  <2>1. \A c \in Candidates(code, transactions) : IsJustified(c)
    BY <1>3, CandidatesType DEF IsJustified
  <2>2. Available({"transactions"})'
    BY <1>3 DEF EvaluateRule, Available, Exclusive, vars
  <2>3. QED
    BY <1>2, <1>3, <1>4, <1>5, <2>1, <2>2
       DEF EngineInv, AlertsInv, AlertsStayJustified, IsJustified
<1>8. ScoresInv'
  <2>1. Scored(code, last.transactions, Candidates(code, transactions))
    <3> SUFFICES ASSUME NEW S \in SUBSET {t \in transactions : t.id <= last.transactions},
                        IsIncident(code, S), NEW t \in Latest(S)
                 PROVE  [rule_code |-> code, transaction_id |-> t.id,
                         account_id |-> AlertedAccount(code, t)] \in Candidates(code, transactions)
      BY DEF Scored
    <3>1. t \in Matching(code, transactions)
      BY <1>3, IncidentIsFound DEF DataInv, LoadsInv, PaymentsInv
    <3>2. QED BY <3>1 DEF Candidates
  <2>2. QED
    BY <1>2, <1>3, <1>4, <1>5, <2>1 DEF EngineInv, ScoresInv, Scored
<1>9. QED BY <1>6, <1>7, <1>8 DEF EngineInv

(* A row is stored or has an alert with its key; that one is of the same payment, so on
   the same account, unless it is misplaced. *)
LEMMA BatchIsScored ==
    ASSUME PaymentsInv, EngineInv, NEW code \in RuleCodes, NEW upto, NEW queue, NEW batch,
           Scored(code, upto, queue), alerts' = alerts \cup Inserted(batch),
           misplaced \subseteq misplaced', transactions' = transactions
    PROVE  Scored(code, upto, queue \ batch)'
<1> SUFFICES ASSUME NEW S \in SUBSET {t \in transactions : t.id <= upto},
                    IsIncident(code, S), NEW t \in Latest(S),
                    [rule_code |-> code, transaction_id |-> t.id,
                     account_id |-> AlertedAccount(code, t)] \notin queue \ batch
             PROVE  \E alert \in alerts' :
                      /\ alert.rule_code = code /\ alert.transaction_id = t.id
                      /\ alert.account_id = AlertedAccount(code, t) \/ alert \in misplaced'
  BY DEF Scored
<1> DEFINE c == [rule_code |-> code, transaction_id |-> t.id,
                 account_id |-> AlertedAccount(code, t)]
<1>1. t \in transactions /\ code # "RAPID_MOVEMENT_001"
  BY DEF Latest, IsIncident
<1>2. c.rule_code = code /\ c.transaction_id = t.id /\ c.account_id = AlertedAccount(code, t)
  OBVIOUS
<1> HIDE DEF c
<1>3. CASE c \notin queue
  <2>1. PICK alert \in alerts :
          /\ alert.rule_code = code /\ alert.transaction_id = t.id
          /\ alert.account_id = AlertedAccount(code, t) \/ alert \in misplaced
    BY <1>3 DEF Scored, c
  <2>2. QED BY <2>1
<1>4. CASE c \in batch
  <2>1. CASE c \in Inserted(batch)
    BY <1>2, <2>1
  <2>2. CASE c \notin Inserted(batch)
    <3>1. PICK alert \in alerts : SameKey(alert, c)
      BY <1>4, <2>2 DEF Inserted
    <3>2. alert.rule_code = code /\ alert.transaction_id = t.id
      BY <1>2, <3>1 DEF SameKey
    <3>3. CASE alert \in misplaced
      BY <3>2, <3>3
    <3>4. CASE alert \notin misplaced
      <4>1. alert \in Candidates(code, transactions)
        BY <1>1, <3>2, <3>4 DEF EngineInv, AlertsInv, AlertsStayJustified, IsJustified
      <4>2. PICK o \in transactions : /\ alert.transaction_id = o.id
                                     /\ alert.account_id = AlertedAccount(code, o)
        BY <4>1, CandidatesType
      <4>3. o = t
        BY <1>1, <3>2, <4>2 DEF PaymentsInv
      <4>4. QED BY <3>2, <4>2, <4>3
    <3>5. QED BY <3>3, <3>4
  <2>3. QED BY <2>1, <2>2
<1>5. QED BY <1>3, <1>4 DEF c

LEMMA InsertBatchKeepsEngineInv ==
    ASSUME DataInv, EngineInv, InsertBatch PROVE EngineInv'
<1>1. /\ engine.stage = "insert"
      /\ UNCHANGED <<transactions, last, resets, scans>>
  BY DEF InsertBatch
<1>2. PICK batch \in Batches(engine.queue) :
        \/ /\ alerts' = alerts \cup Inserted(batch)
           /\ misplaced' = IF engine.since # resets /\ ~engine.fresh
                             THEN misplaced \cup Inserted(batch) ELSE misplaced
           /\ engine' = [engine EXCEPT !.queue = @ \ batch, !.fresh = FALSE]
        \/ engine' = NoScan /\ UNCHANGED <<alerts, misplaced>>
  BY DEF InsertBatch
<1>3. CASE engine' = NoScan /\ UNCHANGED <<alerts, misplaced>>
  BY <1>1, <1>3
     DEF EngineInv, CodesInv, AlertsInv, AlertsStayJustified, IsJustified, ScoresInv, Scored, NoScan
<1>4. CASE /\ alerts' = alerts \cup Inserted(batch)
           /\ misplaced' = IF engine.since # resets /\ ~engine.fresh
                             THEN misplaced \cup Inserted(batch) ELSE misplaced
           /\ engine' = [engine EXCEPT !.queue = @ \ batch, !.fresh = FALSE]
  <2>1. batch \subseteq engine.queue
    BY DEF Batches, kSubset
  <2>2. /\ engine'.stage = "insert" /\ engine'.code = engine.code
        /\ engine'.since = engine.since /\ engine'.upto = engine.upto
        /\ engine'.queue = engine.queue \ batch /\ engine'.fresh = FALSE
    BY <1>1, <1>4 DEF EngineInv, CodesInv
  <2>3. Inserted(batch) \subseteq batch /\ misplaced \subseteq misplaced'
    BY <1>4 DEF Inserted
  <2>4. CodesInv'
    <3>1. DOMAIN engine' = DOMAIN engine
      BY <1>4
    <3>2. engine.code \in RuleCodes
      BY <1>1 DEF EngineInv, AlertsInv
    <3>3. QED BY <1>1, <1>4, <2>1, <2>2, <2>3, <3>1, <3>2 DEF EngineInv, CodesInv
  <2>5. AlertsInv'
    <3>1. CASE engine.since = resets
      <4>1. \A c \in Inserted(batch) : IsJustified(c)
        BY <1>1, <2>1, <2>3, <3>1 DEF EngineInv, AlertsInv
      <4>2. misplaced' = misplaced
        BY <1>4, <3>1
      <4>3. QED BY <1>1, <1>4, <2>2, <4>1, <4>2
               DEF EngineInv, AlertsInv, AlertsStayJustified, IsJustified
    <3>2. CASE engine.since # resets
      <4>1. misplaced' = misplaced \cup Inserted(batch)
        BY <1>1, <1>4, <3>2 DEF EngineInv, AlertsInv
      <4>2. alerts' \ misplaced' \subseteq alerts \ misplaced
        BY <1>4, <4>1
      <4>3. QED BY <1>1, <2>2, <3>2, <4>2
               DEF EngineInv, AlertsInv, AlertsStayJustified, IsJustified
    <3>3. QED BY <3>1, <3>2
  <2>6. ScoresInv'
    <3>1. engine.code \in RuleCodes
      BY <1>1 DEF EngineInv, AlertsInv
    <3>2. ASSUME NEW code \in RuleCodes, NEW upto, NEW queue, Scored(code, upto, queue)
          PROVE  Scored(code, upto, queue \ batch)'
      BY <1>1, <1>4, <2>3, <3>2, BatchIsScored DEF DataInv
    <3>3. ASSUME NEW scan \in scans
          PROVE  Scored(scan.code, scan.upto, {})'
      <4>1. scan.code \in RuleCodes /\ Scored(scan.code, scan.upto, {})
        BY DEF EngineInv, ScoresInv
      <4>2. {} \ batch = {}
        OBVIOUS
      <4>3. QED BY <3>2, <4>1, <4>2
    <3>4. ASSUME engine.since = resets
          PROVE  /\ engine'.upto \in 0..last'.transactions
                 /\ Scored(engine.code, engine.upto, engine.queue)'
      <4>1. PICK code, upto, queue :
              engine.code = code /\ engine.upto = upto /\ engine.queue = queue
        OBVIOUS
      <4>2. Scored(code, upto, queue)
        BY <1>1, <3>4, <4>1 DEF EngineInv, ScoresInv
      <4>3. Scored(code, upto, queue \ batch)'
        BY <3>1, <3>2, <4>1, <4>2
      <4>4. engine'.code = code /\ engine'.upto = upto /\ engine'.queue = queue \ batch
        BY <2>2, <4>1
      <4>5. Scored(engine.code, engine.upto, engine.queue)'
        BY <4>3, <4>4 DEF Scored
      <4>6. QED BY <1>1, <2>2, <3>4, <4>5 DEF EngineInv, ScoresInv
    <3>5. QED BY <1>1, <2>2, <3>3, <3>4 DEF EngineInv, ScoresInv
  <2>7. QED BY <2>4, <2>5, <2>6 DEF EngineInv
<1>5. QED BY <1>2, <1>3, <1>4

(* What has been scored is recorded, unless a reset has come. *)
LEMMA CompleteRuleKeepsEngineInv ==
    ASSUME DataInv, EngineInv, CompleteRule PROVE EngineInv'
<1>1. /\ engine.stage = "insert" /\ engine.queue = {} /\ engine' = NoScan
      /\ UNCHANGED <<transactions, last, alerts, resets, misplaced>>
      /\ scans' = IF engine.since = resets
                    THEN scans \cup {[code |-> engine.code, upto |-> engine.upto]} ELSE scans
  BY DEF CompleteRule, vars, tables
<1>2. CodesInv' /\ AlertsInv'
  BY <1>1 DEF EngineInv, CodesInv, AlertsInv, AlertsStayJustified, IsJustified, NoScan
<1>3. ASSUME NEW scan \in scans'
      PROVE  /\ scan.code \in RuleCodes /\ scan.upto \in 0..last.transactions
             /\ Scored(scan.code, scan.upto, {})
  <2>1. CASE scan \in scans
    BY <2>1 DEF EngineInv, ScoresInv
  <2>2. CASE engine.since = resets /\ scan = [code |-> engine.code, upto |-> engine.upto]
    BY <1>1, <2>2 DEF EngineInv, AlertsInv, ScoresInv
  <2>3. QED BY <1>1, <2>1, <2>2
<1>4. ScoresInv'
  BY <1>1, <1>3 DEF ScoresInv, Scored, NoScan
<1>5. QED BY <1>2, <1>4 DEF EngineInv

LEMMA StepKeepsEngineInv ==
    ASSUME DataInv, DataInv', EngineInv, [SharedNext]_allVars PROVE EngineInv'
<1>1. CASE EngineCrash
  BY <1>1 DEF EngineCrash, vars, tables, EngineInv, CodesInv, AlertsInv, AlertsStayJustified,
              IsJustified, ScoresInv, Scored, NoScan
<1>2. CASE UNCHANGED <<vars, engine, scans, misplaced>>
  <2>1. Available({"transactions"})' = Available({"transactions"})
    BY <1>2 DEF Available, Exclusive, vars
  <2>2. QED
    BY <1>2, <2>1 DEF vars, tables, EngineInv, CodesInv, AlertsInv, AlertsStayJustified,
                      IsJustified, ScoresInv, Scored
<1>3. CASE UseTool
  <2>1. UNCHANGED <<engine, scans, misplaced>>
    BY <1>3 DEF UseTool, RefuseCall, GetTransactionHistory, GetLinkedAccounts,
                GetCustomerProfile, GetAlertHistory, Accepted, StartCall,
                DescribeTransaction, DescribeLink
  <2>2. QED BY <1>2, <1>3, <2>1, ToolsOnlyRead
<1>4. CASE UNCHANGED allVars
  BY <1>2, <1>4 DEF allVars, users
<1>5. QED
  BY <1>1, <1>3, <1>4, LoadKeepsEngineInv, ResetKeepsEngineInv, EvaluateKeepsEngineInv,
     InsertBatchKeepsEngineInv, CompleteRuleKeepsEngineInv DEF SharedNext

LEMMA EngineInvHolds == SharedSpec => [](DataInv /\ EngineInv)
<1>1. SharedInit => DataInv /\ EngineInv
  BY InitDataInv, InitEngineInv
<1>2. DataInv /\ EngineInv /\ [SharedNext]_allVars => DataInv' /\ EngineInv'
  BY StepKeepsDataInv, StepKeepsEngineInv
<1>3. QED BY <1>1, <1>2, PTL DEF SharedSpec

(* AlertsStayJustified for every instance: with any batch size, any rules and any order
   of loads and resets, only a batch that a reset has overtaken is not justified. *)
THEOREM AlertsAlwaysJustified == SharedSpec => []AlertsStayJustified
<1>1. EngineInv => AlertsStayJustified
  BY DEF EngineInv, AlertsInv
<1>2. QED BY <1>1, EngineInvHolds, PTL

(* What is scored of a scan makes a true positive of the account and the day. *)
LEMMA ScoredMeansDetected ==
    ASSUME DataInv, EngineInv, NEW scan \in scans, scan.code # "FAN_IN_001",
           NEW S \in SUBSET Seen(scan), IsIncident(scan.code, S),
           NEW t \in {t \in Latest(S) : IsLaundering(t)},
           ~ \E alert \in misplaced : alert.transaction_id = t.id
    PROVE  <<t.sender, DayOf(t)>> \in
             TruePositives(alert_account_days(scan.code, alerts, transactions),
                           ground_truth_account_days(transactions))
<1>1. t \in transactions
  BY DEF Latest, Seen
<1>2. PICK alert \in alerts :
        /\ alert.rule_code = scan.code /\ alert.transaction_id = t.id
        /\ alert.account_id = AlertedAccount(scan.code, t) \/ alert \in misplaced
  BY DEF EngineInv, ScoresInv, Scored, Seen
<1>3. alert.account_id = t.sender
  BY <1>2 DEF AlertedAccount
<1>4. <<t.sender, DayOf(t)>> \in alert_account_days(scan.code, alerts, transactions)
  <2>1. <<alert, t>> \in {p \in alerts \X transactions :
                           p[1].rule_code = scan.code /\ p[1].transaction_id = p[2].id}
    BY <1>1, <1>2
  <2>2. <<alert, t>>[1].account_id = t.sender /\ DayOf(<<alert, t>>[2]) = DayOf(t)
    BY <1>3
  <2>3. QED BY <2>1, <2>2 DEF alert_account_days
<1>5. <<t.sender, DayOf(t)>> \in ground_truth_account_days(transactions)
  BY <1>1 DEF ground_truth_account_days
<1>6. QED BY <1>4, <1>5 DEF TruePositives

(* IncidentsAreScored for every instance: from data to score, through whatever batches,
   crashes, loads and resets there were. *)
THEOREM IncidentsAlwaysScored == SharedSpec => []IncidentsAreScored
<1>1. DataInv /\ EngineInv => IncidentsAreScored
  BY ScoredMeansDetected DEF IncidentsAreScored
<1>2. QED BY <1>1, EngineInvHolds, PTL

-----------------------------------------------------------------------------
(* The tools.  An account of a reference is the one a payment's number leads to. *)
LEMMA PaymentAccounts ==
    ASSUME DataInv, NEW t \in transactions, NEW s \in accounts, NEW r \in accounts,
           s.id = t.sender, r.id = t.receiver
    PROVE  \E file \in files : \E row \in CsvRows(file) :
             row.ref = t.ref /\ row.orig = s.ref /\ row.bene = r.ref
BY TablesInvSuffices DEF DataInv, RowsReferToTheirOwn

(* Whatever window, limit and minimum: a link stands for a payment, in its direction. *)
LEMMA LinksAreTrue ==
    ASSUME DataInv, NEW account \in accounts, NEW days, NEW min,
           NEW link \in Links(account.id, days, min, transactions),
           NEW a \in accounts, a.id = link.counterparty
    PROVE  LinkOf(account.ref, [counterparty |-> a.ref, direction |-> link.direction])
<1> DEFINE window == InWindow(account.id, days, transactions)
           edges == Edges(account.id, window)
           with(c) == {e \in edges : e.counterparty = c}
           directions == {e.direction : e \in with(link.counterparty)}
<1> DEFINE named == {e.counterparty : e \in {e \in edges : Cardinality(with(e.counterparty)) >= min}}
           of(c) == [counterparty |-> c,
                     direction |-> DirectionSummary({e.direction : e \in with(c)}),
                     volume |-> Volume(with(c)), count |-> Cardinality(with(c))]
<1>0. PICK c \in named : link = of(c)
  BY DEF Links
<1>1. PICK e \in edges : link.counterparty = e.counterparty
  BY <1>0
<1>2. link.direction = DirectionSummary(directions)
  <2>1. c = link.counterparty /\ link.direction = DirectionSummary({d.direction : d \in with(c)})
    BY <1>0
  <2>2. QED BY <2>1
<1>3. /\ \A d \in edges : d.direction \in {"sent", "received"}
      /\ \/ e.direction = "sent" /\ \E t \in window : /\ e.counterparty = t.receiver
                                                     /\ t.sender = account.id
         \/ e.direction = "received" /\ \E t \in window : /\ e.counterparty = t.sender
                                                         /\ t.receiver = account.id
  BY DEF Edges
<1>4. window \subseteq transactions
  BY DEF InWindow
<1>5. e.direction \in directions /\ directions \subseteq {"sent", "received"}
  BY <1>1, <1>3
<1> HIDE DEF window, edges, directions
<1>6. CASE e.direction = "sent"
  <2>1. link.direction # "received_only"
    BY <1>2, <1>5, <1>6 DEF DirectionSummary
  <2>2. PICK t \in transactions : a.id = t.receiver /\ t.sender = account.id
    BY <1>1, <1>3, <1>4, <1>6
  <2>3. \E file \in files : \E csv \in CsvRows(file) :
          csv.orig = account.ref /\ csv.bene = a.ref
    BY <2>2, PaymentAccounts
  <2>4. QED BY <2>1, <2>3 DEF LinkOf
<1>7. CASE e.direction = "received"
  <2>1. link.direction # "sent_only"
    BY <1>2, <1>5, <1>7 DEF DirectionSummary
  <2>2. PICK t \in transactions : a.id = t.sender /\ t.receiver = account.id
    BY <1>1, <1>3, <1>4, <1>7
  <2>3. \E file \in files : \E csv \in CsvRows(file) :
          csv.orig = a.ref /\ csv.bene = account.ref
    BY <2>2, PaymentAccounts
  <2>4. QED BY <2>1, <2>3 DEF LinkOf
<1>8. QED BY <1>3, <1>6, <1>7

LEMMA InitCallInv == ASSUME SharedInit PROVE CallInv
BY DEF SharedInit, NoCall, CallInv, AnswersAreTrue

(* An answer under way stays right while rows are added. *)
LEMMA CallStays ==
    ASSUME CallInv, call' = call, files' = files,
           \/ /\ accounts \subseteq accounts' /\ transactions \subseteq transactions'
              /\ resets' = resets
           \/ resets \in Nat /\ resets' = resets + 1
    PROVE  CallInv'
<1>1. AnswersAreTrue'
  BY DEF CallInv, AnswersAreTrue, LinkOf, PaymentOf
<1>2. ASSUME AnsweringInv PROVE AnsweringInv'
  <2>1. call.since \in 0..resets' /\ (call.since = resets' => resets' = resets)
    BY <1>2 DEF AnsweringInv
  <2>2. CASE call.request.tool = "get_linked_accounts"
    BY <1>2, <2>1, <2>2 DEF AnsweringInv, LinkOf
  <2>3. CASE call.request.tool # "get_linked_accounts"
    <3>1. ASSUME call.since = resets'
          PROVE  /\ call.account \in accounts'
                 /\ call.todo \subseteq transactions'
                 /\ \A t \in call.todo : call.account.id \in {t.sender, t.receiver}
                 /\ \A row \in call.rows :
                      PaymentOf(row) /\ call.request.ref \in {row.sender, row.receiver}
      BY <1>2, <2>1, <2>3, <3>1 DEF AnsweringInv
    <3>2. QED BY <1>2, <2>1, <2>3, <3>1 DEF AnsweringInv, PaymentOf
  <2>4. QED BY <2>2, <2>3
<1>3. QED BY <1>1, <1>2 DEF CallInv

LEMMA LoadsKeepFiles ==
    ASSUME TablesInv, NEW l \in Loaders, Load(l)
    PROVE  files' = files /\ accounts \subseteq accounts'
BY DEF Load, Begin, InsertCustomers, ReadCustomers, InsertAccounts, ReadAccounts,
       InsertTransactions, InsertFails, Complete, BreakDeadlock, Crash, tables

(* An error, a profile and a list of alerts are answers at once. *)
LEMMA RefusedCall ==
    ASSUME CallInv, Refuse PROVE CallInv'
BY DEF Refuse, NoCall, CallInv, AnswersAreTrue

LEMMA ProfileKeepsCallInv ==
    ASSUME DataInv, CallInv, NEW request, GetCustomerProfile(request) PROVE CallInv'
<1>1. request.tool = "get_customer_profile"
  BY DEF GetCustomerProfile, Accepted
<1>2. PICK c \in CustomersOf(request.type, request.ref, accounts, customers) :
        call' = [NoCall EXCEPT !.stage = "done", !.request = request, !.status = "ok",
                   !.rows = {c.ref}]
  BY DEF GetCustomerProfile, pseudonymize_customer, Answer
<1>3. c.ref = request.ref
  <2>1. CASE request.type = "account"
    <3>1. PICK a \in accounts : a.customer_id = c.id /\ a.ref = request.ref /\ c \in customers
      BY <1>2, <2>1 DEF CustomersOf
    <3>2. PICK d \in customers : d.id = a.customer_id /\ d.ref = a.ref
      BY DEF DataInv, TablesInv, RowsInv
    <3>3. c.ref = d.ref
      BY <3>1, <3>2 DEF DataInv, TablesInv, NumbersAreUnique
    <3>4. QED BY <3>1, <3>2, <3>3
  <2>2. CASE request.type # "account"
    BY <1>2, <2>2 DEF CustomersOf
  <2>3. QED BY <2>1, <2>2
<1>4. QED BY <1>1, <1>2, <1>3 DEF NoCall, CallInv, AnswersAreTrue

LEMMA AlertHistoryKeepsCallInv ==
    ASSUME CallInv, NEW request, GetAlertHistory(request) PROVE CallInv'
<1>1. request.tool = "get_alert_history"
  BY DEF GetAlertHistory, Accepted
<1>2. PICK rows :
        call' = [NoCall EXCEPT !.stage = "done", !.request = request, !.status = "ok",
                   !.rows = rows]
  BY DEF GetAlertHistory, Answer
<1>3. QED BY <1>1, <1>2 DEF NoCall, CallInv, AnswersAreTrue

(* What a description of rows begins with. *)
LEMMA Described ==
    ASSUME NEW request, NEW account, NEW rows, Describe(request, account, rows)
    PROVE  /\ DOMAIN call' = DOMAIN NoCall
           /\ call'.stage = IF rows = {} THEN "done" ELSE "answering"
           /\ call'.status = IF rows = {} THEN "ok" ELSE "none"
           /\ call'.request = request /\ call'.account = account /\ call'.todo = rows
           /\ call'.rows = {} /\ call'.since = resets
BY DEF Describe, NoCall

LEMMA LinkedAccountsKeepsCallInv ==
    ASSUME DataInv, CallInv, NEW request, GetLinkedAccounts(request) PROVE CallInv'
<1>1. /\ request.tool = "get_linked_accounts"
      /\ UNCHANGED <<files, resets>>
  BY DEF GetLinkedAccounts, Accepted, StartCall, vars
<1>2. PICK account \in AccountsOf(request) :
        \E links \in Top(Links(account.id, request.days_back, request.min_interactions,
                               transactions), "volume", request.limit) :
          Describe(request, account,
            {[account |-> pair[1], link |-> pair[2]] : pair \in
               {p \in accounts \X links : p[1].id = p[2].counterparty}})
  BY DEF GetLinkedAccounts
<1>3. PICK links \in Top(Links(account.id, request.days_back, request.min_interactions,
                              transactions), "volume", request.limit) :
        Describe(request, account,
            {[account |-> pair[1], link |-> pair[2]] : pair \in
               {p \in accounts \X links : p[1].id = p[2].counterparty}})
  BY <1>2
<1> DEFINE rows == {[account |-> pair[1], link |-> pair[2]] : pair \in
                      {p \in accounts \X links : p[1].id = p[2].counterparty}}
<1>4. links \subseteq Links(account.id, request.days_back, request.min_interactions,
                            transactions)
  BY DEF Top, kSubset
<1>5. account \in accounts /\ account.ref = request.ref
  BY DEF AccountsOf
<1>6. ASSUME NEW item \in rows
      PROVE  LinkOf(request.ref,
                    [counterparty |-> item.account.ref, direction |-> item.link.direction])
  <2>1. /\ item.account \in accounts /\ item.link \in links
        /\ item.account.id = item.link.counterparty
    OBVIOUS
  <2>2. QED BY <1>4, <1>5, <2>1, LinksAreTrue
<1> HIDE DEF rows
<1>7. /\ DOMAIN call' = DOMAIN NoCall
      /\ call'.stage = IF rows = {} THEN "done" ELSE "answering"
      /\ call'.status = IF rows = {} THEN "ok" ELSE "none"
      /\ call'.request = request /\ call'.account = account /\ call'.todo = rows
      /\ call'.rows = {} /\ call'.since = resets
  BY <1>3, Described DEF rows
<1>8. resets \in Nat
  BY DEF DataInv, LoadsInv
<1>9. AnswersAreTrue'
  BY <1>1, <1>7 DEF AnswersAreTrue
<1>10. AnsweringInv'
  BY <1>1, <1>5, <1>6, <1>7, <1>8 DEF AnsweringInv, LinkOf
<1>11. QED BY <1>7, <1>9, <1>10 DEF CallInv

LEMMA TransactionHistoryKeepsCallInv ==
    ASSUME DataInv, CallInv, NEW request, GetTransactionHistory(request) PROVE CallInv'
<1>1. /\ request.tool = "get_transaction_history"
      /\ UNCHANGED <<files, accounts, transactions, resets>>
  BY DEF GetTransactionHistory, Accepted, StartCall, vars, tables
<1>2. PICK account \in AccountsOf(request) :
        \E rows \in Top(InWindow(account.id, request.days_back, transactions), "at",
                        request.limit) :
          Describe(request, account, rows)
  BY DEF GetTransactionHistory
<1>3. PICK rows \in Top(InWindow(account.id, request.days_back, transactions), "at",
                        request.limit) :
        Describe(request, account, rows)
  BY <1>2
<1>4. rows \subseteq transactions /\ \A t \in rows : account.id \in {t.sender, t.receiver}
  BY DEF Top, kSubset, InWindow
<1>5. account \in accounts /\ account.ref = request.ref
  BY DEF AccountsOf
<1>6. /\ DOMAIN call' = DOMAIN NoCall
      /\ call'.stage = IF rows = {} THEN "done" ELSE "answering"
      /\ call'.status = IF rows = {} THEN "ok" ELSE "none"
      /\ call'.request = request /\ call'.account = account /\ call'.todo = rows
      /\ call'.rows = {} /\ call'.since = resets
  BY <1>3, Described
<1>7. resets \in Nat
  BY DEF DataInv, LoadsInv
<1>8. AnswersAreTrue'
  BY <1>1, <1>6 DEF AnswersAreTrue
<1>9. AnsweringInv'
  BY <1>1, <1>4, <1>5, <1>6, <1>7 DEF AnsweringInv
<1>10. QED BY <1>6, <1>8, <1>9 DEF CallInv

(* One more row of an answer. *)
LEMMA Progressed ==
    ASSUME CallInv, NEW item, NEW row, NEW tokens, Progress(item, row, tokens)
    PROVE  /\ DOMAIN call' = DOMAIN NoCall
           /\ call'.stage = IF call.todo = {item} THEN "done" ELSE "answering"
           /\ call'.status = IF call.todo = {item} THEN "ok" ELSE "none"
           /\ call'.request = call.request /\ call'.account = call.account
           /\ call'.todo = call.todo \ {item} /\ call'.rows = call.rows \cup {row}
           /\ call'.since = call.since /\ call'.overtaken = (resets # call.since)
BY DEF Progress, CallInv, NoCall

LEMMA DescribeLinkKeepsCallInv ==
    ASSUME DataInv, CallInv, NEW item, DescribeLink(item) PROVE CallInv'
<1>1. /\ call.stage = "answering" /\ call.request.tool = "get_linked_accounts"
      /\ item \in call.todo /\ UNCHANGED <<files, resets>>
  BY DEF DescribeLink, vars
<1> DEFINE row == [counterparty |-> item.account.ref, direction |-> item.link.direction,
                   volume |-> item.link.volume, count |-> item.link.count]
<1>2. Progress(item, row, {<<"account", item.account.ref>>})
  BY DEF DescribeLink, Counterparty
<1>3. LinkOf(call.request.ref, row)
  <2>1. LinkOf(call.request.ref,
               [counterparty |-> item.account.ref, direction |-> item.link.direction])
    BY <1>1 DEF CallInv, AnsweringInv
  <2>2. QED BY <2>1 DEF LinkOf
<1> HIDE DEF row
<1>4. /\ DOMAIN call' = DOMAIN NoCall
      /\ call'.stage = IF call.todo = {item} THEN "done" ELSE "answering"
      /\ call'.status = IF call.todo = {item} THEN "ok" ELSE "none"
      /\ call'.request = call.request /\ call'.account = call.account
      /\ call'.todo = call.todo \ {item} /\ call'.rows = call.rows \cup {row}
      /\ call'.since = call.since
  BY <1>2, Progressed
<1>5. AnsweringInv
  BY <1>1 DEF CallInv
<1>6. /\ \A other \in call'.todo :
           LinkOf(call.request.ref,
                  [counterparty |-> other.account.ref, direction |-> other.link.direction])
      /\ \A other \in call'.rows : LinkOf(call.request.ref, other)
  BY <1>1, <1>3, <1>4, <1>5 DEF AnsweringInv
<1>7. AnsweringInv'
  BY <1>1, <1>4, <1>5, <1>6 DEF AnsweringInv, LinkOf
<1>8. AnswersAreTrue'
  BY <1>1, <1>4, <1>6 DEF AnswersAreTrue, LinkOf
<1>9. QED BY <1>4, <1>7, <1>8 DEF CallInv

(* A number that is looked up leads to the account of the payment, unless the tables have
   been replaced. *)
LEMMA LookUpLeads ==
    ASSUME DataInv, call.account \in accounts, NEW id, NEW ref \in LookUp(id)
    PROVE  \E a \in accounts : a.id = id /\ a.ref = ref
BY DEF LookUp, Refs

LEMMA PaymentIsTrue ==
    ASSUME DataInv, call.account \in accounts, NEW t \in transactions,
           call.account.id \in {t.sender, t.receiver},
           NEW sender \in LookUp(t.sender), NEW receiver \in LookUp(t.receiver)
    PROVE  /\ PaymentOf([ref |-> t.ref, sender |-> sender, receiver |-> receiver])
           /\ call.account.ref \in {sender, receiver}
<1>1. PICK s \in accounts : s.id = t.sender /\ s.ref = sender
  BY LookUpLeads
<1>2. PICK r \in accounts : r.id = t.receiver /\ r.ref = receiver
  BY LookUpLeads
<1>3. \E file \in files : \E row \in CsvRows(file) :
        row.ref = t.ref /\ row.orig = s.ref /\ row.bene = r.ref
  BY <1>1, <1>2, PaymentAccounts
<1>4. call.account.ref \in {sender, receiver}
  BY DEF LookUp
<1>5. QED BY <1>1, <1>2, <1>3, <1>4 DEF PaymentOf

LEMMA DescribeTransactionKeepsCallInv ==
    ASSUME DataInv, CallInv, NEW t, DescribeTransaction(t) PROVE CallInv'
<1>1. /\ call.stage = "answering" /\ call.request.tool = "get_transaction_history"
      /\ t \in call.todo /\ UNCHANGED <<files, accounts, transactions, resets>>
      /\ pseudonymize_transaction(t)
  BY DEF DescribeTransaction, vars, tables
<1>2. AnsweringInv
  BY <1>1 DEF CallInv
<1>3. CASE Refuse
  BY <1>3, RefusedCall
<1>4. ASSUME NEW sender \in LookUp(t.sender), NEW receiver \in LookUp(t.receiver),
             Progress(t, [ref |-> t.ref, sender |-> sender, receiver |-> receiver],
                      {<<"transaction", t.ref>>, <<"account", sender>>, <<"account", receiver>>})
      PROVE  CallInv'
  <2> DEFINE row == [ref |-> t.ref, sender |-> sender, receiver |-> receiver]
  <2>1. ASSUME call.since = resets
        PROVE  PaymentOf(row) /\ call.request.ref \in {row.sender, row.receiver}
    <3>1. /\ call.account \in accounts /\ t \in transactions
          /\ call.account.id \in {t.sender, t.receiver} /\ call.account.ref = call.request.ref
      BY <1>1, <1>2, <2>1 DEF AnsweringInv
    <3>2. PaymentOf(row) /\ call.account.ref \in {sender, receiver}
      BY <3>1, PaymentIsTrue
    <3>3. row.sender = sender /\ row.receiver = receiver
      OBVIOUS
    <3>4. QED BY <3>1, <3>2, <3>3
  <2> HIDE DEF row
  <2>2. /\ DOMAIN call' = DOMAIN NoCall
        /\ call'.stage = IF call.todo = {t} THEN "done" ELSE "answering"
        /\ call'.status = IF call.todo = {t} THEN "ok" ELSE "none"
        /\ call'.request = call.request /\ call'.account = call.account
        /\ call'.todo = call.todo \ {t} /\ call'.rows = call.rows \cup {row}
        /\ call'.since = call.since /\ call'.overtaken = (resets # call.since)
    BY <1>4, Progressed DEF row
  <2>3. ASSUME call.since = resets
        PROVE  /\ call.account \in accounts
               /\ call'.todo \subseteq transactions
               /\ \A o \in call'.todo : call.account.id \in {o.sender, o.receiver}
               /\ \A r \in call'.rows :
                    PaymentOf(r) /\ call.request.ref \in {r.sender, r.receiver}
    BY <1>1, <1>2, <2>1, <2>2, <2>3 DEF AnsweringInv
  <2>4. AnsweringInv'
    BY <1>1, <1>2, <2>2, <2>3 DEF AnsweringInv, PaymentOf
  <2>5. AnswersAreTrue'
    BY <1>1, <2>2, <2>3 DEF AnswersAreTrue, PaymentOf
  <2>6. QED BY <2>2, <2>4, <2>5 DEF CallInv
<1>5. QED BY <1>1, <1>3, <1>4 DEF pseudonymize_transaction

LEMMA StepKeepsCallInv ==
    ASSUME DataInv, CallInv, [SharedNext]_allVars PROVE CallInv'
<1>1. ASSUME NEW l \in Loaders, Load(l) PROVE CallInv'
  <2>1. call' = call
    BY <1>1 DEF Load, users
  <2>2. LoadAdds /\ files' = files /\ accounts \subseteq accounts'
    BY <1>1, LoadsOnlyAdd, LoadsKeepFiles DEF DataInv
  <2>3. QED BY <2>1, <2>2, CallStays DEF LoadAdds
<1>2. ASSUME NEW l \in Loaders, ResetTables(l) PROVE CallInv'
  BY <1>2, CallStays
     DEF ResetTables, LockTransactions, LockAccounts, LockTable, Reset, tables, users,
         DataInv, LoadsInv
<1>3. CASE EvaluateRule \/ InsertBatch \/ CompleteRule \/ EngineCrash \/ UNCHANGED allVars
  BY <1>3, CallStays
     DEF EvaluateRule, InsertBatch, CompleteRule, EngineCrash, allVars, users, vars, tables
<1>4. CASE UseTool
  <2>1. ASSUME NEW request, RefuseCall(request) PROVE CallInv'
    BY <2>1, RefusedCall DEF RefuseCall
  <2>2. QED
    BY <1>4, <2>1, TransactionHistoryKeepsCallInv, LinkedAccountsKeepsCallInv,
       ProfileKeepsCallInv, AlertHistoryKeepsCallInv, DescribeTransactionKeepsCallInv,
       DescribeLinkKeepsCallInv DEF UseTool
<1>5. QED BY <1>1, <1>2, <1>3, <1>4 DEF SharedNext

LEMMA CallInvHolds == SharedSpec => [](DataInv /\ CallInv)
<1>1. SharedInit => DataInv /\ CallInv
  BY InitDataInv, InitCallInv
<1>2. DataInv /\ CallInv /\ [SharedNext]_allVars => DataInv' /\ CallInv'
  BY StepKeepsDataInv, StepKeepsCallInv
<1>3. QED BY <1>1, <1>2, PTL DEF SharedSpec

(* AnswersAreTrue for every instance: whatever is asked, in any data, and wherever
   a reset comes between two rows. *)
THEOREM AnswersAlwaysTrue == SharedSpec => []AnswersAreTrue
<1>1. CallInv => AnswersAreTrue
  BY DEF CallInv
<1>2. QED BY <1>1, CallInvHolds, PTL

-----------------------------------------------------------------------------
(* The links of an account.  Without transfers to oneself, an edge is a payment. *)
LEMMA EdgesArePayments ==
    ASSUME NEW window, IsFiniteSet(window), NEW id,
           \A t \in window : id \in {t.sender, t.receiver} /\ t.sender # t.receiver
    PROVE  /\ IsFiniteSet(Edges(id, window))
           /\ {e.row : e \in Edges(id, window)} = window
           /\ \A e, d \in Edges(id, window) : e.row = d.row => e = d
<1> DEFINE edge == [t \in window |->
                      IF t.sender = id
                        THEN [counterparty |-> t.receiver, direction |-> "sent", row |-> t]
                        ELSE [counterparty |-> t.sender, direction |-> "received", row |-> t]]
<1>1. /\ \A e \in Edges(id, window) : e.row \in window /\ e = edge[e.row]
      /\ \A t \in window : edge[t] \in Edges(id, window) /\ edge[t].row = t
  <2>1. ASSUME NEW e \in Edges(id, window) PROVE e.row \in window /\ e = edge[e.row]
    <3>1. CASE \E t \in {t \in window : t.sender = id} :
                 e = [counterparty |-> t.receiver, direction |-> "sent", row |-> t]
      BY <3>1
    <3>2. CASE \E t \in {t \in window : t.receiver = id} :
                 e = [counterparty |-> t.sender, direction |-> "received", row |-> t]
      <4>1. PICK t \in window :
              /\ t.receiver = id
              /\ e = [counterparty |-> t.sender, direction |-> "received", row |-> t]
        BY <3>2
      <4>2. t.sender # id
        BY <4>1
      <4>3. QED BY <4>1, <4>2
    <3>3. QED BY <3>1, <3>2 DEF Edges
  <2>2. ASSUME NEW t \in window PROVE edge[t] \in Edges(id, window) /\ edge[t].row = t
    <3>1. CASE t.sender = id
      BY <3>1 DEF Edges
    <3>2. CASE t.sender # id
      <4>1. t.receiver = id
        BY <3>2
      <4>2. edge[t] = [counterparty |-> t.sender, direction |-> "received", row |-> t]
        BY <3>2
      <4>3. QED BY <4>1, <4>2 DEF Edges
    <3>3. QED BY <3>1, <3>2
  <2>3. QED BY <2>1, <2>2
<1> HIDE DEF edge
<1>2. DOMAIN edge = window /\ edge = [t \in window |-> edge[t]]
  BY DEF edge
<1>3. edge \in Surjection(window, Edges(id, window))
  BY <1>1, <1>2 DEF Surjection
<1>4. IsFiniteSet(Edges(id, window))
  BY <1>3, FS_Surjection
<1>5. \A e, d \in Edges(id, window) : e.row = d.row => e = d
  BY <1>1
<1>6. {e.row : e \in Edges(id, window)} = window
  BY <1>1
<1>7. QED BY <1>4, <1>5, <1>6

(* With a minimum of one, each counterparty has a link. *)
With(c, edges) == {e \in edges : e.counterparty = c}
Partners(edges) == {e.counterparty : e \in edges}
LinkTo(c, edges) == [counterparty |-> c,
                     direction |-> DirectionSummary({e.direction : e \in With(c, edges)}),
                     volume |-> Volume(With(c, edges)), count |-> Cardinality(With(c, edges))]
AllLinks(edges) == {LinkTo(c, edges) : c \in Partners(edges)}

LEMMA EveryPartnerIsLinked ==
    ASSUME NEW id, NEW days, NEW table, NEW edges,
           edges = Edges(id, InWindow(id, days, table)), IsFiniteSet(edges)
    PROVE  Links(id, days, 1, table) = AllLinks(edges)
<1> DEFINE named == {e.counterparty : e \in {e \in edges : Cardinality(With(e.counterparty, edges)) >= 1}}
<1>1. \A e \in edges : Cardinality(With(e.counterparty, edges)) >= 1
  <2>1. ASSUME NEW e \in edges PROVE Cardinality(With(e.counterparty, edges)) >= 1
    <3> DEFINE W == With(e.counterparty, edges)
    <3>1. e \in W /\ W \subseteq edges
      BY DEF With
    <3> HIDE DEF W
    <3>2. IsFiniteSet(W) /\ Cardinality(W) \in Nat /\ Cardinality(W) # 0
      BY <3>1, FS_Subset, FS_EmptySet, FS_CardinalityType
    <3>3. QED BY <3>2 DEF W
  <2>2. QED BY <2>1
<1>2. named = Partners(edges)
  BY <1>1 DEF Partners
<1>3. Links(id, days, 1, table) = {LinkTo(c, edges) : c \in named}
  BY DEF Links, LinkTo, With
<1>4. QED BY <1>2, <1>3 DEF AllLinks

(* What links say of their edges adds up to what the edges say. *)
LEMMA SumOfLinks ==
    ASSUME NEW edges, IsFiniteSet(edges), NEW f, \A e \in edges : f[e] \in Nat,
           NEW g, DOMAIN g = AllLinks(edges),
           \A c \in Partners(edges) :
             g[LinkTo(c, edges)] = SumFunctionOnSet(f, With(c, edges))
    PROVE  SumFunction(g) = SumFunctionOnSet(f, edges)
<1> DEFINE key == [e \in edges |-> e.counterparty]
           group == [c \in Partners(edges) |-> With(c, edges)]
           h == [c \in Partners(edges) |-> SumFunctionOnSet(f, With(c, edges))]
           name == [c \in Partners(edges) |-> LinkTo(c, edges)]
<1>1. \A e \in edges : key[e] \in Partners(edges)
  BY DEF Partners
<1>2. \A c \in Partners(edges) : \A e : e \in group[c] <=> e \in edges /\ key[e] = c
  BY DEF With
<1>3. {name[c] : c \in Partners(edges)} = AllLinks(edges)
  BY DEF AllLinks
<1>4. \A c \in Partners(edges) : /\ h[c] = SumFunctionOnSet(f, With(c, edges))
                                /\ group[c] = With(c, edges)
  OBVIOUS
<1>5. \A c \in Partners(edges) : IsFiniteSet(With(c, edges)) /\ h[c] \in Nat
  <2>1. \A c : With(c, edges) \subseteq edges
    BY DEF With
  <2> HIDE DEF h
  <2>2. ASSUME NEW c \in Partners(edges) PROVE IsFiniteSet(With(c, edges)) /\ h[c] \in Nat
    <3>1. IsFiniteSet(With(c, edges)) /\ \A e \in With(c, edges) : f[e] \in Nat
      BY <2>1, FS_Subset
    <3>2. QED BY <1>4, <3>1, SumIsNat
  <2>3. QED BY <2>2
<1>6. \A c \in Partners(edges) : h[c] = g[name[c]]
  OBVIOUS
<1>7. \A c, d \in Partners(edges) : name[c] = name[d] => c = d
  <2>1. \A c : LinkTo(c, edges).counterparty = c
    BY DEF LinkTo
  <2>2. QED BY <2>1
<1>8. IsFiniteSet(Partners(edges))
  <2>1. key \in Surjection(edges, Partners(edges))
    BY DEF Surjection, Partners
  <2> HIDE DEF key
  <2>2. QED BY <2>1, FS_Surjection
<1> HIDE DEF key, group, h, name
<1>9. SumFunctionOnSet(h, Partners(edges)) = SumFunctionOnSet(f, edges)
  <2>1. \A c \in Partners(edges) : h[c] = SumFunctionOnSet(f, group[c])
    BY <1>4
  <2>2. QED BY <1>1, <1>2, <1>8, <2>1, SumByGroups
<1>10. SumFunctionOnSet(g, AllLinks(edges)) = SumFunctionOnSet(h, Partners(edges))
  <2>1. \A c \in Partners(edges) : h[c] \in Nat /\ h[c] = g[name[c]]
    BY <1>5, <1>6
  <2>2. SumFunctionOnSet(g, {name[c] : c \in Partners(edges)}) =
          SumFunctionOnSet(h, Partners(edges))
    BY <1>7, <1>8, <2>1, SumRenamed
  <2>3. QED BY <1>3, <2>2
<1>11. QED BY <1>9, <1>10 DEF SumFunction

(* A link's volume is that of its edges, whatever set they are taken from. *)
LEMMA VolumeOf ==
    ASSUME NEW edges, IsFiniteSet(edges), NEW E \in SUBSET edges
    PROVE  Volume(E) = SumFunctionOnSet([e \in edges |-> e.row.amount], E)
<1> DEFINE f == [e \in E |-> e.row.amount]
           g == [e \in edges |-> e.row.amount]
<1>1. DOMAIN f = E /\ \A e \in E : f[e] = g[e]
  OBVIOUS
<1>2. IsFiniteSet(E)
  BY FS_Subset
<1>3. Volume(E) = SumFunctionOnSet(f, E)
  BY <1>1 DEF Volume, SumFunction
<1> HIDE DEF f, g
<1>4. SumFunctionOnSet(f, E) = SumFunctionOnSet(g, E)
  BY <1>1, <1>2, SumOfEqual
<1>5. QED BY <1>3, <1>4 DEF g

LEMMA LinksOfPayments ==
    ASSUME NEW table, IsFiniteSet(table), NEW id, NEW days,
           \A t \in table : t.amount \in Nat /\ t.sender # t.receiver
    PROVE  LET links == Links(id, days, 1, table)
               window == InWindow(id, days, table)
           IN  /\ SumFunction([link \in links |-> link.count]) = Cardinality(window)
               /\ SumFunction([link \in links |-> link.volume]) = Total(window)
<1> DEFINE window == InWindow(id, days, table)
           edges == Edges(id, window)
           one == [e \in edges |-> 1]
           amount == [e \in edges |-> e.row.amount]
           counts == [link \in AllLinks(edges) |-> link.count]
           volumes == [link \in AllLinks(edges) |-> link.volume]
           paid == [t \in window |-> t.amount]
           row == [e \in edges |-> e.row]
<1>1. window \subseteq table /\ \A t \in window : id \in {t.sender, t.receiver}
  BY DEF InWindow
<1>2. IsFiniteSet(window)
  <2> HIDE DEF window
  <2> QED BY <1>1, FS_Subset
<1>3. /\ IsFiniteSet(edges) /\ {e.row : e \in edges} = window
      /\ \A e, d \in edges : e.row = d.row => e = d
  <2> HIDE DEF window
  <2> QED BY <1>1, <1>2, EdgesArePayments
<1>4. Links(id, days, 1, table) = AllLinks(edges)
  BY <1>3, EveryPartnerIsLinked
<1> HIDE DEF edges
<1>5. \A e \in edges : one[e] = 1 /\ amount[e] \in Nat /\ amount[e] = paid[row[e]]
  <2> HIDE DEF window
  <2>1. \A e \in edges : e.row \in window
    BY <1>3
  <2>2. \A e \in edges : e.row.amount \in Nat
    BY <1>1, <2>1
  <2>3. QED BY <2>1, <2>2
<1>6. \A c : With(c, edges) \subseteq edges
  BY DEF With
<1>7. \A c \in Partners(edges) : LinkTo(c, edges) \in AllLinks(edges)
  BY DEF AllLinks
<1>8. SumFunction(counts) = SumFunctionOnSet(one, edges)
  <2>1. ASSUME NEW c \in Partners(edges)
        PROVE  counts[LinkTo(c, edges)] = SumFunctionOnSet(one, With(c, edges))
    <3>1. counts[LinkTo(c, edges)] = Cardinality(With(c, edges))
      BY <1>7 DEF LinkTo
    <3> DEFINE W == With(c, edges)
    <3>2. IsFiniteSet(W) /\ \A e \in W : one[e] = 1
      <4>1. W \subseteq edges
        BY <1>6
      <4> HIDE DEF W, one
      <4>2. QED BY <1>3, <1>5, <4>1, FS_Subset
    <3> HIDE DEF one, counts
    <3>3. SumFunctionOnSet(one, W) = Cardinality(W)
      <4> HIDE DEF W
      <4> QED BY <3>2, SumOfOnes
    <3>4. QED BY <3>1, <3>3
  <2>2. DOMAIN counts = AllLinks(edges)
    OBVIOUS
  <2>3. \A e \in edges : one[e] \in Nat
    BY <1>5
  <2> HIDE DEF one, counts
  <2>4. QED BY <1>3, <2>1, <2>2, <2>3, SumOfLinks
<1>9. SumFunctionOnSet(one, edges) = Cardinality(window)
  <2>1. \A e \in edges : row[e] = e.row
    OBVIOUS
  <2> HIDE DEF window
  <2>2. row \in Bijection(edges, window)
    <3>1. row \in Surjection(edges, window)
      BY <1>3 DEF Surjection
    <3>2. row \in Injection(edges, window)
      BY <1>3, <2>1, <3>1 DEF Injection, IsInjective, Surjection
    <3>3. QED BY <3>1, <3>2 DEF Bijection
  <2> HIDE DEF row, one
  <2>3. Cardinality(edges) = Cardinality(window)
    BY <1>3, <2>2, FS_Bijection DEF ExistsBijection
  <2>4. SumFunctionOnSet(one, edges) = Cardinality(edges)
    BY <1>3, <1>5, SumOfOnes
  <2>5. QED BY <2>3, <2>4
<1>10. SumFunction(volumes) = SumFunctionOnSet(amount, edges)
  <2>1. ASSUME NEW c \in Partners(edges)
        PROVE  volumes[LinkTo(c, edges)] = SumFunctionOnSet(amount, With(c, edges))
    <3>1. volumes[LinkTo(c, edges)] = Volume(With(c, edges))
      BY <1>7 DEF LinkTo
    <3>2. Volume(With(c, edges)) = SumFunctionOnSet(amount, With(c, edges))
      BY <1>3, <1>6, VolumeOf
    <3>3. QED BY <3>1, <3>2
  <2>2. DOMAIN volumes = AllLinks(edges)
    OBVIOUS
  <2> HIDE DEF amount, volumes
  <2>3. QED BY <1>3, <1>5, <2>1, <2>2, SumOfLinks
<1>11. SumFunctionOnSet(amount, edges) = Total(window)
  <2>1. {row[e] : e \in edges} = window /\ \A e, d \in edges : row[e] = row[d] => e = d
    BY <1>3
  <2>2. Total(window) = SumFunctionOnSet(paid, window)
    BY DEF Total, SumFunction
  <2> HIDE DEF row, paid, amount, window
  <2>3. SumFunctionOnSet(paid, {row[e] : e \in edges}) = SumFunctionOnSet(amount, edges)
    BY <1>3, <1>5, <2>1, SumRenamed
  <2>4. QED BY <2>1, <2>2, <2>3
<1>12. SumFunction(counts) = Cardinality(window) /\ SumFunction(volumes) = Total(window)
  BY <1>8, <1>9, <1>10, <1>11
<1>13. QED BY <1>4, <1>12

(* LinksAddUp for every instance, whatever windows are asked for. *)
THEOREM LinksAlwaysAddUp == SharedSpec => []LinksAddUp
<1>1. ASSUME DataInv PROVE LinksAddUp
  <2>1. IsFiniteSet(transactions) /\ \A t \in transactions : t.amount \in Nat
    BY <1>1 DEF DataInv, LoadsInv, PaymentsInv
  <2>2. \A t \in transactions : t.sender # t.receiver
    BY <1>1, TablesInvSuffices DEF DataInv, RowsReferToTheirOwn, check_no_self_transfers
  <2>3. QED BY <2>1, <2>2, LinksOfPayments DEF LinksAddUp
<1>2. SharedInit => DataInv
  BY InitDataInv
<1>3. DataInv /\ [SharedNext]_allVars => DataInv'
  BY StepKeepsDataInv
<1>4. QED BY <1>1, <1>2, <1>3, PTL DEF SharedSpec

-----------------------------------------------------------------------------
(* Types.  A count of lines. *)
LEMMA CountIsNat ==
    ASSUME NEW n \in Nat, NEW rows, DOMAIN rows \subseteq 1..n PROVE Count(rows) \in Nat
BY LinesAreFinite, FS_CardinalityType DEF Count

(* A loader elsewhere than at a reset, and the others where they were. *)
LEMMA NoMoreResetting ==
    ASSUME TablesInv, RunsInv, NEW l \in Loaders, NEW to, Goto(l, to), to \notin Resets
    PROVE  /\ Resetting' \subseteq Resetting /\ IsFiniteSet(Resetting')
           /\ Cardinality(Resetting') \in Nat /\ Cardinality(Resetting) \in Nat
           /\ Cardinality(Resetting') <= Cardinality(Resetting)
           /\ l \notin Resetting'
<1>1. stage'[l] = to /\ \A other \in Loaders \ {l} : stage'[other] = stage[other]
  BY DEF Goto, TablesInv
<1>2. Resetting' \subseteq Resetting /\ l \notin Resetting'
  BY <1>1 DEF Resetting
<1>3. IsFiniteSet(Resetting)
  BY DEF RunsInv
<1> HIDE DEF Resetting
<1>4. IsFiniteSet(Resetting') /\ Cardinality(Resetting') <= Cardinality(Resetting)
  BY <1>2, <1>3, FS_Subset
<1>5. Cardinality(Resetting') \in Nat /\ Cardinality(Resetting) \in Nat
  BY <1>3, <1>4, FS_CardinalityType
<1>6. QED BY <1>2, <1>4, <1>5

LEMMA MovingOnKeepsRuns ==
    ASSUME TablesInv, LoadsInv, RunsInv, NEW l \in Loaders, NEW to, Goto(l, to), to \notin Resets,
           started' = started, resets' = resets, completed' \subseteq Completions,
           DOMAIN run' = Loaders, run'[l].loaded \in Counts,
           \A other \in Loaders \ {l} : run'[other] = run[other]
    PROVE  RunsInv'
<1>1. resets + Cardinality(Resetting') <= started
  BY NoMoreResetting DEF RunsInv, LoadsInv
<1>2. \A other \in Loaders : run'[other].loaded \in Counts
  BY DEF RunsInv
<1>3. QED BY <1>1, <1>2, NoMoreResetting DEF RunsInv

LEMMA LeavingKeepsRuns ==
    ASSUME TablesInv, LoadsInv, RunsInv, NEW l \in Loaders, Leave(l),
           started' = started, resets' = resets, completed' \subseteq Completions
    PROVE  RunsInv'
<1>1. /\ Goto(l, "idle") /\ DOMAIN run' = Loaders /\ run'[l] = NoRun
      /\ \A other \in Loaders \ {l} : run'[other] = run[other]
  BY DEF Leave, TablesInv
<1>2. NoRun.loaded \in Counts
  BY DEF NoRun, Counts
<1>3. QED BY <1>1, <1>2, MovingOnKeepsRuns DEF Resets

LEMMA BeginKeepsRuns ==
    ASSUME TablesInv, LoadsInv, RunsInv, NEW l \in Loaders, Begin(l) PROVE RunsInv'
<1>1. PICK file \in files, reset \in BOOLEAN :
        /\ run' = [run EXCEPT ![l] =
             [NoRun EXCEPT !.file = file, !.reset = reset, !.since = resets]]
        /\ Goto(l, IF reset THEN "reset" ELSE "customers")
  BY DEF Begin
<1>2. started' = started + 1 /\ started < MaxRuns /\ resets' = resets /\ completed' = completed
  BY DEF Begin
<1>3. started \in 0..MaxRuns /\ MaxRuns \in Nat /\ resets \in Nat
  BY IngestionAssumption DEF RunsInv, LoadsInv
<1>4. Resetting' \subseteq Resetting \cup {l} /\ l \notin Resetting
  <2>1. \A other \in Loaders \ {l} : stage'[other] = stage[other]
    BY <1>1 DEF Goto, TablesInv
  <2>2. QED BY <2>1 DEF Resetting, Resets, Begin
<1>5. /\ IsFiniteSet(Resetting') /\ Cardinality(Resetting') \in Nat
      /\ Cardinality(Resetting) \in Nat
      /\ Cardinality(Resetting') <= Cardinality(Resetting) + 1
  <2>1. IsFiniteSet(Resetting)
    BY DEF RunsInv
  <2> HIDE DEF Resetting
  <2>2. /\ IsFiniteSet(Resetting \cup {l})
        /\ Cardinality(Resetting \cup {l}) = Cardinality(Resetting) + 1
    BY <1>4, <2>1, FS_AddElement
  <2>3. IsFiniteSet(Resetting') /\ Cardinality(Resetting') <= Cardinality(Resetting \cup {l})
    BY <1>4, <2>2, FS_Subset
  <2>4. QED BY <2>1, <2>2, <2>3, FS_CardinalityType
<1>6. resets' + Cardinality(Resetting') <= started'
  BY <1>2, <1>3, <1>5 DEF RunsInv
<1>7. \A other \in Loaders : run'[other].loaded \in Counts
  <2>1. run'[l].loaded = NoRun.loaded
    BY <1>1 DEF TablesInv, NoRun
  <2>2. QED BY <1>1, <2>1 DEF TablesInv, RunsInv, NoRun, Counts
<1>8. QED BY <1>2, <1>3, <1>5, <1>6, <1>7 DEF RunsInv

LEMMA ResetKeepsRuns ==
    ASSUME TablesInv, LoadsInv, RunsInv, NEW l \in Loaders, Reset(l) PROVE RunsInv'
<1>1. /\ Goto(l, "customers") /\ stage[l] = "reset_customers" /\ resets' = resets + 1
      /\ started' = started /\ completed' = completed
      /\ run' = [run EXCEPT ![l].since = resets + 1]
  BY DEF Reset
<1>2. /\ Resetting' \subseteq Resetting \ {l} /\ l \in Resetting
  <2>1. Resetting' \subseteq Resetting /\ l \notin Resetting'
    BY <1>1, NoMoreResetting DEF Resets
  <2>2. QED BY <1>1, <2>1 DEF Resetting, Resets
<1>3. /\ IsFiniteSet(Resetting') /\ Cardinality(Resetting') \in Nat
      /\ Cardinality(Resetting) \in Nat
      /\ Cardinality(Resetting') + 1 <= Cardinality(Resetting)
  <2>1. IsFiniteSet(Resetting)
    BY DEF RunsInv
  <2> HIDE DEF Resetting
  <2>2. /\ IsFiniteSet(Resetting \ {l})
        /\ Cardinality(Resetting \ {l}) = Cardinality(Resetting) - 1
    BY <1>2, <2>1, FS_RemoveElement
  <2>3. IsFiniteSet(Resetting') /\ Cardinality(Resetting') <= Cardinality(Resetting \ {l})
    BY <1>2, <2>2, FS_Subset
  <2>4. QED BY <2>1, <2>2, <2>3, FS_CardinalityType
<1>4. resets' + Cardinality(Resetting') <= started'
  BY <1>1, <1>3 DEF RunsInv, LoadsInv
<1>5. \A other \in Loaders : run'[other].loaded \in Counts
  <2>1. run'[l].loaded = run[l].loaded
    BY <1>1 DEF TablesInv, LoaderInv, IsRun
  <2>2. QED BY <1>1, <2>1 DEF TablesInv, RunsInv
<1>6. QED BY <1>1, <1>3, <1>4, <1>5 DEF RunsInv

LEMMA LockKeepsRuns ==
    ASSUME TablesInv, RunsInv, NEW l \in Loaders, LockTransactions(l) \/ LockAccounts(l)
    PROVE  RunsInv'
<1>1. PICK from, to \in Resets :
        stage[l] = from /\ Goto(l, to) /\ UNCHANGED <<run, started, completed, resets>>
  BY DEF LockTransactions, LockAccounts, LockTable, Resets
<1>2. Resetting' = Resetting
  BY <1>1 DEF Goto, TablesInv, Resetting
<1>3. QED BY <1>1, <1>2 DEF RunsInv

LEMMA InsertKeepsRuns ==
    ASSUME TablesInv, LoadsInv, RunsInv, NEW l \in Loaders, NEW n \in Nat, NEW rows,
           DOMAIN rows \subseteq 1..n, NEW to, to \notin Resets, Goto(l, to),
           \/ run' = [run EXCEPT ![l].loaded.customers = Count(rows)]
           \/ run' = [run EXCEPT ![l].loaded.accounts = Count(rows)]
           \/ run' = [run EXCEPT ![l].loaded.transactions = Count(rows)],
           started' = started, resets' = resets, completed' = completed
    PROVE  RunsInv'
<1>1. Count(rows) \in Nat /\ run[l].loaded \in Counts /\ IsRun(run[l]) /\ DOMAIN run = Loaders
  BY CountIsNat DEF TablesInv, LoaderInv, RunsInv
<1>2. completed' \subseteq Completions
  BY DEF RunsInv
<1>3. run'[l].loaded \in Counts
  BY <1>1 DEF IsRun, Counts
<1>4. DOMAIN run' = Loaders /\ \A other \in Loaders \ {l} : run'[other] = run[other]
  BY <1>1
<1>5. QED BY <1>2, <1>3, <1>4, MovingOnKeepsRuns

LEMMA LoadKeepsRuns ==
    ASSUME TablesInv, LoadsInv, RunsInv, NEW l \in Loaders, Load(l) PROVE RunsInv'
<1>0. completed \subseteq Completions /\ IsRun(run[l]) /\ DOMAIN run = Loaders
      /\ run[l].loaded \in Counts
  BY DEF RunsInv, TablesInv, LoaderInv
<1>1. CASE Begin(l)
  BY <1>1, BeginKeepsRuns
<1>2. CASE InsertCustomers(l)
  <2>1. CASE Leave(l)
    BY <1>0, <1>2, <2>1, LeavingKeepsRuns DEF InsertCustomers
  <2>2. CASE ~Leave(l)
    <3>1. DOMAIN CustomerRows(l) \subseteq 1..Len(run[l].file.accounts)
          /\ Len(run[l].file.accounts) \in Nat
      BY <1>2, LinesOfFile DEF InsertCustomers, CustomerRows
    <3>2. QED
      BY <1>2, <2>2, <3>1, InsertKeepsRuns DEF InsertCustomers, InsertFails, Resets
  <2>3. QED BY <2>1, <2>2
<1>3. CASE ReadCustomers(l)
  <2>1. CASE Leave(l)
    BY <1>0, <1>3, <2>1, LeavingKeepsRuns DEF ReadCustomers
  <2>2. CASE Goto(l, "accounts") /\ run' = [run EXCEPT ![l].number = NumberOf(customers)]
    <3>1. DOMAIN run' = Loaders /\ run'[l].loaded \in Counts
          /\ \A other \in Loaders \ {l} : run'[other] = run[other]
      BY <1>0, <2>2 DEF IsRun
    <3>2. QED BY <1>0, <1>3, <2>2, <3>1, MovingOnKeepsRuns DEF ReadCustomers, Resets
  <2>3. QED BY <1>3, <2>1, <2>2 DEF ReadCustomers
<1>4. CASE InsertAccounts(l)
  <2>1. CASE Leave(l)
    BY <1>0, <1>4, <2>1, LeavingKeepsRuns DEF InsertAccounts
  <2>2. CASE ~Leave(l)
    <3>1. DOMAIN AccountRows(l) \subseteq 1..Len(run[l].file.accounts)
          /\ Len(run[l].file.accounts) \in Nat
      BY <1>4, LinesOfFile DEF InsertAccounts, AccountRows
    <3>2. QED
      BY <1>4, <2>2, <3>1, InsertKeepsRuns DEF InsertAccounts, InsertFails, Resets
  <2>3. QED BY <2>1, <2>2
<1>5. CASE ReadAccounts(l)
  <2>1. DOMAIN run' = Loaders /\ run'[l].loaded \in Counts
        /\ \A other \in Loaders \ {l} : run'[other] = run[other]
    BY <1>0, <1>5 DEF IsRun, ReadAccounts
  <2>2. QED BY <1>0, <1>5, <2>1, MovingOnKeepsRuns DEF ReadAccounts, Resets
<1>6. CASE InsertTransactions(l)
  <2>1. CASE Leave(l)
    BY <1>0, <1>6, <2>1, LeavingKeepsRuns DEF InsertTransactions
  <2>2. CASE ~Leave(l)
    <3>1. DOMAIN TransactionRows(l) \subseteq 1..Len(run[l].file.transactions)
          /\ Len(run[l].file.transactions) \in Nat
      BY <1>6, LinesOfFile DEF InsertTransactions, TransactionRows
    <3>2. QED
      BY <1>6, <2>2, <3>1, InsertKeepsRuns DEF InsertTransactions, InsertFails, Resets
  <2>3. QED BY <2>1, <2>2
<1>7. CASE Complete(l)
  <2>1. run[l].file \in Files
    BY <1>7 DEF Complete, TablesInv, LoaderInv, Files
  <2>2. run[l].since \in 0..MaxRuns
    <3>1. /\ run[l].since \in 0..resets /\ resets \in Nat /\ started \in 0..MaxRuns
          /\ resets + Cardinality(Resetting) <= started /\ IsFiniteSet(Resetting)
      BY DEF LoadsInv, ProgressInv, RunsInv
    <3>2. Cardinality(Resetting) \in Nat
      BY <3>1, FS_CardinalityType
    <3>3. QED BY <3>1, <3>2, IngestionAssumption
  <2>3. completed' \subseteq Completions
    BY <1>0, <1>7, <2>1, <2>2 DEF Complete, Completions
  <2>4. QED BY <1>7, <2>3, LeavingKeepsRuns DEF Complete
<1>8. CASE BreakDeadlock(l) \/ Crash(l)
  BY <1>0, <1>8, LeavingKeepsRuns DEF BreakDeadlock, Crash
<1>9. QED BY <1>1, <1>2, <1>3, <1>4, <1>5, <1>6, <1>7, <1>8 DEF Load

LEMMA StepKeepsRuns ==
    ASSUME TablesInv, LoadsInv, RunsInv, [SharedNext]_allVars PROVE RunsInv'
<1>1. CASE UNCHANGED <<stage, run, started, completed, resets>>
  BY <1>1 DEF RunsInv, Resetting
<1>2. ASSUME NEW l \in Loaders, ResetTables(l) PROVE RunsInv'
  BY <1>2, LockKeepsRuns, ResetKeepsRuns DEF ResetTables
<1>3. CASE EvaluateRule \/ InsertBatch \/ CompleteRule \/ EngineCrash
  BY <1>1, <1>3 DEF EvaluateRule, InsertBatch, CompleteRule, EngineCrash, vars
<1>4. CASE UseTool \/ UNCHANGED allVars
  BY <1>1, <1>4, ToolsOnlyRead DEF allVars, vars
<1>5. QED BY <1>2, <1>3, <1>4, LoadKeepsRuns DEF SharedNext

(* A candidate names a payment and an account of it by their numbers. *)
LEMMA CandidatesAreAlerts ==
    ASSUME DataInv, NEW code \in RuleCodes
    PROVE  Candidates(code, transactions) \subseteq AlertRows
<1>1. \A t \in transactions : t.id \in Nat
  BY DEF DataInv, TablesInv, PaymentsInv
<1>2. \A a \in accounts : a.id \in Nat
  BY DEF DataInv, TablesInv, NumbersAreUnique
<1>3. \A t \in transactions : t.sender \in Nat /\ t.receiver \in Nat
  BY <1>2 DEF DataInv, TablesInv, RowsInv
<1>4. Matching(code, transactions) \subseteq transactions
  BY DEF RuleCodes, Matching, StructuringMatches, SubThreshold, FanIn, FanOut, FanMatches,
         RapidMovementMatches
<1>5. QED BY <1>1, <1>3, <1>4 DEF Candidates, AlertedAccount, AlertRows

(* The calls of an agent are counted, and nothing else of it is in UsersInv. *)
LEMMA ToolsAreCounted ==
    ASSUME UseTool, used \in [scans : 0..MaxScans[files], calls : 0..MaxCalls[files]],
           MaxCalls[files] \in Nat
    PROVE  /\ used' \in [scans : 0..MaxScans[files], calls : 0..MaxCalls[files]]
           /\ UNCHANGED <<engine, scans, misplaced>>
<1>1. ASSUME NEW request, StartCall(request)
      PROVE  /\ used' \in [scans : 0..MaxScans[files], calls : 0..MaxCalls[files]]
             /\ UNCHANGED <<engine, scans, misplaced>>
  <2>1. used.calls < MaxCalls[files] /\ used' = [used EXCEPT !.calls = @ + 1]
        /\ UNCHANGED <<engine, scans, misplaced>>
    BY <1>1 DEF StartCall
  <2> DEFINE cs == 0..MaxScans[files]
             cc == MaxCalls[files]
  <2> HIDE DEF cs, cc
  <2>2. used \in [scans : cs, calls : 0..cc] /\ cc \in Nat /\ used.calls < cc
    BY <2>1 DEF cs, cc
  <2>3. used' \in [scans : cs, calls : 0..cc]
    BY <2>1, <2>2
  <2>4. QED BY <2>1, <2>3 DEF cs, cc
<1>2. ASSUME NEW request,
             \/ RefuseCall(request) \/ GetTransactionHistory(request)
             \/ GetLinkedAccounts(request) \/ GetCustomerProfile(request)
             \/ GetAlertHistory(request)
      PROVE  StartCall(request)
  BY <1>2 DEF RefuseCall, GetTransactionHistory, GetLinkedAccounts, GetCustomerProfile,
              GetAlertHistory, Accepted
<1>3. ASSUME NEW item, DescribeTransaction(item) \/ DescribeLink(item)
      PROVE  UNCHANGED <<engine, scans, misplaced, used>>
  BY <1>3 DEF DescribeTransaction, DescribeLink
<1>4. QED BY <1>1, <1>2, <1>3 DEF UseTool

LEMMA StepKeepsUsers ==
    ASSUME DataInv, EngineInv, UsersInv, [SharedNext]_allVars PROVE UsersInv'
<1>0. /\ MaxScans[files] \in Nat /\ MaxCalls[files] \in Nat
      /\ DOMAIN engine = {"stage", "code", "queue", "since", "upto", "fresh"}
  BY SharedTablesAssumption DEF DataInv, TablesInv, EngineInv, CodesInv
<1>1. ASSUME NEW l \in Loaders, Load(l) PROVE UsersInv'
  <2>1. UNCHANGED users /\ alerts' = alerts /\ files' = files
    BY <1>1, LoadsOnlyAdd, LoadsKeepFiles DEF Load, DataInv, LoadAdds
  <2>2. QED BY <2>1 DEF UsersInv, users
<1>2. ASSUME NEW l \in Loaders, ResetTables(l) PROVE UsersInv'
  BY <1>2 DEF ResetTables, LockTransactions, LockAccounts, LockTable, Reset, Truncate, tables,
              users, UsersInv
<1>3. CASE EvaluateRule
  <2>1. PICK code \in Registry :
          engine' = [stage |-> "insert", code |-> code, since |-> resets,
                     queue |-> Candidates(code, transactions),
                     upto |-> last.transactions, fresh |-> TRUE]
    BY <1>3 DEF EvaluateRule
  <2>2. code \in RuleCodes /\ last.transactions \in Nat
    BY SharedTablesAssumption DEF DataInv, TablesInv
  <2>3. /\ engine'.stage = "insert" /\ engine'.queue \subseteq AlertRows
        /\ engine'.code \in RuleCodes /\ engine'.upto \in Nat
    BY <2>1, <2>2, CandidatesAreAlerts
  <2>4. UNCHANGED <<files, alerts, scans, misplaced>>
    BY <1>3 DEF EvaluateRule, vars, tables
  <2>5. used' \in [scans : 0..MaxScans[files], calls : 0..MaxCalls[files]]
    <3> DEFINE ms == MaxScans[files]
               cc == 0..MaxCalls[files]
    <3> HIDE DEF ms, cc
    <3>1. used \in [scans : 0..ms, calls : cc] /\ ms \in Nat /\ used.scans < ms
          /\ used' = [used EXCEPT !.scans = @ + 1]
      BY <1>0, <1>3 DEF EvaluateRule, UsersInv, ms, cc
    <3>2. used' \in [scans : 0..ms, calls : cc]
      BY <3>1
    <3>3. QED BY <3>2 DEF ms, cc
  <2>6. QED BY <2>3, <2>4, <2>5 DEF UsersInv
<1>4. CASE InsertBatch
  <2>1. UNCHANGED <<files, scans, used>> /\ engine.stage = "insert"
    BY <1>4 DEF InsertBatch
  <2>2. PICK batch \in Batches(engine.queue) :
          \/ /\ alerts' = alerts \cup Inserted(batch)
             /\ misplaced' = IF engine.since # resets /\ ~engine.fresh
                               THEN misplaced \cup Inserted(batch) ELSE misplaced
             /\ engine' = [engine EXCEPT !.queue = @ \ batch, !.fresh = FALSE]
          \/ engine' = NoScan /\ UNCHANGED <<alerts, misplaced>>
    BY <1>4 DEF InsertBatch
  <2>3. Inserted(batch) \subseteq AlertRows
    BY DEF Batches, kSubset, Inserted, UsersInv
  <2>4. alerts' \subseteq AlertRows /\ misplaced' \subseteq AlertRows
    BY <2>2, <2>3 DEF UsersInv
  <2>5. /\ engine'.stage \in {"idle", "insert"} /\ engine'.queue \subseteq AlertRows
        /\ engine'.stage = "insert" => engine'.code \in RuleCodes /\ engine'.upto \in Nat
    <3>1. CASE engine' = NoScan
      BY <3>1 DEF NoScan
    <3>2. CASE engine' = [engine EXCEPT !.queue = @ \ batch, !.fresh = FALSE]
      <4>1. /\ engine'.stage = engine.stage /\ engine'.queue = engine.queue \ batch
            /\ engine'.code = engine.code /\ engine'.upto = engine.upto
        BY <1>0, <3>2
      <4>2. QED BY <2>1, <4>1 DEF UsersInv
    <3>3. QED BY <2>2, <3>1, <3>2
  <2>6. QED BY <2>1, <2>4, <2>5 DEF UsersInv
<1>5. CASE CompleteRule \/ EngineCrash
  <2>1. UNCHANGED <<files, alerts, misplaced, used>> /\ engine' = NoScan
        /\ engine.stage = "insert"
    BY <1>5 DEF CompleteRule, EngineCrash, vars, tables
  <2>2. scans' \subseteq scans \cup {[code |-> engine.code, upto |-> engine.upto]}
    BY <1>5 DEF CompleteRule, EngineCrash
  <2>3. QED BY <2>1, <2>2 DEF UsersInv, NoScan
<1>6. CASE UseTool
  <2>1. UNCHANGED <<files, alerts>>
    BY <1>6, ToolsOnlyRead DEF vars, tables
  <2>2. QED BY <1>0, <1>6, <2>1, ToolsAreCounted DEF UsersInv
<1>7. CASE UNCHANGED allVars
  BY <1>7 DEF allVars, users, vars, tables, UsersInv
<1>8. QED BY <1>1, <1>2, <1>3, <1>4, <1>5, <1>6, <1>7 DEF SharedNext

(* TypeOK and SharedTypeOK for every instance.  That resets stay within the number of
   runs is the least obvious part: a run resets before it loads, once. *)
LEMMA TypesSuffice ==
    ASSUME DataInv, EngineInv, CallInv, RunsInv, UsersInv PROVE SharedTypeOK
<1>1. \A row \in customers : row.id \in 1..last.customers
  BY DEF DataInv, TablesInv, NumbersAreUnique
<1>2. \A row \in accounts : row.id \in 1..last.accounts /\ row.customer_id \in Nat
  <2>1. \A row \in accounts : row.id \in 1..last.accounts
    BY DEF DataInv, TablesInv, NumbersAreUnique
  <2>2. \A row \in accounts : row.customer_id \in Nat
    BY <1>1 DEF DataInv, TablesInv, RowsInv
  <2>3. QED BY <2>1, <2>2
<1>3. \A row \in transactions : row.id \in 1..last.transactions
  BY DEF DataInv, PaymentsInv
<1>4. resets \in 0..MaxRuns
  <2>1. /\ resets \in Nat /\ started \in 0..MaxRuns
        /\ resets + Cardinality(Resetting) <= started /\ Cardinality(Resetting) \in Nat
    BY FS_CardinalityType DEF DataInv, LoadsInv, RunsInv
  <2>2. QED BY <2>1, IngestionAssumption
<1>5. TypeOK
  BY <1>1, <1>2, <1>3, <1>4 DEF TypeOK, DataInv, TablesInv, RunsInv
<1>6. /\ call.stage \in {"idle", "answering", "done"}
      /\ call.status \in {"none", "ok", "error"}
      /\ call.stage = "answering" => call.account.ref = call.request.ref
      /\ call.stage = "done" => call.todo = {}
  BY DEF CallInv, AnsweringInv
<1>7. QED BY <1>5, <1>6 DEF UsersInv, SharedTypeOK

THEOREM SharedTypesCorrect == SharedSpec => []SharedTypeOK
<1>1. SharedInit => RunsInv /\ UsersInv
  <2> SUFFICES ASSUME SharedInit PROVE RunsInv /\ UsersInv
    OBVIOUS
  <2>1. files \in Sources /\ MaxScans[files] \in Nat /\ MaxCalls[files] \in Nat
    BY SharedTablesAssumption DEF SharedInit, Init
  <2>2. UsersInv
    BY <2>1 DEF SharedInit, Init, NoScan, UsersInv
  <2>3. Resetting = {}
    BY DEF SharedInit, Init, Resetting, Resets
  <2>4. IsFiniteSet(Resetting) /\ Cardinality(Resetting) = 0
    BY <2>3, FS_EmptySet
  <2>5. \A l \in Loaders : run[l].loaded \in Counts
    BY DEF SharedInit, Init, NoRun, Counts
  <2>6. RunsInv
    BY <2>4, <2>5, IngestionAssumption DEF SharedInit, Init, RunsInv
  <2>7. QED BY <2>2, <2>6
<1>2. DataInv /\ EngineInv /\ RunsInv /\ UsersInv /\ [SharedNext]_allVars
        => RunsInv' /\ UsersInv'
  BY StepKeepsRuns, StepKeepsUsers DEF DataInv
<1>3. DataInv /\ EngineInv /\ CallInv /\ RunsInv /\ UsersInv => SharedTypeOK
  BY TypesSuffice
<1>4. QED BY <1>1, <1>2, <1>3, EngineInvHolds, CallInvHolds, PTL DEF SharedSpec
=============================================================================
