------------------------------ MODULE Ingestion ------------------------------
(***************************************************************************)
(* run_ingestion.py by several processes at once, over the tables          *)
(* customers, accounts and transactions.  Rows have numbers that a         *)
(* sequence assigns and refer to each other by number; --reset empties the *)
(* tables and restarts the sequences, so a number means another row        *)
(* afterwards.  The alerts, which refer to transactions, go with them;     *)
(* SharedTables adds who writes and reads them.                            *)
(*                                                                         *)
(* A file is a directory of AMLSim output: the account references of       *)
(* accounts.csv and the rows of transactions.csv, in order.  An action is  *)
(* the code up to a commit, up to the SELECT that takes a lock which the   *)
(* commit releases, or up to a table that TRUNCATE waits for with others   *)
(* in its hands.  A dry run writes nothing and is left out.                *)
(*                                                                         *)
(* Bound: MaxRuns runs are started.                                        *)
(***************************************************************************)
EXTENDS Integers, FiniteSets, FiniteSetsExt, Sequences, SequencesExt

CONSTANTS
    Loaders,    \* processes that call run_ingestion
    Sources,    \* sets of files, of which one is what AMLSim left
    MaxRuns

Files == UNION Sources
AccountRefs(file) == ToSet(file.accounts)
CsvRows(file) == ToSet(file.transactions)

ASSUME IngestionAssumption ==
    /\ MaxRuns \in Nat
    /\ \A file \in Files :
         /\ file.accounts \in Seq(AccountRefs(file))
         /\ file.transactions \in Seq(CsvRows(file))
         /\ IsInjective(file.accounts)
         /\ \A row \in CsvRows(file) : row.amount \in Nat \ {0} /\ row.at \in Nat
         /\ \A i, j \in DOMAIN file.transactions :
              file.transactions[i].ref = file.transactions[j].ref => i = j

VARIABLES
    files,         \* the files there are
    customers,     \* rows of customers: number, reference
    accounts,      \* rows of accounts: and the number of the customer
    transactions,  \* rows of transactions: and sender, receiver, amount, time
    last,          \* of each table, the number its sequence assigned last
    alerts,        \* rows of alerts
    stage,         \* where every loader is
    run,           \* local variables of every loader
    started,       \* how many ingestion_started audit rows there are
    completed,     \* the ingestion_completed audit rows
    resets         \* ghost: how often the tables were emptied

tables == <<customers, accounts, transactions, last, alerts>>
vars == <<files, tables, stage, run, started, completed, resets>>

Resets == {"reset", "reset_accounts", "reset_customers"}
Stages == Resets \cup
          {"idle", "customers", "read_customers", "accounts", "read_accounts",
           "transactions", "complete"}

(* The references of a table, and its numbers by reference. *)
Refs(table) == {row.ref : row \in table}
NumberOf(table) == [ref \in Refs(table) |-> (CHOOSE row \in table : row.ref = ref).id]

NoFile == [accounts |-> <<>>, transactions |-> <<>>]

(* since: ghost, the resets when the run began to load; number: the mapping from
   references to numbers read last; loaded: row counts of the INSERTs. *)
NoRun == [file |-> NoFile, reset |-> FALSE, since |-> 0, number |-> <<>>,
          loaded |-> [customers |-> 0, accounts |-> 0, transactions |-> 0]]

Counts == [customers : Nat, accounts : Nat, transactions : Nat]

Completions == [file : Files, since : 0..MaxRuns, loaded : Counts]

TypeOK ==
    /\ files \in Sources
    /\ \A row \in customers : row.id \in 1..last.customers
    /\ \A row \in accounts : row.id \in 1..last.accounts /\ row.customer_id \in Nat
    /\ \A row \in transactions : row.id \in 1..last.transactions
    /\ stage \in [Loaders -> Stages]
    /\ started \in 0..MaxRuns
    /\ completed \subseteq Completions
    /\ resets \in 0..MaxRuns

Init ==
    /\ files \in Sources
    /\ customers = {} /\ accounts = {} /\ transactions = {} /\ alerts = {}
    /\ last = [customers |-> 0, accounts |-> 0, transactions |-> 0]
    /\ stage = [l \in Loaders |-> "idle"]
    /\ run = [l \in Loaders |-> NoRun]
    /\ started = 0
    /\ completed = {}
    /\ resets = 0

-----------------------------------------------------------------------------
Goto(l, to) == stage' = [stage EXCEPT ![l] = to]

Leave(l) ==
    /\ Goto(l, "idle")
    /\ run' = [run EXCEPT ![l] = NoRun]

(* ingestion_started. *)
Begin(l) ==
    /\ stage[l] = "idle"
    /\ started < MaxRuns
    /\ started' = started + 1
    /\ \E file \in files, reset \in BOOLEAN :
         /\ run' = [run EXCEPT ![l] =
              [NoRun EXCEPT !.file = file, !.reset = reset, !.since = resets]]
         /\ Goto(l, IF reset THEN "reset" ELSE "customers")
    /\ UNCHANGED <<files, tables, completed, resets>>

(* The table the next statement locks first, TRUNCATE with each step another. *)
Needs(l) ==
    CASE stage[l] \in {"reset", "transactions"} -> "transactions"
      [] stage[l] \in {"reset_accounts", "accounts", "read_accounts"} -> "accounts"
      [] stage[l] \in {"reset_customers", "customers", "read_customers"} -> "customers"
      [] OTHER -> "none"

(* What TRUNCATE has taken so far keeps everyone else out. *)
Exclusive(l) ==
    CASE stage[l] = "reset_accounts" -> {"transactions"}
      [] stage[l] = "reset_customers" -> {"transactions", "accounts"}
      [] OTHER -> {}

(* Variant: the SELECT of a mapping is committed before the INSERT that uses it. *)
NothingShared(l) == {}

(* From the SELECT of a mapping to the COMMIT of the INSERT that uses it, its table
   is shared with other readers and writers, not with TRUNCATE. *)
Shared(l) ==
    CASE stage[l] = "accounts" -> {"customers"}
      [] stage[l] = "transactions" -> {"accounts"}
      [] OTHER -> {}

WaitsFor(l, other) ==
    /\ l # other
    /\ \/ Needs(l) \in Exclusive(other)
       \/ stage[l] \in Resets /\ Needs(l) \in Shared(other)

Free(l) == \A other \in Loaders : ~WaitsFor(l, other)

Empty ==
    /\ customers' = {} /\ accounts' = {} /\ transactions' = {}
    /\ last' = [customers |-> 0, accounts |-> 0, transactions |-> 0]

(* TRUNCATE ... RESTART IDENTITY CASCADE: alerts refer to transactions. *)
Truncate ==
    /\ Empty
    /\ alerts' = {}

(* TRUNCATE transactions, accounts, customers locks in this order. *)
LockTable(l, from, to) ==
    /\ stage[l] = from
    /\ Free(l)
    /\ Goto(l, to)
    /\ UNCHANGED <<files, tables, run, started, completed, resets>>

LockTransactions(l) == LockTable(l, "reset", "reset_accounts")
LockAccounts(l) == LockTable(l, "reset_accounts", "reset_customers")

(* With the last table, and alerts by CASCADE, all are emptied; and the commit. *)
Reset(l) ==
    /\ stage[l] = "reset_customers"
    /\ Free(l)
    /\ Truncate
    /\ resets' = resets + 1
    /\ run' = [run EXCEPT ![l].since = resets + 1]
    /\ Goto(l, "customers")
    /\ UNCHANGED <<files, started, completed>>

(* The rows of an INSERT are known by the lines they come from.  These the unique
   constraint on external_ref rejects. *)
Duplicates(rows, table) == {i \in DOMAIN rows : rows[i].ref \in Refs(table)}

Position(rows, i) == Cardinality({j \in DOMAIN rows : j <= i})

(* Variant: numbers start from the one assigned last. *)
StoredFromLast(rows, previous) ==
    {[rows[i] EXCEPT !.id = previous + Position(rows, i) - 1] : i \in DOMAIN rows}

(* The rows as stored, and how far the sequence gets: the numbers of a failed
   INSERT are not given back. *)
Stored(rows, previous) ==
    {[rows[i] EXCEPT !.id = previous + Position(rows, i)] : i \in DOMAIN rows}
Count(rows) == Cardinality(DOMAIN rows)
Assigned(rows, table) ==
    IF Duplicates(rows, table) = {} THEN Count(rows)
                                    ELSE Position(rows, Min(Duplicates(rows, table)))

(* Variant: the error is logged, and the load goes on to its end. *)
InsertSkipped(l, rows, table) ==
    /\ Duplicates(rows, table) # {}
    /\ Goto(l, "complete")
    /\ UNCHANGED <<customers, accounts, transactions, alerts, run>>

(* Nothing catches an IntegrityError: the run is over. *)
InsertFails(l, rows, table) ==
    /\ Duplicates(rows, table) # {}
    /\ Leave(l)
    /\ UNCHANGED <<customers, accounts, transactions, alerts>>

CustomerRows(l) ==
    [i \in DOMAIN run[l].file.accounts |-> [id |-> 0, ref |-> run[l].file.accounts[i]]]

(* The customers, one per account. *)
InsertCustomers(l) ==
    LET rows == CustomerRows(l)
    IN  /\ stage[l] = "customers"
        /\ Free(l)
        /\ last' = [last EXCEPT !.customers = @ + Assigned(rows, customers)]
        /\ \/ InsertFails(l, rows, customers)
           \/ /\ Duplicates(rows, customers) = {}
              /\ customers' = customers \cup Stored(rows, last.customers)
              /\ run' = [run EXCEPT ![l].loaded.customers = Count(rows)]
              /\ Goto(l, "read_customers")
              /\ UNCHANGED <<accounts, transactions, alerts>>
        /\ UNCHANGED <<files, started, completed, resets>>

(* SELECT external_ref, customer_id; a customer that a reset has taken away since
   is a KeyError. *)
ReadCustomers(l) ==
    /\ stage[l] = "read_customers"
    /\ Free(l)
    /\ IF AccountRefs(run[l].file) \subseteq Refs(customers)
         THEN /\ run' = [run EXCEPT ![l].number = NumberOf(customers)]
              /\ Goto(l, "accounts")
         ELSE Leave(l)
    /\ UNCHANGED <<files, tables, started, completed, resets>>

AccountRows(l) ==
    [i \in DOMAIN run[l].file.accounts |->
        LET ref == run[l].file.accounts[i]
        IN  [id |-> 0, ref |-> ref, customer_id |-> run[l].number[ref]]]

InsertAccounts(l) ==
    LET rows == AccountRows(l)
    IN  /\ stage[l] = "accounts"
        /\ Free(l)
        /\ last' = [last EXCEPT !.accounts = @ + Assigned(rows, accounts)]
        /\ \/ InsertFails(l, rows, accounts)
           \/ /\ Duplicates(rows, accounts) = {}
              /\ accounts' = accounts \cup Stored(rows, last.accounts)
              /\ run' = [run EXCEPT ![l].loaded.accounts = Count(rows)]
              /\ Goto(l, "read_accounts")
              /\ UNCHANGED <<customers, transactions, alerts>>
        /\ UNCHANGED <<files, started, completed, resets>>

(* SELECT external_ref, account_id. *)
ReadAccounts(l) ==
    /\ stage[l] = "read_accounts"
    /\ Free(l)
    /\ run' = [run EXCEPT ![l].number = NumberOf(accounts)]
    /\ Goto(l, "transactions")
    /\ UNCHANGED <<files, tables, started, completed, resets>>

(* Variant: transfers to oneself are stored. *)
KnownAccounts(row, number) == {row.orig, row.bene} \subseteq DOMAIN number

(* Rows with an unknown account and transfers to oneself are skipped. *)
Loadable(row, number) == {row.orig, row.bene} \subseteq DOMAIN number /\ row.orig # row.bene

TransactionRows(l) ==
    LET number == run[l].number
        line == run[l].file.transactions
    IN  [i \in {i \in DOMAIN line : Loadable(line[i], number)} |->
            [id |-> 0, ref |-> line[i].ref, sender |-> number[line[i].orig],
             receiver |-> number[line[i].bene], amount |-> line[i].amount,
             at |-> line[i].at]]

InsertTransactions(l) ==
    LET rows == TransactionRows(l)
    IN  /\ stage[l] = "transactions"
        /\ Free(l)
        /\ last' = [last EXCEPT !.transactions = @ + Assigned(rows, transactions)]
        /\ \/ InsertFails(l, rows, transactions)
           \/ /\ Duplicates(rows, transactions) = {}
              /\ transactions' = transactions \cup Stored(rows, last.transactions)
              /\ run' = [run EXCEPT ![l].loaded.transactions = Count(rows)]
              /\ Goto(l, "complete")
              /\ UNCHANGED <<customers, accounts, alerts>>
        /\ UNCHANGED <<files, started, completed, resets>>

(* ingestion_completed. *)
Complete(l) ==
    /\ stage[l] = "complete"
    /\ completed' = completed \cup
         {[file |-> run[l].file, since |-> run[l].since, loaded |-> run[l].loaded]}
    /\ Leave(l)
    /\ UNCHANGED <<files, tables, started, resets>>

(* The process dies; what it has committed stays. *)
Crash(l) ==
    /\ stage[l] # "idle"
    /\ Leave(l)
    /\ UNCHANGED <<files, tables, started, completed, resets>>

(* Variant: whom Postgres picks tries its statement again. *)
RetryAfterDeadlock(l) ==
    /\ stage[l] \in Resets
    /\ \E other \in Loaders : WaitsFor(l, other) /\ WaitsFor(other, l)
    /\ Goto(l, "reset")
    /\ UNCHANGED <<files, tables, run, started, completed, resets>>

(* External: of two runs that wait for each other, which longer circles come down to
   as only one TRUNCATE gets past its first table, Postgres fails one.  Nothing
   catches the error: the run is over. *)
BreakDeadlock(l) ==
    /\ \E other \in Loaders : WaitsFor(l, other) /\ WaitsFor(other, l)
    /\ Leave(l)
    /\ UNCHANGED <<files, tables, started, completed, resets>>

Step(l) ==
    \/ InsertCustomers(l) \/ ReadCustomers(l) \/ InsertAccounts(l)
    \/ ReadAccounts(l) \/ InsertTransactions(l) \/ Complete(l) \/ BreakDeadlock(l)

Truncation(l) == LockTransactions(l) \/ LockAccounts(l) \/ Reset(l)

Work(l) == Truncation(l) \/ Step(l)

Next ==
    \E l \in Loaders :
        \/ Begin(l) \/ LockTransactions(l) \/ LockAccounts(l) \/ Reset(l)
        \/ InsertCustomers(l) \/ ReadCustomers(l) \/ InsertAccounts(l) \/ ReadAccounts(l)
        \/ InsertTransactions(l) \/ Complete(l) \/ BreakDeadlock(l) \/ Crash(l)

Spec == Init /\ [][Next]_vars

(* A loader keeps working, Postgres gives a lock that is free to who waits for it, and
   it resolves the deadlocks it detects. *)
FairSpec == Spec /\ \A l \in Loaders : WF_vars(Work(l))

-----------------------------------------------------------------------------
(* validate_ingestion.py, its structural checks. *)
check_no_orphan_transactions ==
    \A t \in transactions : {t.sender, t.receiver} \subseteq {a.id : a \in accounts}

check_no_orphan_accounts == \A a \in accounts : a.customer_id \in {c.id : c \in customers}

check_no_self_transfers == \A t \in transactions : t.sender # t.receiver

(* However loads, failed loads and resets follow or race each other, a number
   leads to the row it was read from: an account belongs to the customer of its
   reference, a transaction runs between the accounts its file names.  The
   checks of validate_ingestion would see a number that leads nowhere, not one
   that leads to the wrong row. *)
RowsReferToTheirOwn ==
    /\ check_no_orphan_transactions
    /\ check_no_orphan_accounts
    /\ check_no_self_transfers
    /\ \A a \in accounts, c \in customers : a.customer_id = c.id => a.ref = c.ref
    /\ \A t \in transactions, s, r \in accounts :
         t.sender = s.id /\ t.receiver = r.id =>
           \E file \in files : \E row \in CsvRows(file) :
             row.ref = t.ref /\ row.orig = s.ref /\ row.bene = r.ref

(* What a file has brought into a table, and what it should have: all customers and
   accounts, and payments between two of its own accounts. *)
TransactionsOf(file) == {t \in transactions : \E row \in CsvRows(file) : row.ref = t.ref}
OwnRows(file) ==
    {row \in CsvRows(file) :
        row.orig # row.bene /\ {row.orig, row.bene} \subseteq AccountRefs(file)}

CustomersAreWhole(file, loaded) ==
    AccountRefs(file) \subseteq Refs(customers) /\ loaded.customers = Len(file.accounts)
AccountsAreWhole(file, loaded) ==
    AccountRefs(file) \subseteq Refs(accounts) /\ loaded.accounts = Len(file.accounts)
PaymentsAreWhole(file, loaded) ==
    /\ Refs(OwnRows(file)) \subseteq Refs(TransactionsOf(file))
    /\ loaded.transactions \in
         Cardinality(OwnRows(file))..Cardinality(TransactionsOf(file))

(* A load recorded as completed, with no reset since it began to load, is whole:
   all of the file that can be stored is, and the record counts it. *)
CompletedLoadsAreWhole ==
    \A c \in completed :
      c.since = resets =>
        /\ CustomersAreWhole(c.file, c.loaded)
        /\ AccountsAreWhole(c.file, c.loaded)
        /\ PaymentsAreWhole(c.file, c.loaded)

(* Every load ends, also those that wait to empty the tables, for one that is being
   emptied, or for each other. *)
LoadsEnd == \A l \in Loaders : stage[l] # "idle" ~> stage[l] = "idle"

-----------------------------------------------------------------------------
(* The inductive invariant behind RowsReferToTheirOwn.  Numbers are those of one row, ... *)
NumbersAreUnique(table, upto) ==
    /\ \A row \in table : row.id \in 1..upto
    /\ \A row, other \in table : row.id = other.id => row.ref = other.ref

(* ... nobody else uses what a TRUNCATE under way has taken, ... *)
LocksInv ==
    \A l, other \in Loaders :
      l # other => Exclusive(l) \cap (Exclusive(other) \cup Shared(other)) = {}

(* ... so a mapping that a loader holds, with the lock, is that of the table still, ... *)
Leads(number, table) ==
    \A ref \in DOMAIN number : \E row \in table : row.id = number[ref] /\ row.ref = ref

IsRun(r) ==
    /\ r = [file |-> r.file, reset |-> r.reset, since |-> r.since, number |-> r.number,
            loaded |-> r.loaded]
    /\ r.loaded = [customers |-> r.loaded.customers, accounts |-> r.loaded.accounts,
                   transactions |-> r.loaded.transactions]

LoaderInv(l) ==
    /\ IsRun(run[l])
    /\ stage[l] # "idle" => run[l].file \in files
    /\ stage[l] = "accounts" =>
         /\ AccountRefs(run[l].file) \subseteq DOMAIN run[l].number
         /\ Leads(run[l].number, customers)
    /\ stage[l] = "transactions" => Leads(run[l].number, accounts)

(* ... and rows have been stored with numbers from such a mapping. *)
RowsInv ==
    /\ \A a \in accounts : \E c \in customers : c.id = a.customer_id /\ c.ref = a.ref
    /\ \A t \in transactions :
         \E s, r \in accounts, file \in files : \E row \in CsvRows(file) :
           /\ s.id = t.sender /\ r.id = t.receiver
           /\ row.ref = t.ref /\ row.orig = s.ref /\ row.bene = r.ref
           /\ row.orig # row.bene

TablesInv ==
    /\ files \in Sources
    /\ last \in [customers : Nat, accounts : Nat, transactions : Nat]
    /\ NumbersAreUnique(customers, last.customers)
    /\ NumbersAreUnique(accounts, last.accounts)
    /\ stage \in [Loaders -> Stages] /\ DOMAIN run = Loaders
    /\ LocksInv
    /\ \A l \in Loaders : LoaderInv(l)
    /\ RowsInv

(* The inductive strengthening of CompletedLoadsAreWhole: unless a reset has come
   since, what a load has got through so far is whole. *)
Past(l, table) ==
    stage[l] \in CASE table = "customers" -> {"read_customers", "accounts", "read_accounts",
                                             "transactions", "complete"}
                  [] table = "accounts" -> {"read_accounts", "transactions", "complete"}
                  [] table = "transactions" -> {"complete"}

ProgressInv(l) ==
    /\ run[l].since \in 0..resets
    /\ run[l].since = resets =>
         /\ Past(l, "customers") => CustomersAreWhole(run[l].file, run[l].loaded)
         /\ Past(l, "accounts") => AccountsAreWhole(run[l].file, run[l].loaded)
         /\ Past(l, "transactions") => PaymentsAreWhole(run[l].file, run[l].loaded)
         /\ stage[l] = "transactions" => AccountRefs(run[l].file) \subseteq DOMAIN run[l].number

LoadsInv ==
    /\ resets \in Nat
    /\ IsFiniteSet(transactions)
    /\ \A c \in completed : c.since \in 0..resets
    /\ \A l \in Loaders : ProgressInv(l)
    /\ CompletedLoadsAreWhole

(* What those who read transactions rely on: a number is that of one row, in the
   order the rows came. *)
PaymentsInv ==
    /\ \A t \in transactions : /\ t.id \in 1..last.transactions
                              /\ t.amount \in Nat /\ t.at \in Nat
    /\ \A t, o \in transactions : t.id = o.id => t = o

(* Behind TypeOK: a run resets once, after it has started, and counts what it loads. *)
Resetting == {l \in Loaders : stage[l] \in Resets}

RunsInv ==
    /\ started \in 0..MaxRuns
    /\ IsFiniteSet(Resetting)
    /\ resets + Cardinality(Resetting) <= started
    /\ \A l \in Loaders : run[l].loaded \in Counts
    /\ completed \subseteq Completions
=============================================================================
