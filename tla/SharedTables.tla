---------------------------- MODULE SharedTables ----------------------------
(***************************************************************************)
(* The tables of Ingestion with everyone who uses them: loads and resets,  *)
(* a rule engine that stores the alerts it finds in batches, the agent's   *)
(* tools, and the labels alerts are scored by.  RuleEngine has engines     *)
(* that compete and a fixed set of matches; here there is one engine, and  *)
(* what it matches is read from data that others may replace meanwhile.    *)
(*                                                                         *)
(* An action is the code up to a commit, or a SELECT whose locks the next  *)
(* commit releases; it waits while a TRUNCATE has one of its tables.  A    *)
(* rule of run_all_rules may be any of the registered ones, in any order.  *)
(*                                                                         *)
(* Bounds: MaxScans rules are evaluated and MaxCalls tools called.         *)
(***************************************************************************)
EXTENDS Ingestion, DetectionRules, ToolQueries, Labels

CONSTANTS
    BATCH_SIZE,    \* 5000 in the code
    Registry,      \* the rules that run
    Requests,      \* the tool calls an agent may make
    Known,         \* what pseudonym_map has tokens for from earlier datasets
    MaxScans, MaxCalls    \* by the files there are

Tools == {"get_transaction_history", "get_linked_accounts", "get_customer_profile",
          "get_alert_history"}

ASSUME SharedTablesAssumption ==
    /\ BATCH_SIZE \in Nat \ {0}
    /\ Registry \subseteq RuleCodes
    /\ Requests \subseteq [tool : Tools, type : {"account", "customer"},
                           ref : UNION {AccountRefs(file) : file \in Files},
                           days_back : Int, limit : Int, min_interactions : Int]
    /\ MaxScans \in [Sources -> Nat]
    /\ MaxCalls \in [Sources -> Nat]

VARIABLES
    engine,    \* local variables of run_all_rules
    scans,     \* the rule_completed audit rows, those of scans of the present data
    misplaced, \* ghost: alerts inserted when a reset had replaced what they are about
    call,      \* the tool call under way, or the last one
    known,     \* pseudonym_map: <<type, value>> of whatever has a token
    used       \* how many scans and calls there have been

users == <<engine, scans, misplaced, call, known, used>>
allVars == <<vars, users>>

(* since: ghost, the resets when the rule was evaluated; upto: ghost, the last
   transaction by then; fresh: nothing has been committed since. *)
NoScan == [stage |-> "idle", code |-> "none", queue |-> {}, since |-> 0, upto |-> 0,
           fresh |-> FALSE]

NoRequest == [tool |-> "none", type |-> "none", ref |-> "none", days_back |-> 0,
              limit |-> 0, min_interactions |-> 0]
NoAccount == [id |-> 0, ref |-> "none", customer_id |-> 0]

(* account: the row the tool looked up; todo: what it has still to pseudonymize;
   reading: it has not committed since. *)
NoCall == [stage |-> "idle", request |-> NoRequest, account |-> NoAccount, todo |-> {},
           reading |-> FALSE, status |-> "none", rows |-> {}, since |-> 0, overtaken |-> FALSE]

AlertRows == [rule_code : RuleCodes, transaction_id : Nat, account_id : Nat]

SharedTypeOK ==
    /\ TypeOK
    /\ alerts \subseteq AlertRows
    /\ misplaced \subseteq AlertRows
    /\ engine.stage \in {"idle", "insert"}
    /\ engine.queue \subseteq AlertRows
    /\ scans \subseteq [code : RuleCodes, upto : Nat]
    /\ call.stage \in {"idle", "answering", "done"}
    /\ call.status \in {"none", "ok", "error"}
    /\ call.stage = "answering" => call.account.ref = call.request.ref
    /\ call.stage = "done" => call.todo = {}
    /\ used.scans \in 0..MaxScans[files] /\ used.calls \in 0..MaxCalls[files]

SharedInit ==
    /\ Init
    /\ engine = NoScan
    /\ scans = {}
    /\ misplaced = {}
    /\ call = NoCall
    /\ known = Known
    /\ used = [scans |-> 0, calls |-> 0]

-----------------------------------------------------------------------------
(* Whether no TRUNCATE under way has taken one of these tables. *)
Available(names) == \A l \in Loaders : Exclusive(l) \cap names = {}

(* rule.evaluate and list(): the candidates are in memory, and the transaction
   of the SELECT stays open. *)
EvaluateRule ==
    /\ engine.stage = "idle"
    /\ Available({"transactions"})
    /\ used.scans < MaxScans[files]
    /\ used' = [used EXCEPT !.scans = @ + 1]
    /\ \E code \in Registry :
         engine' = [stage |-> "insert", code |-> code, since |-> resets,
                    queue |-> Candidates(code, transactions),
                    upto |-> last.transactions, fresh |-> TRUE]
    /\ UNCHANGED <<vars, scans, misplaced, call, known>>

(* Variant: one alert per rule and account. *)
SameAccount(c, d) == c.rule_code = d.rule_code /\ c.account_id = d.account_id

(* uq_alerts_rule_code_transaction_id. *)
SameKey(c, d) == c.rule_code = d.rule_code /\ c.transaction_id = d.transaction_id

(* The foreign keys of alerts. *)
HasParents(c) ==
    /\ c.transaction_id \in {t.id : t \in transactions}
    /\ c.account_id \in {a.id : a \in accounts}

(* The rows ON CONFLICT DO NOTHING lets through. *)
Inserted(batch) == {c \in batch : \A alert \in alerts : ~SameKey(alert, c)}

Batches(queue) == kSubset(Min({BATCH_SIZE, Cardinality(queue)}), queue)

(* flush: an INSERT, with the checks of its foreign keys, and its COMMIT.  A row
   without its parents is an IntegrityError, which nothing catches. *)
InsertBatch ==
    /\ engine.stage = "insert"
    /\ engine.queue # {}
    /\ Available({"transactions", "accounts"})
    /\ \E batch \in Batches(engine.queue) :
         \/ /\ \A c \in batch : HasParents(c)
            /\ alerts' = alerts \cup Inserted(batch)
            /\ misplaced' = IF engine.since # resets /\ ~engine.fresh
                              THEN misplaced \cup Inserted(batch) ELSE misplaced
            /\ engine' = [engine EXCEPT !.queue = @ \ batch, !.fresh = FALSE]
         \/ /\ \E c \in batch : ~HasParents(c)
            /\ engine' = NoScan
            /\ UNCHANGED <<alerts, misplaced>>
    /\ UNCHANGED <<files, customers, accounts, transactions, last, stage, run, started,
                   completed, resets, scans, call, known, used>>

(* rule_completed. *)
CompleteRule ==
    /\ engine.stage = "insert"
    /\ engine.queue = {}
    /\ scans' = IF engine.since = resets
                  THEN scans \cup {[code |-> engine.code, upto |-> engine.upto]} ELSE scans
    /\ engine' = NoScan
    /\ UNCHANGED <<vars, misplaced, call, known, used>>

(* Also when Postgres fails an INSERT that has locked alerts for a TRUNCATE that has
   locked transactions. *)
EngineCrash ==
    /\ engine.stage = "insert"
    /\ engine' = NoScan
    /\ UNCHANGED <<vars, scans, misplaced, call, known, used>>

-----------------------------------------------------------------------------
(* Tool.execute: the arguments are checked before anything is read. *)
ValidArgs(request) ==
    request.days_back >= 1 /\ request.limit >= 1 /\ request.min_interactions >= 1

Resolves(request) == <<request.type, request.ref>> \in known

AccountsOf(request) == {a \in accounts : a.ref = request.ref}

StartCall(request) ==
    /\ call.stage # "answering"
    /\ used.calls < MaxCalls[files]
    /\ used' = [used EXCEPT !.calls = @ + 1]
    /\ UNCHANGED <<vars, engine, scans, misplaced>>

Answer(request, rows) ==
    call' = [NoCall EXCEPT !.stage = "done", !.request = request, !.status = "ok",
               !.rows = rows]

(* An error result, from the tool or from dispatch, says nothing of the data. *)
Refuse == call' = [NoCall EXCEPT !.stage = "done", !.status = "error"]

(* The tables a tool reads, in the order of its statements. *)
TablesOf(request) ==
    CASE request.tool = "get_alert_history" -> <<"accounts", "alerts">>
      [] request.tool = "get_customer_profile" ->
           IF request.type = "account" THEN <<"customers", "accounts">> ELSE <<"customers">>
      [] OTHER -> <<"accounts", "transactions">>

(* External: a tool that has locked the table a TRUNCATE waits for, and waits for one
   that this has, may be failed by Postgres; a Crash is the other way out. *)
MeetsTruncate(request) ==
    \E l \in Loaders, i, j \in DOMAIN TablesOf(request) :
      i < j /\ Needs(l) = TablesOf(request)[i] /\ TablesOf(request)[j] \in Exclusive(l)

(* Invalid arguments, a token that was never given out, one for a row that the
   current dataset does not have, or a deadlock. *)
RefuseCall(request) ==
    /\ StartCall(request)
    /\ \/ ~ValidArgs(request)
       \/ ~Resolves(request)
       \/ /\ request.tool # "get_customer_profile" /\ AccountsOf(request) = {}
          /\ Available({"accounts"})
       \/ /\ request.tool = "get_customer_profile"
          /\ CustomersOf(request.type, request.ref, accounts, customers) = {}
          /\ Available(ToSet(TablesOf(request)))
       \/ MeetsTruncate(request)
    /\ Refuse
    /\ UNCHANGED known

(* Rows found, and now to be pseudonymized one by one. *)
Describe(request, account, rows) ==
    /\ call' = [NoCall EXCEPT !.stage = IF rows = {} THEN "done" ELSE "answering",
                  !.request = request, !.account = account, !.todo = rows, !.reading = (rows # {}),
                  !.status = IF rows = {} THEN "ok" ELSE "none", !.since = resets]
    /\ UNCHANGED known

Accepted(request, tool) ==
    /\ request.tool = tool
    /\ ValidArgs(request)
    /\ Resolves(request)
    /\ Available(ToSet(TablesOf(request)))
    /\ StartCall(request)

GetTransactionHistory(request) ==
    /\ Accepted(request, "get_transaction_history")
    /\ \E account \in AccountsOf(request) :
         \E rows \in Top(InWindow(account.id, request.days_back, transactions), "at",
                         request.limit) :
           Describe(request, account, rows)

(* The counterparties' accounts are all read before the first one is tokenized. *)
GetLinkedAccounts(request) ==
    /\ Accepted(request, "get_linked_accounts")
    /\ \E account \in AccountsOf(request) :
         \E links \in Top(Links(account.id, request.days_back, request.min_interactions,
                                transactions), "volume", request.limit) :
           Describe(request, account,
             {[account |-> pair[1], link |-> pair[2]] : pair \in
                {p \in accounts \X links : p[1].id = p[2].counterparty}})

(* The customer's reference and name become tokens; the row is in memory. *)
pseudonymize_customer(request, c) ==
    /\ Answer(request, {c.ref})
    /\ known' = known \cup ({"customer", "name"} \X {c.ref})

GetCustomerProfile(request) ==
    /\ Accepted(request, "get_customer_profile")
    /\ \E c \in CustomersOf(request.type, request.ref, accounts, customers) :
         pseudonymize_customer(request, c)

GetAlertHistory(request) ==
    /\ Accepted(request, "get_alert_history")
    /\ \E account \in AccountsOf(request) :
         LET all == AlertsOn(account.id, alerts)
         IN  \E shown \in kSubset(Min({request.limit, Cardinality(all)}), all) :
               Answer(request, shown)
    /\ UNCHANGED known

(* The last row makes the answer.  The first pseudonymize commits, whether its value
   had a token or not, and so ends the locks of what was read before. *)
Progress(item, row, tokens) ==
    /\ call' = [call EXCEPT !.todo = @ \ {item}, !.rows = @ \cup {row},
                  !.reading = FALSE,
                  !.stage = IF call.todo = {item} THEN "done" ELSE "answering",
                  !.status = IF call.todo = {item} THEN "ok" ELSE "none",
                  !.overtaken = (resets # call.since)]
    /\ known' = known \cup tokens

(* The references an account number leads to now, none if its row is gone.  For the
   account asked for, which the tool still holds, the session keeps the object it has,
   with the reference read then, whatever the row says. *)
LookUp(id) ==
    {IF id = call.account.id THEN call.account.ref ELSE a.ref : a \in {a \in accounts : a.id = id}}

(* Both accounts are read, then everything is tokenized, with a commit each.
   scalar_one raises when a row is gone; dispatch makes that an error result. *)
pseudonymize_transaction(t) ==
    \/ \E sender \in LookUp(t.sender), receiver \in LookUp(t.receiver) :
         Progress(t, [ref |-> t.ref, sender |-> sender, receiver |-> receiver],
                  {<<"transaction", t.ref>>, <<"account", sender>>, <<"account", receiver>>})
    \/ /\ {} \in {LookUp(t.sender), LookUp(t.receiver)}
       /\ Refuse
       /\ UNCHANGED known

(* The latest row that is left. *)
DescribeTransaction(t) ==
    /\ call.stage = "answering"
    /\ call.request.tool = "get_transaction_history"
    /\ t \in call.todo
    /\ \A other \in call.todo : other.at <= t.at
    /\ Available({"accounts"})
    /\ pseudonymize_transaction(t)
    /\ UNCHANGED <<vars, engine, scans, misplaced, used>>

(* Variant: each counterparty is looked up when its turn comes. *)
CounterpartyNow(item) == Refs({a \in accounts : a.id = item.account.id})

Counterparty(item) == {item.account.ref}

(* One counterparty is tokenized. *)
DescribeLink(item) ==
    /\ call.stage = "answering"
    /\ call.request.tool = "get_linked_accounts"
    /\ item \in call.todo
    /\ \E ref \in Counterparty(item) :
         Progress(item, [counterparty |-> ref, direction |-> item.link.direction,
                         volume |-> item.link.volume, count |-> item.link.count],
                  {<<"account", ref>>})
    /\ UNCHANGED <<vars, engine, scans, misplaced, used>>

-----------------------------------------------------------------------------
(* What the engine's transaction has read until its first batch, and a tool's until it
   first calls pseudonymize. *)
HeldByEngine == IF engine.stage = "insert" /\ engine.fresh THEN {"transactions"} ELSE {}
HeldByCall ==
    IF call.stage = "answering" /\ call.reading THEN {"accounts", "transactions"} ELSE {}

(* Variant: the engine's SELECT is committed before its candidates are stored. *)
NoCallReads(l) == Needs(l) \notin HeldByCall

(* TRUNCATE waits for transactions that have read the table. *)
NoReaders(l) == Needs(l) \notin HeldByEngine \cup HeldByCall

Load(l) ==
    /\ \/ Begin(l) \/ InsertCustomers(l) \/ ReadCustomers(l) \/ InsertAccounts(l)
       \/ ReadAccounts(l) \/ InsertTransactions(l) \/ Complete(l) \/ BreakDeadlock(l)
       \/ Crash(l)
    /\ UNCHANGED users

(* The alerts go, those that were wrong among them. *)
ResetTables(l) ==
    /\ NoReaders(l)
    /\ \/ /\ LockTransactions(l) \/ LockAccounts(l)
          /\ UNCHANGED users
       \/ /\ Reset(l)
          /\ misplaced' = {} /\ scans' = {}
          /\ UNCHANGED <<engine, call, known, used>>

UseTool ==
    \/ \E request \in Requests :
         \/ RefuseCall(request) \/ GetTransactionHistory(request)
         \/ GetLinkedAccounts(request) \/ GetCustomerProfile(request)
         \/ GetAlertHistory(request)
    \/ \E item \in call.todo : DescribeTransaction(item) \/ DescribeLink(item)

SharedNext ==
    \/ \E l \in Loaders : Load(l) \/ ResetTables(l)
    \/ EvaluateRule \/ InsertBatch \/ CompleteRule \/ EngineCrash
    \/ UseTool

SharedSpec == SharedInit /\ [][SharedNext]_allVars

(* A loader, the engine and a tool keep working, and Postgres gives free locks and
   resolves deadlocks, as in FairSpec. *)
FairSharedSpec ==
    /\ SharedSpec
    /\ \A l \in Loaders : WF_allVars((UNCHANGED users /\ Step(l)) \/ ResetTables(l))
    /\ WF_allVars(InsertBatch \/ CompleteRule)
    /\ WF_allVars(\E item \in call.todo : DescribeTransaction(item) \/ DescribeLink(item))

-----------------------------------------------------------------------------
(* The alerts of the rules that judge by how much there is, not by a ratio, stay
   justified: more data never takes the reason for one away, a reset leaves none
   behind whose number the next load gives to another transaction, and candidates
   that fit in one batch are about the data they were found in.  Only a later
   batch that a reset has overtaken may be about something else. *)
IsJustified(c) ==
    c.rule_code # "RAPID_MOVEMENT_001" => c \in Candidates(c.rule_code, transactions)

AlertsStayJustified == \A alert \in alerts \ misplaced : IsJustified(alert)

(* No incident in the data escapes the rule named for it: the transaction that
   completes it is among the rule's candidates, whatever else the accounts did and
   whether the data came in one load or in several. *)
IncidentsAreFound ==
    \A code \in RuleCodes : \A S \in SUBSET transactions :
      IsIncident(code, S) => Latest(S) \subseteq Matching(code, transactions)

(* The transactions a completed scan has seen. *)
Seen(scan) == {t \in transactions : t.id <= scan.upto}

(* From data to score: a laundering payment that completes an incident counts as
   detected once a scan of the rule is recorded as completed, whichever batches,
   crashes and loads there were, except where a misplaced alert took its key.
   FAN_IN is left out: it alerts on the receiver, while a label is about the sender,
   so its alerts on laundering payments count as false positives. *)
IncidentsAreScored ==
    \A scan \in {s \in scans : s.code # "FAN_IN_001"} :
      \A S \in SUBSET Seen(scan) : IsIncident(scan.code, S) =>
        \A t \in {t \in Latest(S) : IsLaundering(t)} :
          \/ <<t.sender, DayOf(t)>> \in
               TruePositives(alert_account_days(scan.code, alerts, transactions),
                             ground_truth_account_days(transactions))
          \/ \E alert \in misplaced : alert.transaction_id = t.id

(* The tools that list payments and counterparties agree: over one window, an
   account's links count each of its payments once, with its amount. *)
LinksAddUp ==
    \A a \in accounts, days \in {request.days_back : request \in Requests} :
      LET links == Links(a.id, days, 1, transactions)
          window == InWindow(a.id, days, transactions)
      IN  /\ SumFunction([link \in links |-> link.count]) = Cardinality(window)
          /\ SumFunction([link \in links |-> link.volume]) = Total(window)

PaymentOf(row) ==
    \E file \in files : \E csv \in CsvRows(file) :
      csv.ref = row.ref /\ csv.orig = row.sender /\ csv.bene = row.receiver

(* Payments in the files between two accounts, in the direction of a link. *)
LinkOf(ref, row) ==
    \E file \in files : \E csv \in CsvRows(file) :
      \/ row.direction # "received_only" /\ csv.orig = ref /\ csv.bene = row.counterparty
      \/ row.direction # "sent_only" /\ csv.orig = row.counterparty /\ csv.bene = ref

(* What a tool tells the agent is so of the data it read, although each call of
   pseudonymize commits and lets a reset in: a profile is that of the customer asked
   for, a link leads to an account there were payments with, and a listed payment names
   its two accounts.  The last holds only if no reset overtook the call: then numbers read
   before are looked up in other data. *)
AnswersAreTrue ==
    call.stage = "done" /\ call.status = "ok" =>
      \/ call.request.tool = "get_alert_history"
      \/ call.request.tool = "get_customer_profile" /\ call.rows = {call.request.ref}
      \/ /\ call.request.tool = "get_linked_accounts"
         /\ \A row \in call.rows : LinkOf(call.request.ref, row)
      \/ /\ call.request.tool = "get_transaction_history"
         /\ call.overtaken \/ \A row \in call.rows :
              PaymentOf(row) /\ call.request.ref \in {row.sender, row.receiver}

-----------------------------------------------------------------------------
(* "a rule that fires on the 5th transaction in a structuring pattern should score
   as one detection, not four misses plus one hit", says ground_truth_account_days.
   Windows are longer than a day and rules fire on the payment that completes a
   pattern, so the days before it are misses. *)
OneDetectionPerPattern ==
    \A scan \in {s \in scans : s.code = "STRUCTURING_001"} :
      \A S \in SUBSET Seen(scan) :
        IsIncident(scan.code, S) /\ (\A t \in S : IsLaundering(t)) =>
          {<<t.sender, DayOf(t)>> : t \in S} \cap
            FalseNegatives(alert_account_days(scan.code, alerts, transactions),
                           ground_truth_account_days(transactions)) = {}

-----------------------------------------------------------------------------
(* The inductive strengthening of AlertsStayJustified: so are the candidates in hand,
   unless a reset has come since; a scan whose SELECT is uncommitted keeps TRUNCATE off
   the transactions. *)
AlertsInv ==
    /\ AlertsStayJustified
    /\ engine.stage = "insert" =>
         /\ engine.code \in RuleCodes
         /\ engine.since \in 0..resets
         /\ engine.fresh => engine.since = resets /\ Available({"transactions"})
         /\ engine.since = resets => \A c \in engine.queue : IsJustified(c)

(* And of IncidentsAreScored: what completes an incident among the first upto
   transactions is a candidate still to be stored, or has its key in alerts, on the
   account of the rule or in a misplaced alert. *)
Scored(code, upto, queue) ==
    \A S \in SUBSET {t \in transactions : t.id <= upto} : IsIncident(code, S) =>
      \A t \in Latest(S) :
        \/ [rule_code |-> code, transaction_id |-> t.id,
            account_id |-> AlertedAccount(code, t)] \in queue
        \/ \E alert \in alerts :
             /\ alert.rule_code = code /\ alert.transaction_id = t.id
             /\ alert.account_id = AlertedAccount(code, t) \/ alert \in misplaced

ScoresInv ==
    /\ engine.stage = "insert" /\ engine.since = resets =>
         /\ engine.upto \in 0..last.transactions
         /\ Scored(engine.code, engine.upto, engine.queue)
    /\ \A scan \in scans :
         /\ scan.code \in RuleCodes /\ scan.upto \in 0..last.transactions
         /\ Scored(scan.code, scan.upto, {})

(* And of AnswersAreTrue.  What a tool has still to pseudonymize will be true: links as
   they were read; payments as long as they and their accounts are in the tables. *)
AnsweringInv ==
    /\ call.account.ref = call.request.ref
    /\ call.since \in 0..resets
    /\ \/ /\ call.request.tool = "get_linked_accounts"
          /\ \A item \in call.todo :
               LinkOf(call.request.ref,
                      [counterparty |-> item.account.ref, direction |-> item.link.direction])
          /\ \A row \in call.rows : LinkOf(call.request.ref, row)
       \/ /\ call.request.tool = "get_transaction_history"
          /\ call.since = resets =>
               /\ call.account \in accounts
               /\ call.todo \subseteq transactions
               /\ \A t \in call.todo : call.account.id \in {t.sender, t.receiver}
               /\ \A row \in call.rows :
                    PaymentOf(row) /\ call.request.ref \in {row.sender, row.receiver}

CallInv ==
    /\ DOMAIN call = DOMAIN NoCall
    /\ call.stage \in {"idle", "answering", "done"} /\ call.status \in {"none", "ok", "error"}
    /\ call.stage = "answering" => AnsweringInv
    /\ call.stage = "done" => call.todo = {}
    /\ AnswersAreTrue

(* Behind SharedTypeOK: what the engine holds and stores are alerts of its rules. *)
UsersInv ==
    /\ alerts \subseteq AlertRows /\ misplaced \subseteq AlertRows
    /\ engine.stage \in {"idle", "insert"} /\ engine.queue \subseteq AlertRows
    /\ engine.stage = "insert" => engine.code \in RuleCodes /\ engine.upto \in Nat
    /\ scans \subseteq [code : RuleCodes, upto : Nat]
    /\ used \in [scans : 0..MaxScans[files], calls : 0..MaxCalls[files]]
=============================================================================
