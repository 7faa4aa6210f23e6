# Dominion Lancer, modelled in TLA+

Dominion Lancer is a bug-bounty market on the Sui blockchain. A finder uploads a program that
demonstrates a bug; a server hands it to an AWS Nitro enclave, which runs it, encrypts the
outcome with Seal and signs it; the outcome is stored on Walrus and committed to a *finding*
object on chain, which the finder publishes and the bounty's owner pays for. Payment opens
the private part of the report.

This directory holds TLA+ modules for the parts of that system whose behaviour is worth
checking, TLC configurations that check them, and theorems that TLAPS proves about them.

## 1. The system

### Components, their state and their operations

| component | source | state | operations |
|---|---|---|---|
| finding contract | `sui/dominion_lancer/sources/finding.move` | shared `Finding` objects: payments bag, `payed_count`, three optional report blobs, `is_published`; one `OwnerCap` each | create, add/set payment, commit, report error, publish, pay, withdraw, destroy, two Seal policies |
| bug bounty contract | `sui/dominion_lancer/sources/bug_bounty.move`, `upgrader_approve.move`, `executor.move` | shared `BugBounty` (bag of approvals, `is_active`), one `OwnerCap` each | create, approve |
| escrow and server contracts | `sui/dominion_lancer_runner/sources/escrow.move`, `server.move` | shared `Escrow` objects (balance, lock) and `Server` objects (active flag, counter of locked escrows), caps for both | create, deposit, withdraw, merge, lock, unlock, forced unlock, destroy, deactivate |
| lancer server | `rs/lancer-server` | a channel of 8 pending findings, a worker task with at most one enclave connection, the identity of the connected enclave, the last registered enclave | POST /finding, worker loop, enclave registration, response processing |
| enclave connector | `rs/lancer-enclave-connector` | keys made at start, the current task and its child process | connect, announce identity, run a task, encrypt and sign the outcome |
| runner | `rs/lancer-runner` | a local test cluster, temporary wallets, the transaction being built | run a Gluon scenario and write its reports |
| scenario library | `glu/lancer` | the stage of a demonstration | initialise, prepare, demonstrate, summarise |
| web client: submission | `ts/dominion-lancer-app`, `createFinding.ts`, `finding/new.tsx`, `sdk/Escrow.ts` | a cached list of the user's escrows, the submission under way | list escrows, compute the topup, send one transaction, POST |
| web client: findings | `ts/dominion-lancer-app`, `FindingCard.tsx`, `queries/finding.ts`, `mutations/Finding/*.ts`, `downloadBlob.ts`, `sdk/Finding.ts` | cached objects of a finding, transactions under way, links to decrypted reports | show a finding, pay, publish, withdraw, remove a payment, destroy, open a report |
| web client: wallets | `SuiWalletController.tsx`, `stores/wallets.ts`, `__root.tsx` | the selected wallet, the status of the connection, the user, a copy of every wallet's accounts | select, connect, disconnect, follow the wallet's events |
| web client: bug bounties | `bug-bounty/new.tsx`, `createBugBounty.ts`, `userPackages.ts`, `bugBountyIds.ts` | cached lists of packages and of bounties, the submission under way | create a bounty and approve it |
| web client: pages | `ts/dominion-lancer-app` | filters, theme | print what the queries give |
| command line client | `ts/dominion-lancer-cli` | none | create bounties and enclave configurations, show objects |
| snapshot explorer | `rs/snapshot-explorer` | none | print the objects of a snapshot |

### How they interact

* The pages of the client are drawn from one cache of queries, one chain object per query. A mutation sends one
  transaction through the wallet and then marks queries as out of date, or patches their data by hand, some of it
  10 ms later. Other tabs, other users and the server change the same objects.
* The wallet answers calls when it likes and tells of its accounts by events; the controller turns both into
  the status and the user that every page and every mutation read.
* The client reads the server's public key, creates the finding, its first payment request and
  an escrow on chain, encrypts the bug program for the enclave and POSTs it to the server.
* The HTTP handler checks the submission against the chain and puts it into the channel of the
  worker (it waits at most 10 s for room). The worker owns the enclave connection: it reads the
  enclave's identity, registers it on chain when it is new, and then sends one task at a time
  and waits for the response. It keeps the unanswered task and sends it again after a reconnect.
* The enclave connector decrypts the task, runs the runner in a child process, encrypts and
  signs what it wrote, and sends it back. Its keys live as long as its process.
* The worker stores the blobs on Walrus and calls `commit` or `report_error` on the finding;
  those verify the enclave's signature.
* Key servers run the `seal_approve_*` policies against the current chain state to decide who
  may decrypt which report.

### What is hard

On chain every call is atomic, but calls of the owner, of payers and of the server come in any
order, so the hazards are sequences of legal calls: bookkeeping that drifts, coins that get
stuck, a price that moves after publication. Off chain the hazards are the usual ones of a
worker with a queue and a connection: an enclave that restarts between two steps with new keys,
a connection lost while a task is out, an answer that comes twice, a failed transaction in the
middle. `PROJECT.json` lists each of them with its line under `hazards`.

### What makes each component correct

* *finding contract*: no coin is lost; the bookkeeping never makes the owner's calls abort; the
  price is fixed by publication; the private report opens for the bounty when, and only when, the
  price came in, and never closes again; a report is one that the enclave signed for this finding and submission.
* *escrow and server contracts*: no coin is lost; locked money stays; a lock can be released; a
  server that is deactivated drains; a server is not destroyed while escrows are locked with it.
* *server and connector*: an accepted submission is not lost, doubled or overtaken, and is settled
  in the end, whatever connections and enclaves do; a response is taken for the task it answers and
  submitted with the registration of the enclave that signed it; the key handed out is the connected
  enclave's; running a task twice does no harm; a failure of one task stays with that task.
* *web client*: the escrow named to the server is the user's escrow with that server and holds the
  budget; a finding made on chain is also submitted; two forms, tabs or sessions do not get in each
  other's way.
* *runner and scenario library*: the stages of a demonstration come in order, changes are recorded
  between snapshots of the right objects, and the summary says what the stages did.
* *wallet controller*: the user is one of the selected wallet's, a page that connects is waiting for somebody, and who
  disconnects stays disconnected.
* *finding card*: it agrees with the contract on what the finding is and what may be done, as soon as its data are
  current; what the user did is shown in the end; a payment is exact; a report is shown to whom it was opened for.
* *bug bounties*: a bounty is approved when its owner holds the upgrade cap; the lists have what was made, once.

## 2. The modules

| module | models | rests on |
|---|---|---|
| `FindingSale` | what a finding promises: life cycle, negotiable price, debt that only goes down | |
| `Finding` | `finding.move`, every public and entry function, both Seal policies | refines `FindingSale` |
| `FindingProofs`, `FindingSaleProofs` | theorems about `Finding` and the refinement | `Finding` |
| `Custody` | what an escrow promises: the owner's money until it is held, the holder's to take while held; who may hold, and until when | |
| `Escrow` | `escrow.move` and `server.move` | refines `Custody` |
| `EscrowProofs`, `EscrowCustodyProofs` | theorems about `Escrow` and the refinement | `Escrow` |
| `CreateFinding` | the client's submission: form, query cache, transaction, POST | extends `Escrow`: its transaction is made of the contract's calls, and every other call of the contract may come between its steps |
| `CreateFindingProofs` | theorems about `CreateFinding` | `CreateFinding`, `EscrowCustodyProofs` |
| `Service` | what a submission is promised: it waits in line, nobody is passed over, and it is settled at most once while the service runs | |
| `Worker` | HTTP handler, channel, worker, connector, the stream between them, and the status of findings on chain | refines `Service` |
| `WorkerProofs` | theorems about `Worker` and the refinement | `Worker` |
| `FindingCard` | the card of one finding: queries, cache, buttons, transactions, reports | extends `Finding`: the contract under the card is the one above |
| `FindingCardProofs` | theorems about `FindingCard` | `FindingCard`, `FindingSaleProofs` |
| `WalletController` | the selected wallet, the connection, the user | |
| `BugBounty` | `bug_bounty.move`, `upgrader_approve.move`, the form, the lists | extends `WalletController`: the page's user and wallet are those |
| `BugBountyProofs` | theorems about `WalletController` and `BugBounty` | `BugBounty` |
| `MCFinding`, `MCEscrow`, `MCCreateFinding`, `MCWorker`, `MCFindingCard`, `MCBugBounty` | symmetry sets and bounds for TLC | |

Definitions keep the names of the code. A comment that starts with *Variant* marks a definition
that differs from the one after it by a mistake somebody could make in that place; nothing uses it.
`PROJECT.json` pairs it with a property that must fail when it takes the place of the right one, so
that every property is known to be able to fail.

### Finding

A Move call is an action; a call that aborts is a disabled action, because an abort undoes the
whole transaction. The chain serialises the calls on a shared object and orders them at will, and
the model lets anybody make any call with any cap he could hold. `inner` is the `FindingV1` record
with its payments bag (a function of coin types), `object` says whether an id is free, live or
deleted. `signed` are the messages the executor enclave has signed: `commit` and `report_error`
verify a signature, so they need a member of it. Amounts are integers up to `MAX_U64`, and an addition
that would exceed it aborts, as in Move. `ledger` is history for the properties: what came in, what
went out, the price at publication, how often `set_payment_v1` replaced a settled payment
(`drift`), and whether a `_for_testing` call made the report.

Left out: `wal_funds` (no function fills it), the merging of coins, events, and `BugBounty.is_active`
as a variable (nothing clears it).

### Escrow

The same conventions. A cap is named after the object it was made with and is never deleted, so caps outlive
objects. `unlock` and `forced_unlock` share `Unlocking`, which leaves `locked_for_finding`
alone: `escrow.locked_for_finding.destroy_some()` (`escrow.move:250` and `:268`) calls a function
that takes the `Option` by value on a field behind a reference; `ID` can be copied, so the call
consumes a copy. `deposited`, `withdrawn`, `taken`, `pledge` and `unlocks` are history.
One coin type is modelled; escrows of different types share only their server's counter.

### CreateFinding

One tab, whose forms share one query cache, and each form is one attempt: `onSubmit` computes the
topup from the list the page shows, `ensureQueryData` fixes the list the transaction is built from
(what is cached, however old, or a fresh one), `execTx` is the transaction, `post` reads the event
and names the escrow. Any step may throw instead (`Fail`), the page may be closed at any time
(`Reload`), the wait for an executed transaction may fail, and the list may be fetched
again at any time (`Fetch`). The transaction's effect on the escrows is `create`, or the deposit and all
merges at once (`DepositAndMerge`), with the guards of the contract's calls. Other tabs,
other programs of the user and the operators are calls of `Escrow`.

### Worker

An action is what happens between two awaits. `pc` is where the worker is, from `accept` over the
registration of the enclave to `await`, `process` and `submit`; `loc` is where the connector is. A
connection is a number; `request[c]` and `reply[c]` are the message on its way; `alive` holds the
connections nobody has closed, and a peer learns of the loss at its next read or write. A start of the connector
makes new keys, so the identity of an enclave is the number of its start, and a submission is
encrypted for the key its client fetched (`key`). A panic ends the worker (`pc = "dead"`, `death` the call it died in)
while the HTTP side goes on, as a tokio task that panics does. The nautilus package and the Sui
framework are not in the repository: a registration succeeds or fails as it likes. What the worker keeps
of one that succeeds is the first of the shared objects the transaction *used* (`SharedObject`,
`worker.rs:390`), which is the `EnclaveConfig` and not the `Enclave` it made, next to the identity it
registered (`EnclaveInfo`). A frame of the stream holds 8 MB, the default of `LengthDelimitedCodec`, and the HTTP side
takes 50: the submissions in `Oversized` cannot be sent on any connection, and a response the script made too long
ends the connection in `RunTask`.

### FindingCard

The card reads up to six kinds of objects, each a query of its own: the shared object (`outer`), the `FindingV1` in it
(`inner`), the owner cap (`cap`), the list of the payments' fields (`fields`), every payment (one entry per coin) and the
bounty. `EnabledIn` says which objects must be known before a query has a key. A fetch is asked for (`asked`), read at
the node at one moment (`flushRequestQueue`, one request for all that waits, or `getDynamicFields`) and becomes data at a
later one (`Land`), in any order with everything else; it may fail for good. So the card may show a mixture of states.
`Missing` is `undefined`, `Gone` is `null`.

A button (`handlePay`, ...) is `Start`: the transaction is made of the data the card has at that moment and kept in `jobs`
with what it saw. `Sign` needs the dry run to pass, `Execute` applies all its calls at once to the contract's variables, and
`Abort` is an execution that fails on the chain. `execTx` looks at `response.errors` (`execTx.ts:34`), which such a response does not
have, so the mutation goes on as if it had succeeded. `Settle` is `onSuccess`; two kinds go on with a timer
(`RemoveTimer`, `DestroyTimer`). A download keeps the user it was started for (`downloads`), and the link it ends in
is a function of the page (`links`), which a change of the user clears (`resetUrls`).

Calls by others are `pay`, `add_payment`, `withdraw`, `set_payment_v1`, `publish`, `destroy_v1`, `commit` and `report_error` of `Finding`
itself. `Executes` and `Effect` state the transactions of the card, several contract calls each, in one step; they
use the contract's definitions of settled, due and held.

### WalletController and BugBounty

`calls` counts the unanswered calls per wallet and kind, `granted` is what a wallet allows, `known` the page's copy of
it, `news` the change events on their way. A SolidJS effect runs when what it reads has changed, before anything else can happen; so
the effect that connects (`Become`) and the one that follows the accounts (`Follow`) are parts of the actions that
trigger them. The latter runs again when the user (`SetUser`, `Navigate`) or the wallet (`SelectWallet`) becomes another one, and at a change event
only if it is `listening`: until a wallet's first event its `accounts` is a getter of the wallet's own list (`stores/wallets.ts:82`); an effect that
went through the getter listens to what lies behind it, and the setter through which the first event goes (`wallets.ts:45`, `:87`) tells
only those who read `accounts` as a node of the store. So the first event of a wallet, and every later one until the effect has read the
list again, does not run the effect. `connect`'s answer sets status and user whatever wallet it comes from (`Connected`). The
user is a parameter of the page's URL; the effect reads it with the others, so that a change of any of them runs it too (`Navigate`). The router's
navigation to another user is taken as done at once.

`BugBounty` adds the contract (a bounty's package, the holder of its owner cap, its approval; the upgrade caps),
the cached lists of ids and packages, and the submission: `onSubmit` looks the upgrade cap up in the cached packages,
`Execute` creates and, with a cap, approves; `Timer` appends to whichever lists are cached 10 ms after the success.
A list is a function from bounties to how often they are in it. A transaction of a page that is loaded again is
dropped: executed later it is the same as a call of others.

## 3. The runs

| run | instance | what it shows |
|---|---|---|
| `finding_money` | one finding, two coins, u64 up to 2, up to 3 of a coin paid, two hashes, two signed messages | `TypeOK`; `payed_count` is the number of settled payments plus the drift; coins are conserved; the published price is honoured; the private report is paid for, drift aside; the reports are those of one message the enclave signed for the finding and its submission; access is never revoked; `FindingSale` is implemented |
| `finding_unpaid` | one finding | **violated**: the private report is approved only when nothing is owed |
| `escrow_calls` | two servers, two escrows, two findings, up to 3 paid in | counter drift, pledges, conservation, and `Custody` is implemented |
| `escrow_unlock` | one server, one escrow | **violated**: a lock can be released |
| `client_submit` | two servers, two escrows, up to 2 paid into each, one form with a budget of 2 | which escrow the server is told of, whether the budget is in it, what makes a submission get lost |
| `client_merge` | two escrows | **violated**: the merges of a submission pass the contract's assertion |
| `client_locks` | one server, two escrows | **violated**: the fetched list says which escrows are locked |
| `worker_tasks` | three findings, one of them with a submission no frame holds, channel of 1, two posts, two connections, two starts, fair | whoever waits is waited for; responses, registrations and identities match; redelivery is harmless; `Service` is implemented; every accepted task is settled or the worker dies, if the connector does not lose its connections for ever and every script ends |
| `worker_task`, `worker_attested` | one finding, two posts | **violated**: two promises of messages and documentation, see below |
| `card_buttons` | one finding, two coins, u64 up to 3, two users, two events | what the card shows and offers agrees with the contract on current data; every enabled button's transaction goes through then; what the user changed is shown once all is quiet; a payment of current data is exact; a finding leaves the list only when it is gone; links are the user's |
| `bounty_page` | two wallets, one without the feature to disconnect, two accounts, two packages, three events | connecting is waiting for an answer; connected is granted; the user is the wallet's; a disconnection stays; a bounty is approved exactly if its owner holds the cap; the lists are right |

Why these bounds are enough for the cases that matter: two coins let one payment be settled while
another is not; u64 up to 2 lets a payment fall short, meet and exceed a request and an addition overflow; three units paid in
allow two instalments and one overpayment. Two escrows and two servers are what any call of the escrow contract names
at most, and three units let non-empty escrows be merged. A budget of 2 with up to 2 in an escrow makes the topup
the whole, a part or nothing. `MCCreateFinding!FewCalls` stops exploration after an unlocking call, a withdrawal
from a living escrow, and locking or deactivation at the other server; the states those calls reach are still
checked, and a destroyed or merged escrow, which the bound allows, makes a list as stale as an emptied one. Two
connections let a task be sent, lost, sent again and answered, with a restart between; a channel of 1 with two posts has
one task waiting behind another that is in hand or in the backlog, where it must not be overtaken; a third post could only find the channel full, which changes nothing, or come when one is settled. What more connections could do to the order of the tasks and to the
matching of responses, enclaves and identities is settled by the theorems, which have no bound. The counters that bound a run are
constants named `Max...` in the modules.

In `card_buttons` an *event* is what users, others and failures do by themselves: a click, the window's
focus, a change of the session, a call by others, a request that fails. What follows from it (fetches, signatures, executions, timers,
answers) is not bounded. Two events let two transactions of the card meet, or one meet a call of another or a change of the user,
at each of its steps. The page opens on a finding at any stage of its life, with one coin owed in part and
the other not asked for, or one owed in whole and the other settled (`OpenPayments`); others pay or ask for one unit at a time (`Unit`). In `bounty_page`, where the page opens with a wallet selected before or with none, three events let a
user select a wallet, leave it for another, disconnect, and a wallet change its accounts between the answers; or submit
between two changes of packages and lists. Some properties of these two runs have excuses that are history variables: data
that came out of date by what others did, or because `invalidateQueries` lets an answer arrive that was read before (`overtaken`; the run's two
events do not get as far as the latter, the proof does), lists that did (`outdated`), links of downloads that end after their user has gone
(`late`), transactions that aborted (`mistaken`), lists fetched between an execution and its timer (`early`), answers of wallets
that had been left (`stray`), accounts taken back by the user (`emptied`), accounts that changed while the effect was not listening (`missed`, until
the effect runs or the wallet answers). Each excuse is as narrow as the code
allows: the run fails without it.

`CHECK_DEADLOCK FALSE` is set everywhere: a system with bounded inputs ends in states where all were used.

### Fairness

None is assumed on chain or in the client: nobody has to make a call. `Worker!FairSpec` asks weak fairness of `WorkerLoop` and of
`ConnectorLoop`: both are loops that their schedulers run when they can go on, and the calls to Walrus and to the node that they
await answer or fail. Nothing is asked of clients, of the network, of the operator or of the listener (`AcceptFails`): connections break and the
enclave restarts at will, up to `MaxConns` connections and `MaxStarts` starts. Nor is anything asked of `RunTask`: the script of a
submission is not to be trusted to end, and nothing ends it. The connector waits for the runner without a timeout (`task.rs:165`),
the worker for the response (`worker.rs:477`), and `runner_killer` fires only when a next task starts. One script that loops
stops the line for everybody.

`EveryTaskSettled` therefore has two hypotheses. `[]<>(loc # "running")`: every script that is run ends. `<>[](loc # "connect")`: in the end
a connection is kept; a task in `Oversized`, or responses too long for a frame, make the connector lose one connection after
the other, and in a run with `MaxConns` of them the connector then stays in `connect`. Without either hypothesis TLC finds a line that
stands still. What is left to the property is the rest: that each single loss or restart is survived, that
a task in the backlog is found again, that every request is answered, and that no failure of one side leaves the other waiting.

### Disagreements found

* **A report opens unpaid** (`finding_unpaid`, `finding.move:378`). `set_payment_v1` on a settled payment
  decrements and increments `payed_count` under the same condition on the old request, so the count
  stays one too high, and `is_paid()` holds with a request open. `PayedCountDrift` says exactly
  how far the count drifts: one for each such call, never the other way.
* **Unlocking does not unlock** (`escrow_unlock`, `escrow.move:250`). The counter goes down, the lock
  stays; then no call releases the escrow any more and `destroy_server` accepts the server.
  `CountDrift` gives the size of the drift.
* **Locked money counts as available** (`client_locks`, `sdk/Escrow.ts:65`). The client reads `is_locked`,
  which is a function and no field of the Move struct.
* **A rejected outcome ends the worker** (`worker_task`, `worker.rs:290`), although the caller is ready
  to lose that task only. A registration that fails ends it in the same way (`worker.rs:377`), although the caller announces
  a test mode for that case.
* **An attested outcome cannot be written** (`worker_attested`, `worker.rs:43` and `:390`), for two reasons, each of which is enough. The enclave
  signs the blob id of other bytes than those the server stores. And `commit` is not given the `Enclave`: of a registration the
  worker keeps the first of the shared objects the transaction used, the `EnclaveConfig` of line 355 (`SharedObject`).
* **Two escrows cannot be merged** (`client_merge`, `createFinding.ts:179`). Every merge is called with the cap of the first escrow, while `merge`
  asserts that the cap is the source's (`escrow.move:206`), so the whole transaction of a user with two escrows aborts, and so does every later one.

The worker's liveness has to excuse two behaviours. A long task blocks the line: a submission of more than 8 MB passes the HTTP side
(`lancer-server/src/main.rs:47`) and no frame; the worker takes the failure for a lost connection (`worker.rs:464`), takes the task back and meets
it again, before all others, on the next connection. The connector does the same over a response that is too long
(`lancer-enclave-connector/src/main.rs:66`), and the task is run again. And a script that does not end stops the line, see Fairness.

The client's modules contain five more behaviours that their properties have to excuse: a transaction that aborts on the chain is taken for
executed, so the card of a finding whose destruction failed disappears (`mistaken`); a removal of payments puts an empty list into the cache 10 ms later, over
what came in between (`RemoveTimer`); the link of a download that ends after a change of the user is shown to the next one
(`late`); an answer of a wallet that was left makes the page connected (`stray`); and a change of account in the wallet, before the effect on
the accounts listens, leaves the old user on the page, where the wallet cannot sign for it (`missed`). The button to pay stays enabled while its transaction
is under way, so two clicks pay twice; nothing in the code promises otherwise.

Besides, `CreateFinding` shows a behaviour no document speaks about: a finding is made and never
submitted when the list of escrows changes at the wrong moment (`ThrownByRace`), when the wait for the transaction
fails or when the page is closed.

## 4. The theorems

They hold for every value of the constants under the assumptions stated with them (`FindingAssumption`,
`EscrowAssumption`, `CreateFindingAssumption`, `WorkerAssumption`, `CardAssumption`, `WalletAssumption`, `BountyAssumption`: finite sets of coins and escrows,
natural bounds, a u64 of at least 2 for the card's opening payments, a `None`, a `Missing` and a `Gone` that are no ordinary values, `NoneIsNoResponse` among them).

* **Finding** (`FindingProofs`): `Typing`, `CountIsNeverShort`, `Conservation`, `PriceIsHonoured`,
  `PaidBeforeRead`, `AccessIsForGood`, `ReportsAreSigned`. The properties are not inductive: that the private report is paid for follows
  only from the exact value of `payed_count` together with what was received per coin, and the price is
  honoured only because `paid` plus what was released is what was received. The invariant is the conjunction of the typing,
  these books, and what holds of ids that are not in use. The cardinality steps (one payment becomes settled, one stops
  being settled) are lemmas of their own, cited by each action. `ReportsSigned` needs `Genuine`: a finding no testing call touched has all
  its reports from one message, or none at all, so that a draft has no private report an error could come along with.
* **Finding implements FindingSale** (`FindingSaleProofs!Refinement`): each call is mapped to the abstract step with its name or
  to a stutter, with the invariant for the debt of a published finding.
* **Escrow** (`EscrowProofs`): `Typing`, `CounterDrifts`, `PledgesAreKept`, `Conservation`, `Draining`. `CountDrift` counts the
  escrows locked with a living server; it needs `FreshIds` (an unused id has no server and no money, a server that
  was not made has no escrows and no unlocking calls), because a counter starts at 0 when its server is made.
* **Escrow implements Custody** (`EscrowCustodyProofs!Refinement`). Servers are the holders: created, deactivated and destroyed they are employed, retired and
  gone, and an escrow stays with the one it was opened with. Unlocking, which leaves the lock, is a `Take` that does not end the hold. That an escrow that
  is not in use has neither a claim nor money comes from the invariant (`PledgeKept`).
* **CreateFinding** (`CreateFindingProofs`): `ServersOwnEscrow`, `ThrowsAreRaces`, `BudgetIsPutThere`. The invariant `CInv` says of the cache
  and of every form's list that each escrow comes once and was opened with the server. The lemma `ContractStays` shows that no call
  of the contract takes that back, so a list stays true to this extent however old it is; the lemma `NothingMerged` turns "each escrow once" into "no
  merge with the first one's cap passes", so a transaction that is executed merges nothing. `Raced` says what is known of a form before it throws; `Priced` that what a form puts in is what its list
  lacks of the budget. The amounts of a list are added with `MapThenSumSet`, whose sum is a natural number by the least
  counterexample; that a list of one escrow sums to its balance is the only value of it the budget needs, because
  `NothingMerged` excludes longer ones. `ClientCallsContract` composes the two modules: the effect of a transaction is stated in one step for a list of
  any length, and with `NothingMerged` and `InitiallyPriced` (a form that begins has a price, so what it puts in is a u64) that step is one call of `Escrow!Next` or
  none. Hence `PromisesUnderClient`: `Custody`, conservation, pledges and the bound on the counter's drift, all of which are proved of the contract alone, hold
  of any number of forms using it.
* **Worker** (`WorkerProofs`): `EveryTaskIsKept`, `IdentityTheorem`, `ResponseTheorem`, `SignerTheorem`, `TypeTheorem`, `RedeliveryTheorem`,
  `WaitingTheorem`, `ServiceTheorem`, all with
  unboundedly many posts, connections and restarts. For `NoTaskLost` the invariant adds the types of the queue and `Holding`: the worker has a task exactly in the
  locations where it is busy, and the backlog is empty there; lemmas about taking one element from the channel and
  putting one into the backlog carry the sequence reasoning. The others rest on invariants in a chain, each proved with the ones before it: `Wired` (connections are
  accepted in the order they were made), `Link` (where the worker has a connection, whose identity it has read, and that the registration on record is that one's or none
  when a task is in hand), `Talk` (the connector's socket is of its own start, and so is the signature of every reply), `Exchange` (the worker's connection carries
  nothing unless it awaits an answer, and then the task is in one place only) and `Processed`. A reply is thus one for the task in hand although no message
  names its task: an abandoned connection is never read again. `Written` says that what the chain has was settled, so a
  second outcome for a task in hand means a second post. `Keyed` follows the key of the submission through the stream, so that a response is signed by the
  enclave its submission was encrypted for, and the registration on record is that enclave's (`EnclaveIsSigner`; which object was kept
  of it is another matter, see Disagreements). `Served` says that a connection the worker waits on is served from the other end: the connector
  is reading, is running the task, has answered, or is gone, whence `NobodyWaitsInVain`: no deadlock between the two is possible, however connections break.
* **Worker implements Service** (`WorkerProofs!ServiceTheorem`). The line of `Service` is the task in hand, the one taken back and the channel. Connections,
  registrations, redelivery, and an enclave's restart are stutters; taking a task back keeps its place; writing an outcome is part of `Finish` or, when the worker
  panics after it, of `Stop`. The steps need the whole chain of invariants: that an outcome is written for the first in the line is `ResponseIsForTask`.
* **FindingCard** (`FindingCardProofs`): `ClientAgreesTheorem`, `HiddenTheorem`, `LinksTheorem`, `OfferedTheorem`, `PaysTheorem`, `OwnChangesTheorem`, `CardBooks`,
  `CardPaidBeforeRead`, `CardReportsSigned`, `CardAccessIsForGood`, `CardKeepsTheSale`, `CardTyping`. `ContractInv` keeps what the agreement needs of the contract: a published finding has a public report and no error message, so
  the client's order of questions gives the contract's answer. `HiddenInv` follows a destruction from its job to the list; `LinksInv` says
  that a link belongs to the user or was late. `SeenInv` types what the client has seen of the payments, in the cache, in answers and in
  transactions; with it the amounts of a transaction of current data are what is owed, which fits into u64.
  `OwnChangesShown` speaks of quiet states only, so its invariant `ShownInv` has to say why every other state leads to one: whatever is shown and
  out of date has an answer on its way that is not, or is to be asked for, or the end of a job will see to it (`Pending`), or the finding is
  gone and that is on its way (`OuterDead`), or it is excused (`overtaken`). The attempt to prove it found the case where
  `invalidateQueries` lets an answer pass that was read before the transaction, because the query has no data yet or is not shown.
  `CardBooks` shows that the card's transactions, whole batches of contract calls in one step, keep `FindingProofs!IInv`; calls of others are steps
  of `Finding!Next`, so `BooksStep` is cited for them. `Exchange` counts the settled coins when several entries are replaced at once. From that invariant the contract's
  promises follow under the card: `CardPaidBeforeRead`; `CardReportsSigned`, with `Genuine` kept by batches because they leave the reports alone (`BatchFrame`); and
  `CardAccessIsForGood`, for which `PaidIsFewOwed` counts the coins that are owed instead of those that are settled: that set only shrinks when a
  published finding is paid or emptied in one transaction (`OwedFalls`). A batch is no single step of `FindingSale`, but `CardKeepsTheSale` proves of every transaction what the
  sale says of life cycle and debt. `CardTyping` adds the client's part:
  what is asked for has no answer under way, and `NewId` is not in use (`NewIdIsNew`, by the pigeonhole principle).
* **WalletController and BugBounty** (`BugBountyProofs`): `ConnectingTheorem`, `UserTheorem`, `ConnectedTheorem`, `DisconnectTheorem`, `ListsTheorem`,
  `ApprovedTheorem`, `PageTyping`. `Typed` (without a wallet there is no call) supports the first four, which are nearly inductive: the work
  is in the orders of answers and events. `ListInv` relates each list to what the
  contract has, the answers on their way and the submissions whose timer is still to come. `UserTheorem` needs `Looked`: a user who is not of the wallet has an event on its way that the
  effect listens to, or is excused. `NamedInv` says that a submission has the cap its list of packages named, so that an approval can only be missed when the list
  was not true any more. `RestInv` types the page, once more with a pigeonhole for the ids.

Only model-checked: `EveryTaskSettled`. Proved and in no run: `NoTaskLost` (`EveryTaskIsKept`), which `Service` says from outside, `DeactivationDrains`
(`Draining`), which `Custody` says of the holder, and the contract's promises under the client and under the card. Liveness under fairness is out of the prover's reach, as is `ENABLED`. Every other property of the passing
runs is proved. Of the sum over a list of any length it is proved that it is a natural number, not which one: induction over data is out of reach
too, and no theorem needs it.

## 5. What is not modelled

* A restart of the server process: all it keeps is in memory, so what was accepted and not settled is gone.
* Overlapping requests for one submission inside the HTTP handler beyond their effect on the channel.
* The runner, its bindings and the scenario library: `Worker` takes them as a process that gives a report, an error
  or nothing.
* Encryption, serialisation, transport (`lancer-transport`): a connection delivers in order or not at all, and a message
  is opened only with the key it was made for.
* `executor.move` and approvals other than the upgrader's, which no program here makes.
* Of the client: the card of a bounty, filters and pages, which print what the queries give; the networks of `stores/config.ts` and their effect on the queries;
  wallets that unregister; leaving the form during a submission (coming back gives a fresh form while the first one's transaction is under way);
  a second download of a report by a user who left and came back; the copy of the form in the URL.
* The command line client and the snapshot explorer, which keep no state.
* The nautilus package, Seal, Walrus, the wallets and the Sui framework, whose sources are not here; their effect is what the calling code relies on.

## 6. What could come next

1. `Scenario`: the stages of a demonstration (`glu/lancer/effect/test_cluster.glu`, `summary.glu`) over the
   test cluster of `lancer-runner` (executed transactions, the changes recorded by stage) and how the runner ends (`main.rs`, `reporting.rs`); an abstract
   "stages in order, each change recorded once in its stage" for it to implement.
2. `Objects`: the walk over owned objects and children and the collection of ids
   (`test_cluster/mod.rs`) as functions on a finite graph, checked against reachability.
3. `UInt`: the unsigned integers of `types/uint.rs` as operators with their widths and failures.
4. A restart of the server in `Worker`, with what the clients then see, and the gas coins of its wallet.
5. The liveness of `Service`, as fairness of `Finish`, for `Worker` under `FairSpec` to implement; a matter for TLC.
