---------------------------- MODULE CreateFinding ----------------------------
(***************************************************************************)
(* How the web client submits a bug: the form routes/finding/new.tsx, the  *)
(* mutation mutations/Finding/createFinding.ts, the list of the user's     *)
(* escrows it takes from the query cache (queries/userEscrows.ts,          *)
(* sdk/Escrow.ts), and the escrow contract (module Escrow) on which its    *)
(* one transaction works.                                                  *)
(*                                                                         *)
(* One user and one browser tab: the forms share the tab's query cache and *)
(* each makes one attempt.  The escrows are the user's.  What the user     *)
(* does to them in another tab or with another program, and what the       *)
(* operators of the servers do, are calls of the contract between the      *)
(* steps of a form.                                                        *)
(***************************************************************************)
EXTENDS Escrow, Sequences, FiniteSetsExt

CONSTANTS
  Forms,        \* attempts to submit a bug
  TheServer,    \* config.runner.server.object
  Budgets,      \* values of the form's field budgetSui
  NoData        \* the query has no data

ASSUME CreateFindingAssumption ==
  /\ TheServer \in Servers
  /\ None \notin Escrows
  /\ Budgets \subseteq Nat

VARIABLES
  escrows,      \* data of the query userEscrows
  stage,        \* where form f is, see Stages
  topupSui,     \* topupSui[f]: the argument, a bigint that may be negative
  listed,       \* listed[f]: the local escrows of mutationFn
  made,         \* made[f]: the escrow of the EscrowCreatedEvent, or None
  finding,      \* finding[f]: f's finding exists on chain
  escrowId,     \* escrowId[f]: the field sent to the server, or None
  budget,       \* history of form f, read by properties only: what was
  seen          \*   entered, and the list the form showed

cvars == <<escrows, stage, topupSui, listed, made, finding, escrowId, budget, seen>>
allVars == <<vars, cvars>>

\* "thrown" is the end of a call that reads an event that is not there, "failed"
\* the end of every other call that throws or is cut off.
Stages == {"open", "clicked", "listed", "executed", "posted", "thrown", "failed"}
Running == {"clicked", "listed", "executed"}

-----------------------------------------------------------------------------
(* The list of escrows *)

\* Struct Escrow has no field is_locked: what is read from it is undefined, which
\* counts as false.
Entry(e) == [id |-> e, balance |-> balance[e], isLocked |-> FALSE]

\* The escrows whose cap the user owns, in the order the node returns the caps.
ListingsOf(S) ==
  {[i \in 1 .. Cardinality(S) |-> Entry(order[i])] :
     order \in {p \in [1 .. Cardinality(S) -> S] : \A i, j \in DOMAIN p : p[i] = p[j] => i = j}}

\* Variant: the filter on the server is dropped.
getOwnedEscrows_of_any_server == ListingsOf(LiveEscrows)

getOwnedEscrows == ListingsOf({e \in LiveEscrows : server_id[e] = TheServer})

\* The query is stale at once: every mount of the page and every focus of the
\* window fetches it again.
Fetch ==
  /\ escrows' \in getOwnedEscrows
  /\ UNCHANGED <<vars, stage, topupSui, listed, made, finding, escrowId, budget, seen>>

-----------------------------------------------------------------------------
(* The form *)

DataOr(data, default) == IF data = NoData THEN default ELSE data

escrowsBalanceTotal(data) ==
  LET list == DataOr(data, <<>>)
  IN  MapThenSumSet(LAMBDA i : list[i].balance, {i \in DOMAIN list : ~list[i].isLocked})

\* The button "Create": what the list says is there is not put in again.
onSubmit(f, b) ==
  /\ stage[f] = "open"
  /\ stage' = [stage EXCEPT ![f] = "clicked"]
  /\ topupSui' = [topupSui EXCEPT ![f] = b - escrowsBalanceTotal(escrows)]
  /\ budget' = [budget EXCEPT ![f] = b]
  /\ seen' = [seen EXCEPT ![f] = DataOr(escrows, <<>>)]
  /\ UNCHANGED <<vars, escrows, listed, made, finding, escrowId>>

\* The page is closed or reloaded: the cache is gone, and so are the calls under way.
Reload ==
  /\ escrows' = NoData
  /\ stage' = [f \in Forms |-> IF stage[f] \in Running THEN "failed" ELSE stage[f]]
  /\ UNCHANGED <<vars, topupSui, listed, made, finding, escrowId, budget, seen>>

-----------------------------------------------------------------------------
(* mutationFn *)

\* A call of mutationFn throws: a query, the wallet, the node or the server fails.
Fail(f) ==
  /\ stage[f] \in Running
  /\ stage' = [stage EXCEPT ![f] = "failed"]
  /\ UNCHANGED <<vars, escrows, topupSui, listed, made, finding, escrowId, budget, seen>>

\* ensureQueryData takes what is cached, however old, and fetches when nothing is.
ensureQueryData(f) ==
  /\ stage[f] = "clicked"
  /\ stage' = [stage EXCEPT ![f] = "listed"]
  /\ IF escrows = NoData THEN escrows' \in getOwnedEscrows ELSE UNCHANGED escrows
  /\ listed' = [listed EXCEPT ![f] = escrows']
  /\ UNCHANGED <<vars, topupSui, made, finding, escrowId, budget, seen>>

Ids(list) == {list[i].id : i \in DOMAIN list}
Sources(list) == {list[i].id : i \in DOMAIN list \ {1}}

\* The cap every merge of the transaction is called with.
ownerCap(list) == list[1].id

\* deposit_coin into the first escrow of the list, of nothing when there is no
\* topup, and then merge of every other one into it.
DepositAndMerge(list, n) ==
  LET target == list[1].id
      sources == Sources(list)
      added == n + MapThenSumSet(LAMBDA e : balance[e], sources)
  IN  /\ \A e \in sources : assert_owner_cap(e, ownerCap(list)) /\ is_unlocked(e)
      /\ balance[target] + added <= MAX_U64
      /\ deposited[target] + added <= MaxDeposited
      /\ escrow' = [e \in Escrows |-> IF e \in sources THEN "deleted" ELSE escrow[e]]
      /\ balance' = [e \in Escrows |-> IF e \in sources THEN 0
                                       ELSE IF e = target THEN balance[e] + added
                                       ELSE balance[e]]
      /\ deposited' = [deposited EXCEPT ![target] = @ + added]
      /\ withdrawn' = [e \in Escrows |-> IF e \in sources THEN withdrawn[e] + balance[e]
                                         ELSE withdrawn[e]]
      /\ UNCHANGED <<serverVars, server_id, locked_for_finding, taken, pledge, unlocks>>

\* Variant: an amount of 1 is not put in.
Topup_above_one(f) == IF topupSui[f] > 1 THEN topupSui[f] ELSE 0

\* Money is put in only when topupSui is positive.
Topup(f) == IF topupSui[f] > 0 THEN topupSui[f] ELSE 0

\* What the transaction does to the escrows; e is the escrow it makes, or None.
\* All that are listed are inputs of the transaction, so all must exist, and a topup
\* that is no u64 cannot be written into it.
EscrowCalls(f, e) ==
  /\ Ids(listed[f]) \subseteq LiveEscrows
  /\ \/ listed[f] # <<>> /\ e = None /\ DepositAndMerge(listed[f], Topup(f))
     \/ /\ listed[f] = <<>> /\ Topup(f) > 0 /\ e # None
        /\ Topup(f) \in Amounts \cap (0 .. MAX_U64)
        /\ create(TheServer, e, Topup(f))
     \/ listed[f] = <<>> /\ Topup(f) = 0 /\ e = None /\ UNCHANGED vars

\* The transaction, which also creates and shares the finding.  When the wait for
\* it fails, the call throws although the transaction was executed.
execTx(f, e) ==
  /\ stage[f] = "listed"
  /\ EscrowCalls(f, e)
  /\ made' = [made EXCEPT ![f] = e]
  /\ finding' = [finding EXCEPT ![f] = TRUE]
  /\ \E next \in {"executed", "failed"} : stage' = [stage EXCEPT ![f] = next]
  /\ UNCHANGED <<escrows, topupSui, listed, escrowId, budget, seen>>

\* Variant: the escrow is always taken from the event.
Named_in_event(f) == made[f]

\* The escrow whose id is sent: the first of the list, or the one in the event.
Named(f) == IF listed[f] # <<>> THEN listed[f][1].id ELSE made[f]

\* The form data get the id of the escrow and go to the server.  When there is no
\* event to read it from, the call throws.
post(f) ==
  /\ stage[f] = "executed"
  /\ stage' = [stage EXCEPT ![f] = IF Named(f) = None THEN "thrown" ELSE "posted"]
  /\ escrowId' = [escrowId EXCEPT ![f] = Named(f)]
  /\ UNCHANGED <<vars, escrows, topupSui, listed, made, finding, budget, seen>>

-----------------------------------------------------------------------------

ClientInit ==
  /\ Init
  /\ escrows = NoData
  /\ stage = [f \in Forms |-> "open"]
  /\ topupSui = [f \in Forms |-> 0]
  /\ listed = [f \in Forms |-> <<>>]
  /\ made = [f \in Forms |-> None]
  /\ finding = [f \in Forms |-> FALSE]
  /\ escrowId = [f \in Forms |-> None]
  /\ budget = [f \in Forms |-> 0]
  /\ seen = [f \in Forms |-> <<>>]

FormStep(f) ==
  \/ \E b \in Budgets : onSubmit(f, b)
  \/ ensureQueryData(f)
  \/ \E e \in Escrows \cup {None} : execTx(f, e)
  \/ post(f)
  \/ Fail(f)

ClientNext ==
  \/ Fetch
  \/ Reload
  \/ \E f \in Forms : FormStep(f)
  \/ Next /\ UNCHANGED cvars

ClientSpec == ClientInit /\ [][ClientNext]_allVars

-----------------------------------------------------------------------------
(* Properties *)

\* The server is told of an escrow that was opened with this server and that the
\* submission's own transaction touched or made, however old the list was: the
\* transaction keeps it alive up to then, although the owner may destroy it later.
EscrowIsWithServer ==
  \A f \in Forms : escrowId[f] # None =>
    /\ finding[f]
    /\ server_id[escrowId[f]] = TheServer
    /\ escrow[escrowId[f]] # "unused"

\* The escrow that is named holds the budget that was entered when the finding is
\* made, unless the list changed after the form was sent off or money left the
\* escrow after the list was fetched.
BudgetIsThere ==
  [][\A f \in Forms :
       (/\ finding'[f] /\ ~finding[f]
        /\ listed[f] = seen[f]
        /\ \A i \in DOMAIN listed[f] : balance[listed[f][i].id] >= listed[f][i].balance
        /\ budget[f] > 0)
       => Named(f)' # None /\ balance'[Named(f)'] >= budget[f]]_allVars

\* A submission that made its finding and then found no escrow to name had no
\* budget, or its list lost an escrow between the form and the transaction: what
\* the form saw made a topup needless, and what the transaction saw needed one.
ThrownByRace ==
  \A f \in Forms : stage[f] = "thrown" =>
    /\ finding[f]
    /\ budget[f] > 0 => seen[f] # <<>> /\ listed[f] = <<>>

\* Every merge of a transaction is called with the cap of the escrow it takes, as
\* assert!(self.owner_cap_id == object::id(owner_cap), 0x0) demands at
\* src/sui/dominion_lancer_runner/sources/escrow.move:206, when all that is listed
\* is there to be merged.
MergesPassAssertion ==
  \A f \in Forms : stage[f] = "listed" /\ Ids(listed[f]) \subseteq LiveEscrows =>
    \A e \in Sources(listed[f]) : assert_owner_cap(e, ownerCap(listed[f]))

\* A list that was fetched says which of its escrows are locked: the field
\* is_locked that src/ts/dominion-lancer-app/src/sdk/Escrow.ts:57 declares, which
\* src/ts/dominion-lancer-app/src/routes/finding/new.tsx:76 leaves locked money out by.
ListShowsLocks ==
  [][escrows' \notin {escrows, NoData} =>
       \A i \in DOMAIN escrows' : escrows'[i].isLocked = is_locked(escrows'[i].id)]_allVars
=============================================================================
