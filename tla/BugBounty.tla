----------------------------- MODULE BugBounty -----------------------------
(***************************************************************************)
(* The pages of the bug bounties, composed with the wallet controller and  *)
(* the contract: the form (routes/bug-bounty/new.tsx), the mutation behind *)
(* it (mutations/BugBounty/createBugBounty.ts), the cached lists           *)
(* (queries/bugBountyIds.ts, userPackages.ts) and bug_bounty.move with     *)
(* upgrader_approve.move.                                                  *)
(*                                                                         *)
(* The form takes the upgrade cap of the package from a cached list, and   *)
(* makes the bounty and approves it in one transaction, or only makes it   *)
(* when the list has no cap.  Lists of bounties are patched by hand 10 ms  *)
(* after a success, while they may also be fetched.                        *)
(*                                                                         *)
(* One network.  A bounty is active from the start and nothing changes     *)
(* that; the approval of the upgrader is the only one there is.            *)
(***************************************************************************)
EXTENDS WalletController

CONSTANTS
  Bounties,   \* ids of bug bounties
  Packages,   \* ids of published packages, every version its own
  Caps,       \* upgrade caps
  Free,       \* a bounty that is not there yet
  Missing     \* a query without data

ASSUME BountyAssumption ==
  /\ Missing # Free
  /\ None \notin Caps
  /\ \A S \in SUBSET [packageId : Packages, upgradeCapId : Caps] : S # Missing
  /\ Free \notin [package : Packages, owner : Accounts, approved : BOOLEAN]

VARIABLES
  bounty,     \* bounty[b]: Free, or its package, the holder of its owner cap, its approval
  cap,        \* cap[c]: the upgrade cap's package and holder
  lists,      \* lists[k]: how often each bounty is in the cached list k
  reads,      \* reads[k]: what the node answered for list k, on its way
  packages,   \* packages[u]: the cached upgrade caps of u
  jobs,       \* submissions under way
  made,       \* history: bounties of this page that its lists know of
  outdated,   \* history: lists out of date when they came, or by a cap given away since
  early       \* history: lists that had a bounty from the node before the timer

contract == <<bounty, cap>>
cached == <<lists, reads, packages>>
history == <<made, outdated, early>>
bountyVars == <<contract, cached, jobs, history>>
allVars == <<walletVars, bountyVars>>

\* None is the list of all bounties, an account the list of its own.
Keys == Accounts \cup {None}

Live == {b \in Bounties : bounty[b] # Free}

-----------------------------------------------------------------------------
(* The contract *)

create_v1(b, package, owner, approved) ==
  /\ bounty[b] = Free
  /\ bounty' = [bounty EXCEPT ![b] = [package |-> package, owner |-> owner, approved |-> approved]]

\* upgrader_approve::approve of package p with upgrade cap c, by account u.
MayApprove(p, c, u) == cap[c].package = p /\ cap[c].holder = u

\* The holder of both caps approves a bounty later.
approve(b, c) ==
  /\ b \in Live
  /\ MayApprove(bounty[b].package, c, bounty[b].owner)
  /\ ~bounty[b].approved
  /\ bounty' = [bounty EXCEPT ![b].approved = TRUE]
  /\ UNCHANGED cap

\* Caps change hands, and an upgrade moves a cap on to the new package.
Give(b, u) == b \in Live /\ bounty' = [bounty EXCEPT ![b].owner = u] /\ UNCHANGED cap

MoveCap(c, p, u) ==
  /\ \A d \in Caps \ {c} : cap[d].package # p
  /\ cap' = [cap EXCEPT ![c] = [package |-> p, holder |-> u]]
  /\ UNCHANGED bounty

\* Other tabs and other accounts.  No list hears of an owner cap that is given
\* away.
Others ==
  /\ Event
  /\ \/ /\ \/ \E b \in Bounties, p \in Packages, u \in Accounts :
                create_v1(b, p, u, FALSE) /\ UNCHANGED cap
           \/ \E b \in Bounties, c \in Caps : approve(b, c)
           \/ \E c \in Caps, p \in Packages, u \in Accounts : MoveCap(c, p, u)
        /\ UNCHANGED outdated
     \/ \E b \in Bounties, u \in Accounts :
          Give(b, u) /\ outdated' = outdated \cup {bounty[b].owner, u}
  /\ UNCHANGED <<session, cached, jobs, made, early>>

-----------------------------------------------------------------------------
(* The cached lists *)

getAllBugBountyIds == Live
getUserBugBountyIds(u) == {b \in Live : bounty[b].owner = u}

Ids(k) == IF k = None THEN getAllBugBountyIds ELSE getUserBugBountyIds(k)

Without(f, k) == [j \in DOMAIN f \ {k} |-> f[j]]

\* A page that shows list k asks for it.
FetchIds(k) ==
  /\ Event
  /\ k \notin DOMAIN reads
  /\ reads' = [j \in DOMAIN reads \cup {k} |-> IF j = k THEN Ids(k) ELSE reads[j]]
  /\ UNCHANGED <<session, contract, lists, packages, jobs, history>>

\* Bounties that the chain has and the lists do not know of yet.
Unlisted == {job.bounty : job \in {j \in jobs : j.stage \in {"executed", "timer"}}}

\* The answer takes the place of whatever the list has come to be.
LandIds(k) ==
  /\ k \in DOMAIN reads
  /\ lists' = [lists EXCEPT ![k] = [b \in Bounties |-> IF b \in reads[k] THEN 1 ELSE 0]]
  /\ reads' = Without(reads, k)
  /\ outdated' = IF reads[k] = Ids(k) THEN outdated \ {k} ELSE outdated \cup {k}
  /\ early' = {e \in early : e[1] # k} \cup {<<k, b>> : b \in reads[k] \cap Unlisted}
  /\ UNCHANGED <<walletVars, contract, packages, jobs, made>>

\* The request failed for good.
FetchFails(k) ==
  /\ k \in DOMAIN reads
  /\ reads' = Without(reads, k)
  /\ UNCHANGED <<walletVars, contract, lists, packages, jobs, history>>

\* The upgrade caps that account u holds.
UpgradeCaps(u) == {[packageId |-> cap[c].package, upgradeCapId |-> c] : c \in {d \in Caps : cap[d].holder = u}}

\* The form and its combo box ask for the packages of the user.
FetchPackages ==
  /\ Event
  /\ user # None
  /\ packages[user] # UpgradeCaps(user)
  /\ packages' = [packages EXCEPT ![user] = UpgradeCaps(user)]
  /\ UNCHANGED <<session, contract, lists, reads, jobs, history>>

-----------------------------------------------------------------------------
(* The form *)

\* Variant: the form is free again once the wallet has signed.
isSubmitting_built == \E job \in jobs : job.stage = "built"

\* The form submits once at a time.
isSubmitting == \E job \in jobs : job.stage # "timer"

CreateOffered == user # None /\ status = "connected" /\ ~isSubmitting

\* Variant: the upgrade cap is forgotten.
upgradeCapIds_none(p, seen) == {None}

\* The cap that the cached packages name for package p, if any.
upgradeCapIds(p, seen) ==
  LET found == IF seen = Missing THEN {} ELSE {e \in seen : e.packageId = p}
  IN  IF found = {} THEN {None} ELSE {e.upgradeCapId : e \in found}

NewId == CHOOSE id \in 1 .. Cardinality(jobs) + 1 : \A j \in jobs : j.id # id

\* The button: any package can be typed in, whoever has its cap.
onSubmit(p) ==
  /\ CreateOffered
  /\ Event
  /\ \E c \in upgradeCapIds(p, packages[user]) :
       jobs' = jobs \cup {[id |-> NewId, by |-> user, wallet |-> wallet, package |-> p, cap |-> c,
                           seen |-> packages[user], bounty |-> None, stage |-> "built"]}
  /\ UNCHANGED <<session, contract, cached, history>>

-----------------------------------------------------------------------------
(* The transaction *)

Step(job, new) == jobs' = (jobs \ {job}) \cup {new}
Done(job) == jobs' = jobs \ {job}

\* create_v1, approve with the cap, transfer of the owner cap and share: one
\* transaction, which aborts as a whole.
Executes(job) == job.cap # None => MayApprove(job.package, job.cap, job.by)

\* The wallet signs for an account it still has, after a dry run.
Sign(job) ==
  /\ job.stage = "built"
  /\ job.by \in granted[job.wallet]
  /\ Executes(job)
  /\ Step(job, [job EXCEPT !.stage = "signed"])
  /\ UNCHANGED <<walletVars, contract, cached, history>>

\* The user declines, the dry run fails, or the wallet does not have the account.
Decline(job) ==
  /\ job.stage = "built"
  /\ Done(job)
  /\ UNCHANGED <<walletVars, contract, cached, history>>

\* The bounty is approved when the transaction has a cap.
Execute(job) ==
  /\ job.stage = "signed"
  /\ Executes(job)
  /\ \E b \in Bounties : /\ create_v1(b, job.package, job.by, job.cap # None)
                         /\ Step(job, [job EXCEPT !.stage = "executed", !.bounty = b])
  /\ UNCHANGED <<walletVars, cap, cached, history>>

\* The cap has moved since the dry run.  execTx takes an aborted transaction
\* for executed, but there is no event to be found in it.
Abort(job) ==
  /\ job.stage = "signed"
  /\ ~Executes(job)
  /\ Done(job)
  /\ UNCHANGED <<walletVars, contract, cached, history>>

\* The bounty is there and the page does not hear of it.
WaitFails(job) ==
  /\ job.stage = "executed"
  /\ Done(job)
  /\ UNCHANGED <<walletVars, contract, cached, history>>

\* The lists with bounty b, of account u, at their end.
Appended(b, u) ==
  [k \in Keys |-> IF k \in {None, u} /\ lists[k] # Missing
                  THEN [lists[k] EXCEPT ![b] = @ + 1] ELSE lists[k]]

onSuccess(job) ==
  /\ job.stage = "executed"
  /\ Step(job, [job EXCEPT !.stage = "timer"])
  /\ UNCHANGED <<walletVars, contract, cached, history>>

\* Variant: the list of the user of the moment is patched.
Timer_user(job) ==
  /\ job.stage = "timer"
  /\ lists' = Appended(job.bounty, user)
  /\ made' = made \cup {[bounty |-> job.bounty, by |-> job.by]}
  /\ Done(job)
  /\ UNCHANGED <<walletVars, contract, reads, packages, outdated, early>>

\* 10 ms later the lists that are cached get the bounty.
Timer(job) ==
  /\ job.stage = "timer"
  /\ lists' = Appended(job.bounty, job.by)
  /\ made' = made \cup {[bounty |-> job.bounty, by |-> job.by]}
  /\ Done(job)
  /\ UNCHANGED <<walletVars, contract, reads, packages, outdated, early>>

-----------------------------------------------------------------------------
\* Nothing of this is kept over a reload.  A transaction that has been signed
\* may still be executed: it is then a call of others.
Reloaded ==
  /\ Reload
  /\ lists' = [k \in Keys |-> Missing]
  /\ reads' = <<>>
  /\ packages' = [u \in Accounts |-> Missing]
  /\ jobs' = {} /\ made' = {} /\ outdated' = {} /\ early' = {}
  /\ UNCHANGED contract

PageInit ==
  /\ WalletInit
  /\ bounty = [b \in Bounties |-> Free]
  /\ cap \in [Caps -> [package : Packages, holder : Accounts]]
  /\ \A c, d \in Caps : c # d => cap[c].package # cap[d].package
  /\ lists = [k \in Keys |-> Missing]
  /\ reads = <<>>
  /\ packages = [u \in Accounts |-> Missing]
  /\ jobs = {} /\ made = {} /\ outdated = {} /\ early = {}

JobSteps(job) ==
  \/ Sign(job) \/ Decline(job) \/ Execute(job) \/ Abort(job) \/ WaitFails(job)
  \/ onSuccess(job) \/ Timer(job)

PageNext ==
  \/ Session /\ UNCHANGED bountyVars
  \/ Reloaded
  \/ Others
  \/ \E k \in Keys : FetchIds(k) \/ LandIds(k) \/ FetchFails(k)
  \/ FetchPackages
  \/ \E p \in Packages : onSubmit(p)
  \/ \E job \in jobs : JobSteps(job)

PageSpec == PageInit /\ [][PageNext]_allVars

-----------------------------------------------------------------------------
(* Properties *)

Entry == [packageId : Packages, upgradeCapId : Caps]

Job == [id : Nat, by : Accounts, wallet : Wallets, package : Packages, cap : Caps \cup {None},
        seen : {Missing} \cup SUBSET Entry, bounty : Bounties \cup {None},
        stage : {"built", "signed", "executed", "timer"}]

\* The state stays well typed; one submission is under way at a time, and the
\* lists wait only for bounties that are there.
PageTypeOK ==
  /\ WalletTypeOK
  /\ \A b \in Bounties : bounty[b] = Free \/
       bounty[b] \in [package : Packages, owner : Accounts, approved : BOOLEAN]
  /\ cap \in [Caps -> [package : Packages, holder : Accounts]]
  /\ DOMAIN lists = Keys /\ \A k \in Keys : lists[k] = Missing \/ lists[k] \in [Bounties -> Nat]
  /\ DOMAIN reads \subseteq Keys /\ \A k \in DOMAIN reads : reads[k] \subseteq Live
  /\ DOMAIN packages = Accounts
  /\ \A u \in Accounts : packages[u] = Missing \/ packages[u] \subseteq Entry
  /\ jobs \subseteq Job
  /\ Cardinality({j \in jobs : j.stage # "timer"}) <= 1
  /\ Unlisted \subseteq Live

\* A bounty that is submitted with a list of packages that is still true when
\* the transaction is executed is approved exactly if its owner holds the
\* upgrade cap of the package.
ApprovedIfHeld ==
  [][\A job \in jobs : Execute(job) /\ job.seen = UpgradeCaps(job.by) =>
       \E b \in Bounties : /\ bounty[b] = Free
                           /\ bounty'[b].owner = job.by
                           /\ bounty'[b].approved <=>
                                \E c \in Caps : MayApprove(job.package, c, job.by)]_allVars

\* A bounty that this page made is in its lists, in that of all and in that of
\* the account it was made for, whoever is the user by then -- unless the last
\* answer the list got was out of date, or owner caps have changed hands since.
CreatedIsListed ==
  \A m \in made : \A k \in {None, m.by} :
    lists[k] # Missing /\ k \notin outdated /\ (k = None \/ bounty[m.bounty].owner = k) =>
      lists[k][m.bounty] > 0

\* No list has a bounty twice, but for one: fetched when the bounty was there
\* already and not yet appended.
ListedOnce ==
  \A k \in Keys : \A b \in Bounties :
    lists[k] # Missing /\ lists[k][b] > 1 => <<k, b>> \in early

\* A success, its timer, fetches and changes of the user in any order leave the
\* lists with every bounty of this page, once.
ListsAreRight == CreatedIsListed /\ ListedOnce
=============================================================================
