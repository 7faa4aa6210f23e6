------------------------ MODULE FindingCardProofs ------------------------
(***************************************************************************)
(* What the card promises whatever the number of coins, users, clicks and  *)
(* calls of others: the client's copy of the contract's rules agrees with  *)
(* the contract, what is offered succeeds, a payment is exact, what the    *)
(* user changed is shown in the end, a finding is not hidden while it is   *)
(* there, and a report that was decrypted for one user is not shown to the *)
(* next.  What the contract promises of books, price, reports, access and  *)
(* life cycle holds under the card's transactions, several calls at once.  *)
(***************************************************************************)
EXTENDS FindingCard, FindingSaleProofs

FieldNames == {"bug_bounty_id", "submission_hash", "payments", "payed_count",
               "public_report_blob", "private_report_blob", "error_message_blob",
               "is_published"}

\* A finding has no error message besides a public report, and a published one
\* has a public report.
PublishedInv ==
  /\ inner[Shown].error_message_blob = None \/ inner[Shown].public_report_blob = None
  /\ inner[Shown].is_published =>
       inner[Shown].error_message_blob = None /\ inner[Shown].public_report_blob # None

\* The strengthening: the record keeps its fields, so that a change of one
\* leaves the others alone.
ContractInv ==
  /\ DOMAIN inner = Findings
  /\ DOMAIN inner[Shown] = FieldNames
  /\ PublishedInv

-----------------------------------------------------------------------------
(* The contract's part *)

LEMMA InitContract == CardInit => ContractInv
PROOF
  <1>. SUFFICES ASSUME CardInit PROVE ContractInv
    OBVIOUS
  <1>1. PICK b \in Bounties, h \in Hashes, w \in Blobs, payments \in OpenPayments :
          \E stage \in {"Draft", "Committed", "Published", "Error"} :
            OpenedWith(b, h, w, payments, stage)
    BY DEF CardInit
  <1>2. PICK stage : OpenedWith(b, h, w, payments, stage)
    BY <1>1
  <1>3. inner[Shown] = Opened(b, h, w, payments, stage)
    BY <1>2, CardAssumption DEF OpenedWith
  <1>4. DOMAIN inner[Shown] = FieldNames
    BY <1>3 DEF Opened, FieldNames
  <1>5. PublishedInv
    <2>1. /\ inner[Shown].is_published = (stage = "Published")
          /\ inner[Shown].error_message_blob = IF stage = "Error" THEN w ELSE None
          /\ inner[Shown].public_report_blob =
               IF stage \in {"Committed", "Published"} THEN w ELSE None
      BY <1>3 DEF Opened
    <2>2. w # None
      BY FindingAssumption
    <2>. QED BY <2>1, <2>2 DEF PublishedInv
  <1>. QED BY <1>2, <1>4, <1>5 DEF ContractInv, OpenedWith

LEMMA StutterContract == ContractInv /\ UNCHANGED inner => ContractInv'
PROOF BY DEF ContractInv, PublishedInv

\* A call that touches the payments and their count only.
LEMMA PaymentsContract ==
  ASSUME ContractInv, NEW p, NEW n,
         inner' = [inner EXCEPT ![Shown].payments = p, ![Shown].payed_count = n]
  PROVE  ContractInv'
PROOF BY CardAssumption DEF ContractInv, PublishedInv, FieldNames

LEMMA CommitContract ==
  ASSUME ContractInv, NEW public, NEW private, commit(Shown, public, private)
  PROVE  ContractInv'
PROOF BY CardAssumption
      DEF ContractInv, PublishedInv, FieldNames, commit, FillReports, is_draft, status_v1

LEMMA ErrorContract ==
  ASSUME ContractInv, NEW error, report_error(Shown, error)
  PROVE  ContractInv'
PROOF BY CardAssumption
      DEF ContractInv, PublishedInv, FieldNames, report_error, is_draft, status_v1

LEMMA PublishContract ==
  ASSUME ContractInv, publish(Shown, Shown)
  PROVE  ContractInv'
PROOF BY CardAssumption
      DEF ContractInv, PublishedInv, FieldNames, publish, is_committed, status_v1

LEMMA DestroyContract ==
  ASSUME ContractInv, inner' = [inner EXCEPT ![Shown] = NoFinding]
  PROVE  ContractInv'
PROOF BY CardAssumption DEF ContractInv, PublishedInv, FieldNames, NoFinding

LEMMA SetPaymentContract ==
  ASSUME ContractInv, NEW c \in Coins, set_payment_v1(Shown, Shown, c, 0)
  PROVE  ContractInv'
PROOF
  <1>1. PICK p : inner' = [inner EXCEPT ![Shown].payments[c] = p]
    BY DEF set_payment_v1
  <1>. QED BY <1>1, CardAssumption DEF ContractInv, PublishedInv, FieldNames

LEMMA RecountContract ==
  ASSUME ContractInv, NEW c \in Coins, NEW p, Recount(Shown, c, p)
  PROVE  ContractInv'
PROOF BY CardAssumption DEF ContractInv, PublishedInv, FieldNames, Recount

LEMMA OthersContract == ASSUME ContractInv, OthersCall PROVE ContractInv'
PROOF
  <1>1. ASSUME NEW c \in Coins, pay(Shown, c, Unit) PROVE ContractInv'
    BY <1>1, RecountContract DEF pay
  <1>2. ASSUME NEW c \in Coins, add_payment(Shown, Shown, c, Unit) PROVE ContractInv'
    BY <1>2, RecountContract DEF add_payment
  <1>3. ASSUME NEW c \in Coins, withdraw(Shown, Shown, c) PROVE ContractInv'
    BY <1>3, RecountContract DEF withdraw
  <1>4. ASSUME NEW c \in Coins, set_payment_v1(Shown, Shown, c, 0) PROVE ContractInv'
    BY <1>4, SetPaymentContract
  <1>5. ASSUME destroy_v1(Shown, Shown) PROVE ContractInv'
    BY <1>5, DestroyContract DEF destroy_v1
  <1>. QED BY <1>1, <1>2, <1>3, <1>4, <1>5, PublishContract, CommitContract, ErrorContract
           DEF OthersCall

LEMMA ReplaceContract == ASSUME ContractInv, NEW new, Replace(new) PROVE ContractInv'
PROOF
  <1>1. PICK p, n : inner' = [inner EXCEPT ![Shown].payments = p, ![Shown].payed_count = n]
    BY Zenon DEF Replace
  <1>. QED BY <1>1, PaymentsContract

LEMMA ClearsContract ==
  ASSUME ContractInv, NEW C, NEW destroys, Clears(C, destroys)
  PROVE  ContractInv'
PROOF
  <1>1. CASE destroys BY <1>1, DestroyContract DEF Clears
  <1>2. CASE ~destroys
    <2>1. PICK p : inner' = [inner EXCEPT ![Shown].payments = p]
      BY <1>2, Zenon DEF Clears
    <2>. QED BY <2>1, CardAssumption DEF ContractInv, PublishedInv, FieldNames
  <1>. QED BY <1>1, <1>2

LEMMA EffectContract ==
  ASSUME ContractInv, NEW kind, NEW seen, Effect(kind, seen)
  PROVE  ContractInv'
PROOF
  <1>1. CASE Pays(seen) BY <1>1, ReplaceContract DEF Pays
  <1>2. CASE Withdraws(Touched(kind, seen)) BY <1>2, ReplaceContract DEF Withdraws
  <1>3. CASE Clears(DOMAIN seen, kind = "destroy") BY <1>3, ClearsContract
  <1>4. CASE publish(Shown, Shown) BY <1>4, PublishContract
  <1>. QED BY <1>1, <1>2, <1>3, <1>4 DEF Effect

-----------------------------------------------------------------------------
(* A finding leaves the lists, and a report's link is set or dropped *)

Ending(job) == job.kind = "destroy" /\ job.stage \in {"executed", "timer"}

\* The finding is gone, or its destruction was taken for executed.
Excused == object[Shown] # "live" \/ "destroy" \in mistaken

\* A destruction that waits for its end has been executed, or the chain has
\* aborted it and it was taken for executed.
HiddenInv ==
  /\ DOMAIN object = Findings
  /\ \A job \in jobs : DOMAIN job = {"id", "kind", "seen", "stage"}
  /\ \A job \in jobs : Ending(job) => Excused
  /\ ~listed => Excused

\* What is gone stays gone.
Goes == object'[Shown] = "live" => object[Shown] = "live"

Remembers == mistaken \subseteq mistaken'

LEMMA LiveShown == Shown \in Live <=> object[Shown] = "live"
PROOF BY CardAssumption DEF Live

LEMMA OthersGo == ASSUME OthersCall PROVE Goes
PROOF
  <1>1. CASE destroy_v1(Shown, Shown)
    BY <1>1, LiveShown DEF destroy_v1, assert_owner_cap, Goes
  <1>2. CASE UNCHANGED object BY <1>2 DEF Goes
  <1>. QED BY <1>1, <1>2 DEF OthersCall, pay, add_payment, withdraw, set_payment_v1, publish,
                             commit, report_error

LEMMA EffectGoes ==
  ASSUME NEW kind, NEW seen, Executes(kind, seen), Effect(kind, seen),
         DOMAIN object = Findings
  PROVE  Goes /\ (kind = "destroy" => object'[Shown] # "live")
PROOF
  <1>. USE CardAssumption
  <1>1. CASE kind = "destroy"
    <2>1. object' = [object EXCEPT ![Shown] = "deleted"]
      BY <1>1 DEF Effect, Clears
    <2>. QED BY <2>1 DEF Goes
  <1>2. CASE kind # "destroy"
    <2>1. UNCHANGED object
      BY <1>2 DEF Effect, Pays, Withdraws, Clears, publish
    <2>. QED BY <1>2, <2>1 DEF Goes
  <1>. QED BY <1>1, <1>2

LEMMA NextContract == ASSUME ContractInv, [CardNext]_allVars PROVE ContractInv'
PROOF
  <1>1. CASE UNCHANGED inner BY <1>1, StutterContract
  <1>2. ASSUME NEW job \in jobs, Execute(job) PROVE ContractInv'
    BY <1>2, EffectContract DEF Execute
  <1>3. CASE Others BY <1>3, OthersContract DEF Others
  <1>4. ASSUME CardNext PROVE UNCHANGED inner \/ Others \/ \E job \in jobs : Execute(job)
    <2>1. ASSUME NEW job \in jobs, JobSteps(job) PROVE UNCHANGED inner \/ Execute(job)
      BY <2>1 DEF JobSteps, Sign, Decline, Abort, WaitFails, Settle, RemoveTimer,
                  DestroyTimer, vars
    <2>2. ASSUME NEW S \in Arrived, Land(S) \/ FetchFails(S) PROVE UNCHANGED inner
      BY <2>2 DEF Land, FetchFails, vars
    <2>3. ASSUME NEW d \in downloads, Decrypted(d) \/ DownloadFails(d) PROVE UNCHANGED inner
      BY <2>3 DEF Decrypted, DownloadFails, vars
    <2>4. ASSUME NEW kind, Start(kind) PROVE UNCHANGED inner
      BY <2>4 DEF Start, vars
    <2>5. ASSUME NEW k \in Fields, handleDownload(k) PROVE UNCHANGED inner
      BY <2>5 DEF handleDownload, vars
    <2>6. ASSUME flushRequestQueue \/ getDynamicFields \/ Focus \/ FetchIds \/ SessionChanges
          PROVE  UNCHANGED inner
      BY <2>6 DEF flushRequestQueue, getDynamicFields, Reading, Focus, FetchIds,
                  SessionChanges, vars
    <2>. QED BY <1>4, <2>1, <2>2, <2>3, <2>4, <2>5, <2>6
             DEF CardNext, handleRemovePayment, handlePay, handlePublish, handleDestroy,
                 handleWithdraw
  <1>5. CASE UNCHANGED allVars BY <1>5, StutterContract DEF allVars, vars
  <1>. QED BY <1>1, <1>2, <1>3, <1>4, <1>5

-----------------------------------------------------------------------------
\* On current data the client's status, isPaid and readable functions decide as
\* the contract does (sdk/Finding.ts and finding.move).
LEMMA AgreeHere == ContractInv => ClientAgrees
PROOF
  <1>. SUFFICES ASSUME ContractInv, Current PROVE ClientAgrees
    BY DEF ClientAgrees
  <1>1. /\ cache["outer"] = Read("outer") /\ cache["inner"] = Read("inner")
        /\ cache["cap"] = Read("cap") /\ cache["fields"] = Read("fields")
        /\ cache["bounty"] = Read("bounty")
        /\ Given(cache["inner"])
    BY DEF Current, Visible, Loaded, LoadedIn, Enabled, EnabledIn, Entries
  <1>2. Shown \in Live
    BY <1>1, CardAssumption DEF Read, Given
  <1>3. /\ cache["inner"] = [inner[Shown] EXCEPT !.payments = NoPayments]
        /\ cache["cap"] = Finder /\ cache["bounty"] = Sponsor
        /\ cache["fields"] = Contained(Shown)
    BY <1>1, <1>2, CardAssumption DEF Read
  <1>4. /\ finding.fields = cache["inner"] /\ finding.owner = Finder
        /\ DOMAIN finding.payments = Contained(Shown)
    BY <1>3 DEF finding
  <1>5. /\ finding.fields.error_message_blob = inner[Shown].error_message_blob
        /\ finding.fields.public_report_blob = inner[Shown].public_report_blob
        /\ finding.fields.private_report_blob = inner[Shown].private_report_blob
        /\ finding.fields.is_published = inner[Shown].is_published
        /\ finding.fields.payed_count = inner[Shown].payed_count
    BY <1>3, <1>4 DEF ContractInv, FieldNames
  <1>6. findingStatus(finding) = ClientName[status_v1(Shown)]
    <2>1. CASE inner[Shown].error_message_blob # None
      BY <2>1, <1>5 DEF findingStatus, status_v1, ClientName
    <2>2. CASE inner[Shown].error_message_blob = None /\ inner[Shown].public_report_blob = None
      BY <2>2, <1>5 DEF findingStatus, status_v1, ClientName
    <2>3. CASE inner[Shown].error_message_blob = None /\ inner[Shown].public_report_blob # None
      BY <2>3, <1>5 DEF findingStatus, status_v1, ClientName
    <2>. QED BY <2>1, <2>2, <2>3
  <1>7. isPaid(finding) <=> is_paid(Shown)
    BY <1>4, <1>5 DEF isPaid, is_paid
  <1>8. ASSUME user # None, NEW k \in Fields
        PROVE  Readable(finding, user, k) <=> MayOpen(user, k)
    <2>. DEFINE id == [id |-> Shown, field |-> k]
    <2>1. OwnerMayOpen(Shown, id) <=> approve_any_id(id, Shown)
      BY <1>2, CardAssumption
         DEF OwnerMayOpen, seal_approve_with_owner_cap, assert_owner_cap, approve
    <2>2. is_published(Shown) <=> inner[Shown].is_published
      BY DEF ContractInv, PublishedInv, is_published, status_v1
    <2>3. BountyMayOpen(inner[Shown].bug_bounty_id, id)
            <=> /\ inner[Shown].is_published /\ approve_any_id(id, Shown)
                /\ k # "error" /\ (k = "private" => is_paid(Shown))
      BY <1>2, <2>2, CardAssumption DEF BountyMayOpen, seal_approve_with_bug_bounty, approve
    <2>4. approve_any_id(id, Shown)
            <=> \/ k = "public" /\ inner[Shown].public_report_blob # None
                \/ k = "private" /\ inner[Shown].private_report_blob # None
                \/ k = "error" /\ inner[Shown].error_message_blob # None
      BY DEF approve_any_id
    <2>5. MayOpen(user, k) <=>
            \/ user = Finder /\ approve_any_id(id, Shown)
            \/ /\ user = Sponsor /\ inner[Shown].is_published /\ approve_any_id(id, Shown)
               /\ k # "error" /\ (k = "private" => is_paid(Shown))
      BY <2>1, <2>3, Zenon DEF MayOpen, OpensAsOwner, OpensAsSponsor
    <2>6. CASE k = "public"
      BY <2>6, <2>4, <2>5, <1>3, <1>4, <1>5, <1>8 DEF Readable, isPublicReportReadable
    <2>7. CASE k = "private"
      BY <2>7, <2>4, <2>5, <1>3, <1>4, <1>5, <1>7, <1>8 DEF Readable, isPrivateReportReadable
    <2>8. CASE k = "error"
      BY <2>8, <2>4, <2>5, <1>3, <1>4, <1>5, <1>8 DEF Readable, isErrorMessageReadable
    <2>. QED BY <2>6, <2>7, <2>8 DEF Fields
  <1>. QED BY <1>6, <1>7, <1>8 DEF ClientAgrees

\* On current data the client's status, isPaid and readable functions decide as
\* the contract does: what sdk/Finding.ts and finding.move say twice.
THEOREM ClientAgreesTheorem == CardSpec => []ClientAgrees
PROOF
  <1>1. CardInit => ContractInv BY InitContract
  <1>2. ContractInv /\ [CardNext]_allVars => ContractInv' BY NextContract
  <1>. QED BY <1>1, <1>2, AgreeHere, PTL DEF CardSpec

-----------------------------------------------------------------------------
LEMMA InitHidden == CardInit => HiddenInv
PROOF
  <1>1. ASSUME CardInit PROVE jobs = {} /\ listed /\ DOMAIN object = Findings
    BY <1>1 DEF CardInit, OpenedWith
  <1>. QED BY <1>1 DEF HiddenInv

LEMMA HiddenSuffices == HiddenInv => HiddenOnlyIfGone
PROOF BY LiveShown DEF HiddenInv, HiddenOnlyIfGone, Excused

\* An excuse holds for good, since what is gone stays gone.
LEMMA ExcusedStays == ASSUME Excused, Goes, Remembers PROVE Excused'
PROOF BY DEF Excused, Goes, Remembers

\* A step that puts up no job that is ending, and takes no card down.
LEMMA KeepsHidden ==
  ASSUME HiddenInv, Goes, Remembers, DOMAIN object' = Findings,
         \A job \in jobs' : DOMAIN job = {"id", "kind", "seen", "stage"},
         \A job \in jobs' : Ending(job) => Excused' \/ \E i \in jobs : Ending(i),
         ~listed' => ~listed \/ Excused'
  PROVE  HiddenInv'
PROOF
  <1>1. \A job \in jobs' : Ending(job) => Excused'
    BY ExcusedStays DEF HiddenInv
  <1>2. ~listed' => Excused'
    BY ExcusedStays DEF HiddenInv
  <1>. QED BY <1>1, <1>2 DEF HiddenInv, Ending

\* The steps of a job replace it, or drop it.
LEMMA StepJobs ==
  ASSUME HiddenInv, NEW job \in jobs, NEW stage, Step(job, stage)
  PROVE  /\ \A j \in jobs' : DOMAIN j = {"id", "kind", "seen", "stage"}
         /\ \A j \in jobs' : j \in jobs \/ (j.kind = job.kind /\ j.stage = stage)
PROOF BY DEF HiddenInv, Step

LEMMA JobHidden ==
  ASSUME HiddenInv, NEW job \in jobs, JobSteps(job)
  PROVE  HiddenInv'
PROOF
  <1>1. CASE Sign(job)
    <2>1. UNCHANGED <<object, listed, mistaken>> /\ Step(job, "signed")
      BY <1>1 DEF Sign, vars, data
    <2>. QED BY <2>1, StepJobs, KeepsHidden DEF Goes, Remembers, Ending, HiddenInv
  <1>2. CASE Decline(job) \/ WaitFails(job)
    <2>1. UNCHANGED <<object, listed, mistaken>> /\ Done(job)
      BY <1>2 DEF Decline, WaitFails, vars, data
    <2>. QED BY <2>1, KeepsHidden DEF Goes, Remembers, Ending, HiddenInv, Done
  <1>3. CASE Execute(job)
    <2>1. /\ UNCHANGED <<listed, mistaken>> /\ Step(job, "executed")
          /\ Effect(job.kind, job.seen) /\ Executes(job.kind, job.seen)
      BY <1>3 DEF Execute, data
    <2>2. Goes /\ (job.kind = "destroy" => object'[Shown] # "live")
      BY <2>1, EffectGoes DEF HiddenInv
    <2>3. DOMAIN object' = Findings
      BY <2>1 DEF HiddenInv, Effect, Pays, Withdraws, Clears, publish
    <2>4. job.kind = "destroy" => Excused'
      BY <2>2 DEF Excused
    <2>. QED BY <2>1, <2>2, <2>3, <2>4, StepJobs, KeepsHidden DEF Remembers, Ending
  <1>4. CASE Abort(job)
    <2>1. /\ UNCHANGED <<object, listed>> /\ Step(job, "executed")
          /\ mistaken' = mistaken \cup {job.kind}
      BY <1>4 DEF Abort, vars, data
    <2>2. job.kind = "destroy" => Excused'
      BY <2>1 DEF Excused
    <2>. QED BY <2>1, <2>2, StepJobs, KeepsHidden DEF Goes, Remembers, Ending, HiddenInv
  <1>5. CASE Settle(job)
    <2>1. UNCHANGED <<object, listed, mistaken>> /\ job.stage = "executed"
      BY <1>5 DEF Settle, vars
    <2>2. CASE Step(job, "timer")
      BY <2>1, <2>2, StepJobs, KeepsHidden DEF Goes, Remembers, Ending, HiddenInv
    <2>3. CASE Done(job)
      BY <2>1, <2>3, KeepsHidden DEF Goes, Remembers, Ending, HiddenInv, Done
    <2>. QED BY <1>5, <2>2, <2>3 DEF Settle
  <1>6. CASE RemoveTimer(job)
    <2>1. UNCHANGED <<object, listed, mistaken>> /\ Done(job)
      BY <1>6 DEF RemoveTimer, vars
    <2>. QED BY <2>1, KeepsHidden DEF Goes, Remembers, Ending, HiddenInv, Done
  <1>7. CASE DestroyTimer(job)
    <2>1. UNCHANGED <<object, mistaken>> /\ Done(job) /\ Ending(job)
      BY <1>7 DEF DestroyTimer, vars, Ending
    <2>2. Excused'
      BY <2>1 DEF HiddenInv, Excused
    <2>. QED BY <2>1, <2>2, KeepsHidden DEF Goes, Remembers, Ending, HiddenInv, Done
  <1>. QED BY <1>1, <1>2, <1>3, <1>4, <1>5, <1>6, <1>7 DEF JobSteps

LEMMA NextHidden == ASSUME HiddenInv, [CardNext]_allVars PROVE HiddenInv'
PROOF
  <1>1. CASE UNCHANGED <<object, jobs, mistaken, listed>>
    BY <1>1 DEF HiddenInv, Excused, Ending
  <1>2. CASE \E job \in jobs : JobSteps(job)
    BY <1>2, JobHidden
  <1>3. CASE Others
    <2>1. Goes /\ UNCHANGED <<jobs, mistaken, listed>>
      BY <1>3, OthersGo DEF Others, data
    <2>2. DOMAIN object' = Findings
      BY <1>3 DEF Others, OthersCall, pay, add_payment, withdraw, set_payment_v1, publish,
                  destroy_v1, commit, report_error, HiddenInv
    <2>. QED BY <2>1, <2>2, KeepsHidden DEF Remembers, HiddenInv
  <1>4. ASSUME NEW kind \in Kinds, Start(kind) PROVE HiddenInv'
    <2>1. /\ UNCHANGED <<object, mistaken, listed>>
          /\ jobs' = jobs \cup {[id |-> NewId, kind |-> kind, seen |-> finding.payments,
                                 stage |-> "built"]}
      BY <1>4 DEF Start, vars
    <2>. QED BY <2>1, KeepsHidden DEF Goes, Remembers, Ending, HiddenInv
  <1>5. CASE FetchIds
    <2>1. /\ UNCHANGED <<object, mistaken, jobs>>
          /\ listed' = TRUE \/ listed' = (Shown \in Live)
      BY <1>5, Zenon DEF FetchIds, getAllFindingIds, getUserFindingIds, Mount, vars
    <2>2. ~listed' => Excused'
      BY <2>1, LiveShown DEF Excused
    <2>3. /\ DOMAIN object' = Findings /\ Goes /\ Remembers
          /\ \A job \in jobs' : job \in jobs
      BY <2>1 DEF Goes, Remembers, HiddenInv
    <2>. QED BY <2>2, <2>3, KeepsHidden DEF HiddenInv
  <1>6. ASSUME CardNext, ~FetchIds, ~Others, ~\E job \in jobs : JobSteps(job),
               ~\E kind \in Kinds : Start(kind)
        PROVE  UNCHANGED <<object, jobs, mistaken, listed>>
    <2>1. ASSUME NEW S \in Arrived, Land(S) \/ FetchFails(S)
          PROVE  UNCHANGED <<object, jobs, mistaken, listed>>
      BY <2>1 DEF Land, FetchFails, vars
    <2>2. ASSUME NEW d \in downloads, Decrypted(d) \/ DownloadFails(d)
          PROVE  UNCHANGED <<object, jobs, mistaken, listed>>
      BY <2>2 DEF Decrypted, DownloadFails, vars, data
    <2>3. ASSUME NEW k \in Fields, handleDownload(k)
          PROVE  UNCHANGED <<object, jobs, mistaken, listed>>
      BY <2>3 DEF handleDownload, vars
    <2>4. ASSUME flushRequestQueue \/ getDynamicFields \/ Focus \/ SessionChanges
          PROVE  UNCHANGED <<object, jobs, mistaken, listed>>
      BY <2>4 DEF flushRequestQueue, getDynamicFields, Reading, Focus, SessionChanges,
                  vars, data
    <2>. QED BY <1>6, <2>1, <2>2, <2>3, <2>4
             DEF CardNext, handleRemovePayment, handlePay, handlePublish, handleDestroy,
                 handleWithdraw, Kinds
  <1>7. CASE UNCHANGED allVars
    BY <1>1, <1>7 DEF allVars, cardVars, vars, data
  <1>. QED BY <1>1, <1>2, <1>3, <1>4, <1>5, <1>6, <1>7

\* A finding leaves the lists only when it is gone, or when the transaction that
\* was to destroy it aborted on the chain and execTx took it for executed
\* (destroyFinding.ts, onSuccess).
THEOREM HiddenTheorem == CardSpec => []HiddenOnlyIfGone
PROOF
  <1>1. CardInit => HiddenInv BY InitHidden
  <1>2. HiddenInv /\ [CardNext]_allVars => HiddenInv' BY NextHidden
  <1>. QED BY <1>1, <1>2, HiddenSuffices, PTL DEF CardSpec

-----------------------------------------------------------------------------
LinksInv == DOMAIN links = Fields /\ LinksAreTheUsers

LEMMA ResetLinks == ASSUME resetUrls PROVE LinksInv'
PROOF BY DEF resetUrls, LinksInv, LinksAreTheUsers

LEMMA NextLinks == ASSUME LinksInv, [CardNext]_allVars PROVE LinksInv'
PROOF
  <1>1. CASE UNCHANGED <<links, late, user>>
    BY <1>1 DEF LinksInv, LinksAreTheUsers
  <1>2. ASSUME NEW d, setUrl(d), UNCHANGED user PROVE LinksInv'
    BY <1>2 DEF setUrl, LinksInv, LinksAreTheUsers
  <1>3. ASSUME NEW there, Mount(there), UNCHANGED user PROVE LinksInv'
    BY <1>1, <1>3, ResetLinks DEF Mount, reports
  <1>4. CASE SessionChanges
    <2>1. CASE resetUrls BY <2>1, ResetLinks
    <2>2. CASE UNCHANGED <<links, late>> /\ ~(user # None /\ user' # user)
      BY <2>2 DEF LinksInv, LinksAreTheUsers
    <2>. QED BY <1>4, <2>1, <2>2 DEF SessionChanges
  <1>5. ASSUME CardNext, ~SessionChanges PROVE LinksInv'
    <2>1. ASSUME NEW job \in jobs, JobSteps(job) PROVE LinksInv'
      <3>1. CASE DestroyTimer(job)
        BY <1>3, <3>1 DEF DestroyTimer, session
      <3>. QED BY <1>1, <2>1, <3>1
               DEF JobSteps, Sign, Decline, Execute, Abort, WaitFails, Settle, RemoveTimer,
                   session, reports
    <2>2. ASSUME NEW S \in Arrived, Land(S) \/ FetchFails(S) PROVE LinksInv'
      BY <1>1, <2>2 DEF Land, FetchFails, session, reports
    <2>3. ASSUME NEW d \in downloads, Decrypted(d) \/ DownloadFails(d) PROVE LinksInv'
      BY <1>1, <1>2, <2>3 DEF Decrypted, DownloadFails, session
    <2>4. ASSUME NEW kind, Start(kind) PROVE LinksInv'
      BY <1>1, <2>4 DEF Start, session, reports
    <2>5. ASSUME NEW k \in Fields, handleDownload(k) PROVE LinksInv'
      BY <1>1, <2>5 DEF handleDownload, session
    <2>6. CASE flushRequestQueue \/ getDynamicFields \/ Focus \/ Others
      BY <1>1, <2>6 DEF flushRequestQueue, getDynamicFields, Reading, Focus, Others,
                        session, reports
    <2>7. CASE FetchIds
      BY <1>3, <2>7 DEF FetchIds, session
    <2>. QED BY <1>5, <2>1, <2>2, <2>3, <2>4, <2>5, <2>6, <2>7
             DEF CardNext, handleRemovePayment, handlePay, handlePublish, handleDestroy,
                 handleWithdraw
  <1>6. CASE UNCHANGED allVars
    BY <1>1, <1>6 DEF allVars, cardVars, session, reports
  <1>. QED BY <1>4, <1>5, <1>6

\* A report decrypted for one user is not left on the page for the next, except
\* by a download that ends after its user has gone (FindingCard.tsx, resetUrls).
THEOREM LinksTheorem == CardSpec => []LinksAreTheUsers
PROOF
  <1>1. CardInit => LinksInv
    BY DEF CardInit, LinksInv, LinksAreTheUsers
  <1>2. LinksInv /\ [CardNext]_allVars => LinksInv' BY NextLinks
  <1>3. LinksInv => LinksAreTheUsers BY DEF LinksInv
  <1>. QED BY <1>1, <1>2, <1>3, PTL DEF CardSpec

-----------------------------------------------------------------------------
(* What the client has seen of the payments *)

\* An entry as the client has it, or nothing.
Seen == PaymentV1 \cup {Gone, Missing}

\* The entries on the chain, in the cache, in answers and in transactions are
\* payments within u64; only thus do the amounts of a transaction add up.
PaymentsTyped == inner[Shown].payments \in [Coins -> Option(PaymentV1)]
CacheTyped ==
  /\ DOMAIN cache = Entries /\ \A c \in Coins : cache[c] \in Seen
  /\ cache["fields"] = Missing \/ cache["fields"] \subseteq Coins
AnswersTyped ==
  /\ \A c \in DOMAIN answers \cap Coins : answers[c] \in Seen
  /\ "fields" \in DOMAIN answers => answers["fields"] \subseteq Coins
JobTyped(job) == /\ DOMAIN job = {"id", "kind", "seen", "stage"}
                 /\ DOMAIN job.seen \subseteq Coins
                 /\ \A c \in DOMAIN job.seen : job.seen[c] \in Seen
JobsTyped == \A job \in jobs : JobTyped(job)

LedgerNames == {"received", "released", "price", "drift", "testing"}

\* The totals of what came in are numbers.
LedgerTyped ==
  /\ DOMAIN ledger = Findings /\ DOMAIN ledger[Shown] = LedgerNames
  /\ ledger[Shown].received \in [Coins -> Int]

SeenInv ==
  ContractInv /\ PaymentsTyped /\ LedgerTyped /\ CacheTyped /\ AnswersTyped /\ JobsTyped

LEMMA EntryType ==
  ASSUME PaymentsTyped, NEW c \in Coins
  PROVE  /\ Entry(c) \in Option(PaymentV1)
         /\ Paid(Entry(c)) \in 0 .. MAX_U64 /\ Due(Entry(c)) \in 0 .. MAX_U64
         /\ Entry(c) # None => Entry(c) \in PaymentV1
PROOF
  <1>1. Entry(c) \in Option(PaymentV1)
    BY DEF PaymentsTyped, Entry
  <1>. QED BY <1>1, FindingAssumption DEF Option, PaymentV1, Paid, Due, Settled

LEMMA RecountTyped ==
  ASSUME ContractInv, PaymentsTyped, NEW c \in Coins, NEW p \in Option(PaymentV1),
         Recount(Shown, c, p)
  PROVE  PaymentsTyped'
PROOF
  <1>1. PICK n : inner' = [inner EXCEPT ![Shown].payments[c] = p, ![Shown].payed_count = n]
    BY Zenon DEF Recount
  <1>2. inner'[Shown].payments = [inner[Shown].payments EXCEPT ![c] = p]
    BY <1>1, CardAssumption DEF ContractInv, FieldNames
  <1>. QED BY <1>2 DEF PaymentsTyped

LEMMA ReplaceTyped ==
  ASSUME ContractInv, PaymentsTyped, NEW new, Replace(new),
         \A c \in DOMAIN new \cap Coins : new[c] \in Option(PaymentV1)
  PROVE  /\ PaymentsTyped'
         /\ inner'[Shown].payments = [c \in Coins |-> IF c \in DOMAIN new THEN new[c] ELSE Entry(c)]
PROOF
  <1>. DEFINE p == [c \in Coins |-> IF c \in DOMAIN new THEN new[c] ELSE Entry(c)]
  <1>1. PICK n : inner' = [inner EXCEPT ![Shown].payments = p, ![Shown].payed_count = n]
    BY Zenon DEF Replace
  <1>2. p \in [Coins -> Option(PaymentV1)]
    BY EntryType
  <1>3. inner'[Shown].payments = p
    <2>. HIDE DEF p
    <2>. QED BY <1>1, CardAssumption DEF ContractInv, FieldNames
  <1>. QED BY <1>2, <1>3 DEF PaymentsTyped

LEMMA PaidUpTyped ==
  ASSUME PaymentsTyped, NEW c \in Coins, NEW amount \in Nat,
         Held(Shown, c) + amount <= MAX_U64
  PROVE  PaidUp(c, amount) \in Option(PaymentV1)
PROOF
  <1>1. CASE Entry(c) = None
    <2>1. amount \in 0 .. MAX_U64 /\ 0 \in 0 .. MAX_U64
      BY <1>1, FindingAssumption DEF Held, Entry, Paid
    <2>. QED BY <1>1, <2>1 DEF PaidUp, Option, PaymentV1
  <1>2. CASE Entry(c) # None
    <2>1. Entry(c) \in PaymentV1 /\ Entry(c).paid + amount <= MAX_U64
      BY <1>2, EntryType DEF Held, Entry, Paid
    <2>. QED BY <1>2, <2>1, FindingAssumption DEF PaidUp, Option, PaymentV1
  <1>. QED BY <1>1, <1>2

\* The amounts of a payment that goes through, and the entries they make.
LEMMA PaysEntries ==
  ASSUME ContractInv, PaymentsTyped, NEW job, JobTyped(job), job.kind = "pay",
         Executes(job.kind, job.seen), Pays(job.seen)
  PROVE  /\ PaymentsTyped'
         /\ \A c \in Coins \cap Touched("pay", job.seen) :
              /\ Amounts(job.seen)[c] = job.seen[c].requested - job.seen[c].paid
              /\ Amounts(job.seen)[c] \in Nat
              /\ inner'[Shown].payments[c] = PaidUp(c, Amounts(job.seen)[c])
         /\ \A c \in Coins \ Touched("pay", job.seen) : inner'[Shown].payments[c] = Entry(c)
PROOF
  <1>. DEFINE amounts == Amounts(job.seen)
             new == [c \in DOMAIN amounts |-> PaidUp(c, amounts[c])]
  <1>1. DOMAIN amounts = Touched("pay", job.seen) /\ DOMAIN new = DOMAIN amounts
    BY DEF Amounts
  <1>2. ASSUME NEW c \in Coins \cap DOMAIN amounts
        PROVE  /\ amounts[c] = job.seen[c].requested - job.seen[c].paid
               /\ amounts[c] \in Nat
               /\ PaidUp(c, amounts[c]) \in Option(PaymentV1)
    <2>1. c \in DOMAIN job.seen /\ Unpaid(job.seen[c])
      BY <1>1 DEF Touched
    <2>2. job.seen[c] \in PaymentV1
      BY <2>1 DEF JobTyped, Seen, Unpaid, Given
    <2>3. amounts[c] = job.seen[c].requested - job.seen[c].paid
      BY <1>1 DEF Amounts
    <2>4. amounts[c] \in Nat
      BY <2>1, <2>2, <2>3, FindingAssumption DEF Unpaid, PaymentV1
    <2>5. Held(Shown, c) + amounts[c] <= MAX_U64
      BY <1>1 DEF Executes
    <2>. QED BY <2>3, <2>4, <2>5, PaidUpTyped
  <1>3. Replace(new)
    BY DEF Pays
  <1>4. \A c \in DOMAIN new \cap Coins : new[c] \in Option(PaymentV1)
    BY <1>2
  <1>. HIDE DEF new
  <1>5. PaymentsTyped' /\ inner'[Shown].payments =
          [c \in Coins |-> IF c \in DOMAIN new THEN new[c] ELSE Entry(c)]
    BY <1>3, <1>4, ReplaceTyped
  <1>6. \A c \in DOMAIN amounts : new[c] = PaidUp(c, amounts[c])
    BY DEF new
  <1>. HIDE DEF amounts
  <1>. QED BY <1>1, <1>2, <1>5, <1>6 DEF amounts

LEMMA OthersTyped == ASSUME ContractInv, PaymentsTyped, OthersCall PROVE PaymentsTyped'
PROOF
  <1>m. MAX_U64 \in Nat /\ Unit = 1 /\ Unit \in 0 .. MAX_U64
    BY FindingAssumption, CardAssumption DEF Unit
  <1>1. ASSUME NEW c \in Coins, pay(Shown, c, Unit) PROVE PaymentsTyped'
    <2>1. CASE Entry(c) = None
      <3>1. Recount(Shown, c, [requested |-> 0, paid |-> Unit])
        BY <1>1, <2>1 DEF pay, Entry
      <3>2. [requested |-> 0, paid |-> Unit] \in Option(PaymentV1)
        BY <1>m DEF Option, PaymentV1
      <3>. QED BY <3>1, <3>2, RecountTyped
    <2>2. CASE Entry(c) # None
      <3>1. /\ Recount(Shown, c, [Entry(c) EXCEPT !.paid = @ + Unit])
            /\ Entry(c).paid + Unit <= MAX_U64
        BY <1>1, <2>2 DEF pay, Entry
      <3>2. [Entry(c) EXCEPT !.paid = @ + Unit] \in Option(PaymentV1)
        BY <1>m, <2>2, <3>1, EntryType DEF Option, PaymentV1
      <3>. QED BY <3>1, <3>2, RecountTyped
    <2>. QED BY <2>1, <2>2
  <1>2. ASSUME NEW c \in Coins, add_payment(Shown, Shown, c, Unit) PROVE PaymentsTyped'
    <2>1. CASE Entry(c) = None
      <3>1. Recount(Shown, c, [requested |-> Unit, paid |-> 0])
        BY <1>2, <2>1 DEF add_payment, Entry
      <3>2. [requested |-> Unit, paid |-> 0] \in Option(PaymentV1)
        BY <1>m DEF Option, PaymentV1
      <3>. QED BY <3>1, <3>2, RecountTyped
    <2>2. CASE Entry(c) # None
      <3>1. /\ Recount(Shown, c, [Entry(c) EXCEPT !.requested = @ + Unit])
            /\ Entry(c).requested + Unit <= MAX_U64
        BY <1>2, <2>2 DEF add_payment, Entry
      <3>2. [Entry(c) EXCEPT !.requested = @ + Unit] \in Option(PaymentV1)
        BY <1>m, <2>2, <3>1, EntryType DEF Option, PaymentV1
      <3>. QED BY <3>1, <3>2, RecountTyped
    <2>. QED BY <2>1, <2>2
  <1>3. ASSUME NEW c \in Coins, withdraw(Shown, Shown, c) PROVE PaymentsTyped'
    <2>1. Entry(c) \in PaymentV1
      BY <1>3, EntryType DEF withdraw, Entry
    <2>2. (IF Settled(Entry(c)) THEN None
           ELSE [requested |-> Entry(c).requested - Entry(c).paid, paid |-> 0])
            \in Option(PaymentV1)
      <3>1. CASE Settled(Entry(c))
        BY <3>1 DEF Option
      <3>2. CASE ~Settled(Entry(c))
        <4>1. Entry(c).paid < Entry(c).requested
          BY <2>1, <3>2, FindingAssumption DEF Settled, PaymentV1
        <4>2. Entry(c).requested - Entry(c).paid \in 0 .. MAX_U64 /\ 0 \in 0 .. MAX_U64
          BY <2>1, <4>1, FindingAssumption DEF PaymentV1
        <4>. QED BY <3>2, <4>2 DEF Option, PaymentV1
      <3>. QED BY <3>1, <3>2
    <2>3. Recount(Shown, c, IF Settled(Entry(c)) THEN None
                           ELSE [requested |-> Entry(c).requested - Entry(c).paid, paid |-> 0])
      BY <1>3 DEF withdraw, Entry
    <2>. QED BY <2>2, <2>3, RecountTyped
  <1>4. ASSUME NEW c \in Coins, set_payment_v1(Shown, Shown, c, 0) PROVE PaymentsTyped'
    <2>1. Held(Shown, c) \in Nat
      BY EntryType, FindingAssumption DEF Held, Entry
    <2>2. ~(0 > Held(Shown, c)) /\ ~(0 > 0)
      BY <2>1
    <2>3. inner' = [inner EXCEPT ![Shown].payments[c] = None]
      BY <1>4, <2>2 DEF set_payment_v1
    <2>4. inner'[Shown].payments = [inner[Shown].payments EXCEPT ![c] = None]
      BY <2>3, CardAssumption DEF ContractInv, FieldNames
    <2>. QED BY <2>4 DEF PaymentsTyped, Option
  <1>5. ASSUME destroy_v1(Shown, Shown) PROVE PaymentsTyped'
    <2>1. inner'[Shown] = NoFinding
      BY <1>5, CardAssumption DEF destroy_v1, ContractInv
    <2>. QED BY <2>1 DEF PaymentsTyped, NoFinding, NoPayments, Option
  <1>6. ASSUME inner'[Shown].payments = inner[Shown].payments PROVE PaymentsTyped'
    BY <1>6 DEF PaymentsTyped
  <1>7. CASE publish(Shown, Shown)
    BY <1>6, <1>7, CardAssumption DEF publish, ContractInv, FieldNames
  <1>8. ASSUME NEW public, NEW private, commit(Shown, public, private) PROVE PaymentsTyped'
    BY <1>6, <1>8, CardAssumption DEF commit, FillReports, ContractInv, FieldNames
  <1>9. ASSUME NEW error, report_error(Shown, error) PROVE PaymentsTyped'
    BY <1>6, <1>9, CardAssumption DEF report_error, ContractInv, FieldNames
  <1>. QED BY <1>1, <1>2, <1>3, <1>4, <1>5, <1>7, <1>8, <1>9 DEF OthersCall

LEMMA EffectTyped ==
  ASSUME ContractInv, PaymentsTyped, NEW job, JobTyped(job),
         Executes(job.kind, job.seen), Effect(job.kind, job.seen)
  PROVE  PaymentsTyped'
PROOF
  <1>1. CASE job.kind = "pay" /\ Pays(job.seen)
    BY <1>1, PaysEntries
  <1>2. CASE Withdraws(Touched(job.kind, job.seen))
    <2>. DEFINE C == Touched(job.kind, job.seen)
               new == [c \in C |-> TakenOut(c)]
    <2>1. ASSUME NEW c \in C \cap Coins PROVE TakenOut(c) \in Option(PaymentV1)
      BY EntryType, FindingAssumption DEF TakenOut, Option, PaymentV1
    <2>2. Replace(new) /\ DOMAIN new = C /\ \A c \in DOMAIN new \cap Coins : new[c] \in Option(PaymentV1)
      BY <1>2, <2>1 DEF Withdraws
    <2>. HIDE DEF new, C
    <2>. QED BY <2>2, ReplaceTyped
  <1>3. CASE Clears(DOMAIN job.seen, job.kind = "destroy")
    <2>1. CASE job.kind = "destroy"
      <3>1. inner'[Shown] = NoFinding
        BY <1>3, <2>1, CardAssumption DEF Clears, ContractInv
      <3>. QED BY <3>1 DEF PaymentsTyped, NoFinding, NoPayments, Option
    <2>2. CASE job.kind # "destroy"
      <3>. DEFINE p == [c \in Coins |-> IF c \in DOMAIN job.seen THEN None ELSE Entry(c)]
      <3>1. p \in [Coins -> Option(PaymentV1)]
        BY EntryType DEF Option
      <3>2. inner' = [inner EXCEPT ![Shown].payments = p]
        BY <1>3, <2>2 DEF Clears
      <3>. HIDE DEF p
      <3>3. inner'[Shown].payments = p
        BY <3>2, CardAssumption DEF ContractInv, FieldNames
      <3>. QED BY <3>1, <3>3 DEF PaymentsTyped
    <2>. QED BY <2>1, <2>2
  <1>4. CASE publish(Shown, Shown)
    <2>1. inner'[Shown].payments = inner[Shown].payments
      BY <1>4, CardAssumption DEF publish, ContractInv, FieldNames
    <2>. QED BY <2>1 DEF PaymentsTyped
  <1>. QED BY <1>1, <1>2, <1>3, <1>4 DEF Effect

\* A call that leaves alone what came in, or adds to it.
LEMMA OthersLedger == ASSUME LedgerTyped, OthersCall PROVE LedgerTyped'
PROOF
  <1>. USE CardAssumption
  <1>1. ASSUME NEW c \in Coins, pay(Shown, c, Unit) PROVE LedgerTyped'
    <2>1. ledger' = [ledger EXCEPT ![Shown].received[c] = @ + Unit]
      BY <1>1 DEF pay, Receive
    <2>2. ledger[Shown].received[c] + Unit \in Int
      BY DEF LedgerTyped, Unit
    <2>3. ledger'[Shown].received = [ledger[Shown].received EXCEPT ![c] = @ + Unit]
      BY <2>1 DEF LedgerTyped, LedgerNames
    <2>. QED BY <2>1, <2>2, <2>3 DEF LedgerTyped, LedgerNames
  <1>2. ASSUME NEW c \in Coins, withdraw(Shown, Shown, c) PROVE LedgerTyped'
    BY <1>2 DEF withdraw, Release, LedgerTyped, LedgerNames
  <1>3. ASSUME NEW c \in Coins, set_payment_v1(Shown, Shown, c, 0) PROVE LedgerTyped'
    <2>1. PICK r, d : ledger' = [ledger EXCEPT ![Shown].released[c] = r, ![Shown].drift = d]
      BY <1>3, Zenon DEF set_payment_v1
    <2>. QED BY <2>1 DEF LedgerTyped, LedgerNames
  <1>4. CASE publish(Shown, Shown)
    <2>1. PICK q : ledger' = [ledger EXCEPT ![Shown].price = q]
      BY <1>4, Zenon DEF publish
    <2>. QED BY <2>1 DEF LedgerTyped, LedgerNames
  <1>5. CASE UNCHANGED ledger
    BY <1>5 DEF LedgerTyped
  <1>. QED BY <1>1, <1>2, <1>3, <1>4, <1>5
           DEF OthersCall, add_payment, destroy_v1, commit, report_error

LEMMA PaysLedger ==
  ASSUME LedgerTyped, NEW job, JobTyped(job), job.kind = "pay", Pays(job.seen)
  PROVE  /\ LedgerTyped'
         /\ \A c \in Coins : ledger'[Shown].received[c] =
              ledger[Shown].received[c]
                + (IF c \in Touched("pay", job.seen) THEN Amounts(job.seen)[c] ELSE 0)
PROOF
  <1>. DEFINE amounts == Amounts(job.seen)
             more == [c \in Coins |-> ledger[Shown].received[c]
                                        + (IF c \in DOMAIN amounts THEN amounts[c] ELSE 0)]
  <1>1. DOMAIN amounts = Touched("pay", job.seen)
    BY DEF Amounts
  <1>2. ledger' = [ledger EXCEPT ![Shown].received = more]
    BY DEF Pays
  <1>3. ASSUME NEW c \in Coins \cap DOMAIN amounts PROVE amounts[c] \in Int
    <2>1. c \in DOMAIN job.seen /\ Unpaid(job.seen[c])
      BY <1>1 DEF Touched
    <2>2. job.seen[c] \in PaymentV1
      BY <2>1 DEF JobTyped, Seen, Unpaid, Given
    <2>3. amounts[c] = job.seen[c].requested - job.seen[c].paid
      BY <1>1 DEF Amounts
    <2>. QED BY <2>2, <2>3, FindingAssumption DEF PaymentV1
  <1>4. ASSUME NEW c \in Coins
        PROVE  ledger[Shown].received[c] + (IF c \in DOMAIN amounts THEN amounts[c] ELSE 0) \in Int
    <2>1. ledger[Shown].received[c] \in Int
      BY DEF LedgerTyped
    <2>2. (IF c \in DOMAIN amounts THEN amounts[c] ELSE 0) \in Int
      BY <1>3
    <2>. QED BY <2>1, <2>2
  <1>5. more \in [Coins -> Int]
    BY <1>4
  <1>6. \A c \in Coins : more[c] = ledger[Shown].received[c]
           + (IF c \in Touched("pay", job.seen) THEN Amounts(job.seen)[c] ELSE 0)
    BY <1>1
  <1>. HIDE DEF more
  <1>. QED BY <1>2, <1>5, <1>6, CardAssumption DEF LedgerTyped, LedgerNames

LEMMA EffectLedger ==
  ASSUME LedgerTyped, NEW job, JobTyped(job), Effect(job.kind, job.seen)
  PROVE  LedgerTyped'
PROOF
  <1>. USE CardAssumption
  <1>1. CASE job.kind = "pay" /\ Pays(job.seen)
    BY <1>1, PaysLedger
  <1>2. CASE Withdraws(Touched(job.kind, job.seen))
    <2>1. PICK r : ledger' = [ledger EXCEPT ![Shown].released = r]
      BY <1>2, Zenon DEF Withdraws
    <2>. QED BY <2>1 DEF LedgerTyped, LedgerNames
  <1>3. CASE Clears(DOMAIN job.seen, job.kind = "destroy")
    <2>1. PICK r, d : ledger' = [ledger EXCEPT ![Shown].released = r, ![Shown].drift = d]
      BY <1>3, Zenon DEF Clears
    <2>. QED BY <2>1 DEF LedgerTyped, LedgerNames
  <1>4. CASE publish(Shown, Shown)
    <2>1. PICK q : ledger' = [ledger EXCEPT ![Shown].price = q]
      BY <1>4, Zenon DEF publish
    <2>. QED BY <2>1 DEF LedgerTyped, LedgerNames
  <1>. QED BY <1>1, <1>2, <1>3, <1>4 DEF Effect

LEMMA InitSeen == CardInit => SeenInv
PROOF
  <1>. SUFFICES ASSUME CardInit PROVE SeenInv
    OBVIOUS
  <1>1. PICK b \in Bounties, h \in Hashes, w \in Blobs, payments \in OpenPayments :
          \E stage \in {"Draft", "Committed", "Published", "Error"} :
            OpenedWith(b, h, w, payments, stage)
    BY DEF CardInit
  <1>2. PICK stage : OpenedWith(b, h, w, payments, stage)
    BY <1>1
  <1>3. payments \in [Coins -> Option(PaymentV1)]
    <2>1. MAX_U64 \in Nat /\ 2 <= MAX_U64
      BY FindingAssumption, CardAssumption
    <2>2. 0 \in 0 .. MAX_U64 /\ 1 \in 0 .. MAX_U64 /\ 2 \in 0 .. MAX_U64
      BY <2>1
    <2>3. 2 * Unit = 2 /\ Unit = 1
      BY DEF Unit
    <2>4. {None, [requested |-> Unit, paid |-> 0], [requested |-> 2 * Unit, paid |-> Unit],
           [requested |-> Unit, paid |-> Unit]} \subseteq Option(PaymentV1)
      BY <2>2, <2>3 DEF Option, PaymentV1
    <2>5. payments \in [Coins -> {None, [requested |-> Unit, paid |-> 0],
                                 [requested |-> 2 * Unit, paid |-> Unit],
                                 [requested |-> Unit, paid |-> Unit]}]
      BY DEF OpenPayments
    <2>. QED BY <2>4, <2>5
  <1>4. PaymentsTyped
    <2>1. inner[Shown] = Opened(b, h, w, payments, stage)
      BY <1>2, CardAssumption DEF OpenedWith
    <2>. QED BY <1>3, <2>1 DEF PaymentsTyped, Opened
  <1>5. LedgerTyped
    <2>. DEFINE r == [c \in Coins |-> Paid(payments[c])]
    <2>1. r \in [Coins -> Int]
      <3>1. ASSUME NEW c \in Coins PROVE Paid(payments[c]) \in Int
        BY <1>3, FindingAssumption DEF Paid, Option, PaymentV1
      <3>. QED BY <3>1
    <2>2. PICK q : ledger[Shown] = [NewLedger EXCEPT !.received = r, !.price = q]
      BY <1>2, CardAssumption, Zenon DEF OpenedWith
    <2>3. DOMAIN ledger = Findings
      BY <1>2 DEF OpenedWith
    <2>. HIDE DEF r
    <2>. QED BY <2>1, <2>2, <2>3 DEF LedgerTyped, LedgerNames, NewLedger
  <1>6. CacheTyped /\ AnswersTyped /\ JobsTyped
    <2>1. cache = [e \in Entries |-> Missing] /\ answers = <<>> /\ jobs = {}
      BY DEF CardInit
    <2>. QED BY <2>1 DEF CacheTyped, AnswersTyped, JobsTyped, Seen, Entries
  <1>. QED BY <1>4, <1>5, <1>6, InitContract DEF SeenInv

LEMMA ReadIs ==
  ASSUME NEW e \in Entries
  PROVE  /\ e \in Coins => Read(e) = IF Entry(e) = None THEN Gone ELSE Entry(e)
         /\ e = "fields" => Read(e) = Contained(Shown)
         /\ e = "bounty" => Read(e) = Sponsor
         /\ e = "outer" => Read(e) = IF Shown \in Live THEN Shown ELSE Gone
         /\ e = "cap" => Read(e) = IF Shown \in Live THEN Finder ELSE Gone
PROOF BY CardAssumption DEF Read, Entry

\* What the node answers for a coin is an entry, or nothing.
LEMMA ReadSeen == ASSUME PaymentsTyped, NEW c \in Coins PROVE Read(c) \in Seen
PROOF
  <1>1. Read(c) = IF Entry(c) = None THEN Gone ELSE Entry(c)
    BY DEF Read, Entry
  <1>. QED BY <1>1, EntryType DEF Seen

\* A step that is off the chain.
LEMMA OffChain ==
  ASSUME SeenInv, UNCHANGED vars, CacheTyped', AnswersTyped', JobsTyped'
  PROVE  SeenInv'
PROOF BY StutterContract DEF vars, SeenInv, PaymentsTyped, LedgerTyped

LEMMA SameAnswers == ASSUME SeenInv, NEW S, answers' = Without(answers, S) PROVE AnswersTyped'
PROOF BY DEF SeenInv, AnswersTyped, Without

LEMMA StepSeen ==
  ASSUME SeenInv, NEW job \in jobs, NEW stage, Step(job, stage) \/ Done(job)
  PROVE  JobsTyped'
PROOF
  <1>1. JobTyped([job EXCEPT !.stage = stage])
    BY DEF SeenInv, JobsTyped, JobTyped
  <1>2. CASE Step(job, stage)
    BY <1>1, <1>2 DEF Step, SeenInv, JobsTyped
  <1>3. CASE Done(job)
    BY <1>3 DEF Done, SeenInv, JobsTyped
  <1>. QED BY <1>2, <1>3

LEMMA ReadingSeen == ASSUME SeenInv, NEW S, Reading(S) PROVE SeenInv'
PROOF
  <1>1. \A c \in Coins : Read(c) \in Seen
    BY ReadSeen DEF SeenInv
  <1>f. Read("fields") \subseteq Coins
    BY ReadIs DEF Contained, Entries
  <1>a. /\ DOMAIN answers' = DOMAIN answers \cup S
        /\ \A e \in DOMAIN answers' : answers'[e] = IF e \in S THEN Read(e) ELSE answers[e]
    BY DEF Reading
  <1>2. AnswersTyped'
    <2>1. ASSUME NEW c \in DOMAIN answers' \cap Coins PROVE answers'[c] \in Seen
      BY <1>1, <1>a DEF SeenInv, AnswersTyped
    <2>2. ASSUME "fields" \in DOMAIN answers' PROVE answers'["fields"] \subseteq Coins
      BY <1>f, <1>a, <2>2 DEF SeenInv, AnswersTyped
    <2>. QED BY <2>1, <2>2 DEF AnswersTyped
  <1>3. UNCHANGED <<cache, jobs>> /\ UNCHANGED vars
    BY DEF Reading
  <1>4. CacheTyped' /\ JobsTyped'
    BY <1>3 DEF SeenInv, CacheTyped, JobsTyped
  <1>. QED BY <1>2, <1>3, <1>4, OffChain

LEMMA LandSeen == ASSUME SeenInv, NEW S \in Arrived, Land(S) PROVE SeenInv'
PROOF
  <1>1. S \subseteq DOMAIN answers
    BY DEF Arrived
  <1>2. /\ cache' = [e \in Entries |-> IF e \in S THEN answers[e] ELSE cache[e]]
        /\ answers' = Without(answers, S)
        /\ UNCHANGED jobs /\ UNCHANGED vars
    BY DEF Land
  <1>3. CacheTyped'
    BY <1>1, <1>2 DEF SeenInv, CacheTyped, AnswersTyped, Entries
  <1>4. JobsTyped'
    BY <1>2 DEF SeenInv, JobsTyped
  <1>. QED BY <1>2, <1>3, <1>4, SameAnswers, OffChain

LEMMA RemovedSeen ==
  ASSUME SeenInv, NEW S, NEW new, removeQueries(S, new),
         \A c \in Coins : new[c] = cache[c],
         new["fields"] = {} \/ new["fields"] = cache["fields"]
  PROVE  CacheTyped' /\ AnswersTyped'
PROOF
  <1>1. /\ cache' = [e \in Entries |-> IF e \in S THEN Missing ELSE new[e]]
        /\ answers' = Without(answers, S)
    BY DEF removeQueries
  <1>2. CacheTyped'
    BY <1>1 DEF SeenInv, CacheTyped, Seen, Entries
  <1>. QED BY <1>1, <1>2, SameAnswers

\* No button is enabled on a card that is not drawn.
LEMMA OfferedVisible == ASSUME NEW kind \in Kinds, Offered(kind) PROVE Visible
PROOF
  <1>1. CASE kind = "remove"
    BY <1>1 DEF Offered, RemoveOffered, HasPayments
  <1>2. CASE kind = "pay"
    BY <1>2 DEF Offered, PayOffered, HasPayments
  <1>3. CASE kind = "withdraw"
    BY <1>3 DEF Offered, WithdrawOffered, HasPayments
  <1>4. CASE kind = "publish"
    BY <1>4 DEF Offered, PublishOffered
  <1>5. CASE kind = "destroy"
    BY <1>5 DEF Offered, DestroyOffered
  <1>. QED BY <1>1, <1>2, <1>3, <1>4, <1>5 DEF Kinds

LEMMA StartSeen == ASSUME SeenInv, NEW kind \in Kinds, Start(kind) PROVE SeenInv'
PROOF
  <1>1. /\ jobs' = jobs \cup {[id |-> NewId, kind |-> kind, seen |-> finding.payments,
                               stage |-> "built"]}
        /\ UNCHANGED <<cache, answers>> /\ UNCHANGED vars
    BY DEF Start
  <1>2. finding.payments = [c \in cache["fields"] |-> cache[c]]
    BY DEF finding
  <1>f. cache["fields"] \subseteq Coins
    BY OfferedVisible DEF Start, Visible, Loaded, LoadedIn, SeenInv, CacheTyped
  <1>3. JobTyped([id |-> NewId, kind |-> kind, seen |-> finding.payments, stage |-> "built"])
    BY <1>2, <1>f DEF JobTyped, SeenInv, CacheTyped
  <1>4. JobsTyped'
    BY <1>1, <1>3 DEF SeenInv, JobsTyped
  <1>5. CacheTyped' /\ AnswersTyped'
    BY <1>1 DEF SeenInv, CacheTyped, AnswersTyped
  <1>. QED BY <1>1, <1>4, <1>5, OffChain

LEMMA JobSeen == ASSUME SeenInv, NEW job \in jobs, JobSteps(job) PROVE SeenInv'
PROOF
  <1>s. UNCHANGED <<cache, answers>> => CacheTyped' /\ AnswersTyped'
    BY DEF SeenInv, CacheTyped, AnswersTyped
  <1>1. CASE Sign(job)
    BY <1>1, <1>s, StepSeen, OffChain DEF Sign, data
  <1>2. CASE Decline(job) \/ WaitFails(job)
    BY <1>2, <1>s, StepSeen, OffChain DEF Decline, WaitFails, data
  <1>3. CASE Abort(job)
    BY <1>3, <1>s, StepSeen, OffChain DEF Abort, data
  <1>4. CASE Execute(job)
    <2>1. /\ UNCHANGED <<cache, answers>> /\ Step(job, "executed")
          /\ Effect(job.kind, job.seen) /\ Executes(job.kind, job.seen)
      BY <1>4 DEF Execute, data
    <2>2. JobTyped(job)
      BY DEF SeenInv, JobsTyped
    <2>3. ContractInv' /\ PaymentsTyped' /\ LedgerTyped'
      BY <2>1, <2>2, EffectContract, EffectTyped, EffectLedger DEF SeenInv
    <2>. QED BY <1>s, <2>1, <2>3, StepSeen DEF SeenInv
  <1>5. CASE Settle(job)
    <2>1. /\ UNCHANGED cache /\ UNCHANGED vars
          /\ answers' = Without(answers, Refetched(Outdated(job)))
          /\ Step(job, "timer") \/ Done(job)
      BY <1>5 DEF Settle, invalidateQueries
    <2>2. CacheTyped'
      BY <2>1 DEF SeenInv, CacheTyped
    <2>. QED BY <2>1, <2>2, SameAnswers, StepSeen, OffChain
  <1>6. CASE RemoveTimer(job)
    <2>. DEFINE new == [cache EXCEPT !["fields"] = {}]
    <2>1. removeQueries(DOMAIN job.seen, new) /\ Done(job) /\ UNCHANGED vars
      BY <1>6 DEF RemoveTimer
    <2>2. (\A c \in Coins : new[c] = cache[c]) /\ new["fields"] = {}
      BY CardAssumption DEF SeenInv, CacheTyped, Entries
    <2>. HIDE DEF new
    <2>. QED BY <2>1, <2>2, RemovedSeen, StepSeen, OffChain
  <1>7. CASE DestroyTimer(job)
    <2>1. /\ removeQueries({"outer", "fields"} \cup DOMAIN job.seen, cache)
          /\ Done(job) /\ UNCHANGED vars
      BY <1>7 DEF DestroyTimer
    <2>. QED BY <2>1, RemovedSeen, StepSeen, OffChain
  <1>. QED BY <1>1, <1>2, <1>3, <1>4, <1>5, <1>6, <1>7 DEF JobSteps

LEMMA NextSeen == ASSUME SeenInv, [CardNext]_allVars PROVE SeenInv'
PROOF
  <1>1. ASSUME UNCHANGED <<cache, answers, jobs>>, UNCHANGED vars PROVE SeenInv'
    BY <1>1, OffChain DEF SeenInv, CacheTyped, AnswersTyped, JobsTyped
  <1>2. ASSUME NEW S \in Arrived, FetchFails(S) PROVE SeenInv'
    <2>1. UNCHANGED <<cache, jobs>> /\ UNCHANGED vars /\ answers' = Without(answers, S)
      BY <1>2 DEF FetchFails
    <2>. QED BY <2>1, SameAnswers, OffChain DEF SeenInv, CacheTyped, JobsTyped
  <1>3. CASE Others
    <2>1. UNCHANGED <<cache, answers, jobs>> /\ OthersCall
      BY <1>3 DEF Others, data
    <2>2. ContractInv' /\ PaymentsTyped' /\ LedgerTyped'
      BY <2>1, OthersContract, OthersTyped, OthersLedger DEF SeenInv
    <2>. QED BY <2>1, <2>2 DEF SeenInv, CacheTyped, AnswersTyped, JobsTyped
  <1>4. ASSUME NEW d \in downloads, Decrypted(d) \/ DownloadFails(d) PROVE SeenInv'
    BY <1>1, <1>4 DEF Decrypted, DownloadFails, data
  <1>5. ASSUME NEW k \in Fields, handleDownload(k) PROVE SeenInv'
    BY <1>1, <1>5 DEF handleDownload
  <1>6. CASE Focus \/ FetchIds \/ SessionChanges
    BY <1>1, <1>6 DEF Focus, FetchIds, SessionChanges, data
  <1>7. CASE flushRequestQueue \/ getDynamicFields
    BY <1>7, ReadingSeen DEF flushRequestQueue, getDynamicFields
  <1>8. CASE UNCHANGED allVars
    BY <1>1, <1>8 DEF allVars, cardVars, data, vars
  <1>9. CASE CardNext
    BY <1>9, <1>2, <1>3, <1>4, <1>5, <1>6, <1>7, LandSeen, StartSeen, JobSeen
       DEF CardNext, handleRemovePayment, handlePay, handlePublish, handleDestroy,
           handleWithdraw, Kinds
  <1>. QED BY <1>8, <1>9

-----------------------------------------------------------------------------
\* What current data offers goes through.
LEMMA OfferedHere == SeenInv => OfferedSucceeds
PROOF
  <1>. SUFFICES ASSUME SeenInv, Current, NEW kind \in Kinds, Offered(kind)
                PROVE  Executes(kind, finding.payments)
    BY DEF OfferedSucceeds
  <1>. DEFINE seen == finding.payments
  <1>1. /\ cache["outer"] = Read("outer") /\ cache["inner"] = Read("inner")
        /\ cache["fields"] = Read("fields")
        /\ Given(cache["outer"]) /\ Given(cache["inner"]) /\ cache["fields"] # Missing
    BY DEF Current, Visible, Loaded, LoadedIn, Enabled, EnabledIn, Entries
  <1>2. Shown \in Live
    BY <1>1, CardAssumption DEF Read, Given
  <1>3. /\ cache["inner"] = [inner[Shown] EXCEPT !.payments = NoPayments]
        /\ cache["fields"] = Contained(Shown)
    BY <1>1, <1>2, CardAssumption DEF Read
  <1>4. /\ finding.fields = cache["inner"]
        /\ seen = [c \in Contained(Shown) |-> cache[c]]
    BY <1>3 DEF finding
  <1>5. ASSUME NEW c \in Contained(Shown) PROVE seen[c] = Entry(c) /\ c \in Coins
    <2>1. c \in Coins /\ Entry(c) # None
      BY DEF Contained, Entry
    <2>2. Enabled(c) /\ c \in Entries
      BY <1>1, <1>3, <2>1 DEF Enabled, EnabledIn, Entries
    <2>3. cache[c] = Read(c)
      BY <2>2 DEF Current
    <2>. QED BY <1>4, <2>1, <2>3 DEF Read, Entry
  <1>6. /\ finding.fields.error_message_blob = inner[Shown].error_message_blob
        /\ finding.fields.public_report_blob = inner[Shown].public_report_blob
        /\ finding.fields.is_published = inner[Shown].is_published
    BY <1>3, <1>4 DEF SeenInv, ContractInv, FieldNames
  <1>7. DOMAIN seen = Contained(Shown)
    BY <1>4
  <1>8. CASE kind = "pay"
    <2>1. ASSUME NEW c \in Touched(kind, seen)
          PROVE  Held(Shown, c) + Amounts(seen)[c] <= MAX_U64
      <3>1. c \in Contained(Shown) /\ Unpaid(seen[c])
        BY <1>7, <1>8, <2>1 DEF Touched
      <3>2. Entry(c) \in PaymentV1 /\ Entry(c) # None
        BY <3>1, <1>5, EntryType DEF SeenInv, Contained, Entry
      <3>3. Amounts(seen)[c] = Entry(c).requested - Entry(c).paid
        BY <1>5, <1>8, <3>1 DEF Amounts
      <3>4. Held(Shown, c) = Entry(c).paid
        BY <3>2 DEF Held, Paid, Entry
      <3>. QED BY <3>2, <3>3, <3>4, FindingAssumption DEF PaymentV1
    <2>. QED BY <1>2, <1>8, <2>1 DEF Executes
  <1>9. CASE kind = "withdraw"
    BY <1>2, <1>7, <1>9 DEF Executes, Touched
  <1>10. CASE kind = "remove"
    BY <1>2, <1>6, <1>10 DEF Executes, Offered, RemoveOffered, is_published, status_v1
  <1>11. CASE kind = "destroy"
    BY <1>2, <1>6, <1>7, <1>11 DEF Executes, Offered, DestroyOffered, is_published, status_v1
  <1>12. CASE kind = "publish"
    BY <1>2, <1>6, <1>12
       DEF Executes, Offered, PublishOffered, is_committed, status_v1, SeenInv, ContractInv,
           PublishedInv
  <1>. QED BY <1>8, <1>9, <1>10, <1>11, <1>12 DEF Kinds

\* An enabled button sends a transaction that goes through, as long as the card
\* shows what the chain has (FindingCard.tsx against finding.move).
THEOREM OfferedTheorem == CardSpec => []OfferedSucceeds
PROOF
  <1>1. CardInit => SeenInv BY InitSeen
  <1>2. SeenInv /\ [CardNext]_allVars => SeenInv' BY NextSeen
  <1>. QED BY <1>1, <1>2, OfferedHere, PTL DEF CardSpec

-----------------------------------------------------------------------------
LEMMA PaysWhatIsOwed ==
  ASSUME SeenInv, NEW job \in jobs, job.kind = "pay", UpToDate(job), Execute(job), NEW c \in Coins
  PROVE  /\ Owed(Shown, c)' = 0
         /\ ledger'[Shown].received[c] = ledger[Shown].received[c] + Owed(Shown, c)
PROOF
  <1>. DEFINE T == Touched("pay", job.seen)
             old == Entry(c)
             new == inner'[Shown].payments[c]
  <1>1. JobTyped(job)
    BY DEF SeenInv, JobsTyped
  <1>2. Pays(job.seen) /\ Executes(job.kind, job.seen)
    BY DEF Execute, Effect
  <1>3. Owed(Shown, c)' = Due(new) /\ Owed(Shown, c) = Due(old)
    BY DEF Owed, Entry
  <1>4. ledger[Shown].received[c] \in Int
    BY DEF SeenInv, LedgerTyped
  <1>5. old \in Option(PaymentV1)
    BY EntryType DEF SeenInv
  <1>6. CASE c \in T
    <2>1. c \in DOMAIN job.seen /\ Unpaid(job.seen[c])
      BY <1>6 DEF Touched
    <2>2. old = job.seen[c] /\ old \in PaymentV1 /\ old # None
      <3>1. old = job.seen[c] /\ job.seen[c] \in PaymentV1
        BY <1>1, <2>1 DEF UpToDate, Unpaid, JobTyped, Seen, Given
      <3>. QED BY <3>1, FindingAssumption DEF PaymentV1
    <2>3. /\ Amounts(job.seen)[c] = old.requested - old.paid
          /\ new = PaidUp(c, Amounts(job.seen)[c])
      BY <1>1, <1>2, <1>6, <2>2, PaysEntries DEF SeenInv
    <2>4. new = [old EXCEPT !.paid = @ + (old.requested - old.paid)]
      BY <2>2, <2>3 DEF PaidUp
    <2>5. new.paid = old.requested /\ new.requested = old.requested
      BY <2>2, <2>4 DEF PaymentV1
    <2>6. Due(new) = 0
      BY <2>2, <2>5 DEF Due, Settled, PaymentV1
    <2>7. Due(old) = old.requested - old.paid
      BY <2>1, <2>2 DEF Due, Settled, Unpaid, PaymentV1
    <2>8. ledger'[Shown].received[c] = ledger[Shown].received[c] + Amounts(job.seen)[c]
      BY <1>1, <1>2, <1>6, PaysLedger DEF SeenInv
    <2>. QED BY <1>3, <2>3, <2>6, <2>7, <2>8
  <1>7. CASE c \notin T
    <2>1. new = old
      BY <1>1, <1>2, <1>7, PaysEntries DEF SeenInv
    <2>2. Due(old) = 0
      <3>1. CASE old = None
        BY <3>1 DEF Due
      <3>2. CASE old # None
        <4>1. c \in DOMAIN job.seen /\ old = job.seen[c] /\ Given(old)
          BY <3>2 DEF UpToDate
        <4>2. ~(old.requested > old.paid)
          BY <1>7, <4>1 DEF Touched, Unpaid
        <4>. QED BY <1>5, <3>2, <4>2, FindingAssumption DEF Due, Settled, Option, PaymentV1
      <3>. QED BY <3>1, <3>2
    <2>3. ledger'[Shown].received[c] = ledger[Shown].received[c] + 0
      BY <1>1, <1>2, <1>7, PaysLedger DEF SeenInv
    <2>. QED BY <1>3, <1>4, <2>1, <2>2, <2>3
  <1>. QED BY <1>6, <1>7

\* A payment made of current data settles every coin and takes what was owed of
\* it, no more (payFinding.ts, FindingContract.pay and finding.move, pay).
THEOREM PaysTheorem == CardSpec => PaysExactly
PROOF
  <1>1. CardInit => SeenInv BY InitSeen
  <1>2. SeenInv /\ [CardNext]_allVars => SeenInv' BY NextSeen
  <1>3. SeenInv /\ [CardNext]_allVars =>
          [\A job \in jobs : (job.kind = "pay" /\ UpToDate(job) /\ Execute(job)) =>
             \A c \in Coins :
               /\ Owed(Shown, c)' = 0
               /\ ledger'[Shown].received[c] = ledger[Shown].received[c] + Owed(Shown, c)]_allVars
    BY PaysWhatIsOwed
  <1>. QED BY <1>1, <1>2, <1>3, PTL DEF CardSpec, PaysExactly

-----------------------------------------------------------------------------
(* What the user's transactions changed is shown, or will be *)

\* The end of a job will fetch entry e anew, or forget it, or take down the card
\* of a finding that is gone.
Forgets(job, e) ==
  \/ job.stage = "executed" /\ e \in Outdated(job)
  \/ /\ job.stage \in {"executed", "timer"} /\ job.kind = "remove"
     /\ (e = "fields" \/ e \in DOMAIN job.seen)
  \/ job.stage \in {"executed", "timer"} /\ job.kind = "destroy" /\ Shown \notin Live

Pending(e) == \E job \in jobs : Forgets(job, e)

\* The client knows that the finding is gone, or will know with the next answer:
\* no query but that of the outer object will be enabled again.
OuterDead == /\ Shown \notin Live /\ ~Given(cache["outer"])
             /\ "outer" \in DOMAIN answers => ~Given(answers["outer"])

Pardoned(e) == e \in overtaken \/ Pending(e) \/ (e # "outer" /\ OuterDead)

Coming(e) == e \in asked \cup DOMAIN answers

\* An answer under way is not out of date, and what is shown and out of date is
\* being fetched.
AnswersInv == \A e \in Entries \cap DOMAIN answers : answers[e] = Read(e) \/ Pardoned(e)

CacheInv ==
  listed => \A e \in Entries :
    Enabled(e) /\ cache[e] # Read(e) => Coming(e) \/ Pardoned(e)

\* The owner of the bounty never changes, but the empty list that RemoveTimer
\* puts in the cache enables the query without asking.
BountyInv ==
  /\ "bounty" \in DOMAIN answers => answers["bounty"] = Sponsor
  /\ (Enabled("bounty") \/ jobs # {}) =>
       cache["bounty"] = Sponsor \/ Coming("bounty") \/ "bounty" \in overtaken

ShownInv == AnswersInv /\ CacheInv /\ BountyInv

LEMMA ShownSuffices == ShownInv => OwnChangesShown
PROOF
  <1>. SUFFICES ASSUME ShownInv, listed, asked = {}, DOMAIN answers = {}, jobs = {},
                       NEW e \in Entries, Enabled(e), cache[e] # Read(e)
                PROVE  e \in overtaken
    BY DEF OwnChangesShown
  <1>1. Pardoned(e)
    BY DEF ShownInv, CacheInv, Coming
  <1>2. ~Pending(e)
    BY DEF Pending
  <1>3. ~(e # "outer" /\ OuterDead)
    BY DEF OuterDead, Enabled, EnabledIn, LoadedIn
  <1>. QED BY <1>1, <1>2, <1>3 DEF Pardoned

LEMMA ReadIsNext ==
  ASSUME NEW e \in Entries
  PROVE  /\ e \in Coins => Read(e)' = IF Entry(e)' = None THEN Gone ELSE Entry(e)'
         /\ e = "fields" => Read(e)' = Contained(Shown)'
         /\ e = "bounty" => Read(e)' = Sponsor
         /\ e = "outer" => Read(e)' = IF Shown \in Live' THEN Shown ELSE Gone
         /\ e = "cap" => Read(e)' = IF Shown \in Live' THEN Finder ELSE Gone
PROOF BY CardAssumption DEF Read, Entry

\* What the node answers depends on the contract only.
LEMMA ReadSame ==
  ASSUME UNCHANGED vars, NEW e \in Entries
  PROVE  Read(e)' = Read(e)
PROOF
  <1>1. UNCHANGED <<inner, object>> /\ Live' = Live /\ Contained(Shown)' = Contained(Shown)
    BY DEF vars, Live, Contained
  <1>2. CASE e \in Coins
    BY <1>1, <1>2, ReadIs, ReadIsNext DEF Entry
  <1>3. CASE e \in {"fields", "bounty", "outer", "cap"}
    BY <1>1, <1>3, ReadIs, ReadIsNext
  <1>4. CASE e = "inner"
    <2>1. /\ Read(e) = IF Shown \in Live THEN [inner[Shown] EXCEPT !.payments = NoPayments] ELSE Gone
          /\ Read(e)' = IF Shown \in Live' THEN [inner'[Shown] EXCEPT !.payments = NoPayments] ELSE Gone
      BY <1>4, CardAssumption, Zenon DEF Read
    <2>. QED BY <1>1, <2>1
  <1>. QED BY <1>2, <1>3, <1>4 DEF Entries

LEMMA EnabledSame ==
  ASSUME UNCHANGED cache, NEW e
  PROVE  Enabled(e)' <=> Enabled(e)
PROOF BY DEF Enabled

\* A step off the chain that keeps every job that forgets.
LEMMA PendingStays ==
  ASSUME UNCHANGED vars, NEW e,
         \A job \in jobs : Forgets(job, e) => \E j \in jobs' : Forgets(j, e)
  PROVE  Pending(e) => Pending(e)'
PROOF
  <1>1. Live' = Live
    BY DEF vars, Live
  <1>2. \A j : Forgets(j, e)' <=> Forgets(j, e)
    BY <1>1 DEF Forgets
  <1>. QED BY <1>2 DEF Pending

\* A step that leaves the chain, the cache and the answers as they are.
LEMMA ShownFrame ==
  ASSUME ShownInv, UNCHANGED vars, UNCHANGED <<cache, answers, listed>>,
         overtaken \subseteq overtaken', asked \subseteq asked',
         \A e \in Entries : Pending(e) => Pending(e)'
  PROVE  AnswersInv' /\ CacheInv'
PROOF
  <1>1. OuterDead => OuterDead'
    BY DEF OuterDead, vars, Live
  <1>2. \A e \in Entries : Pardoned(e) => Pardoned(e)'
    BY <1>1 DEF Pardoned
  <1>3. \A e \in Entries : Read(e)' = Read(e)
    BY ReadSame
  <1>4. AnswersInv'
    BY <1>2, <1>3 DEF ShownInv, AnswersInv
  <1>5. \A e \in Entries : Coming(e) => Coming(e)'
    BY DEF Coming
  <1>6. CacheInv'
    BY <1>2, <1>3, <1>5, EnabledSame DEF ShownInv, CacheInv
  <1>. QED BY <1>4, <1>6

\* The query of the bounty's owner is not disturbed.
LEMMA BountyFrame ==
  ASSUME ShownInv, UNCHANGED cache,
         "bounty" \in DOMAIN answers' => "bounty" \in DOMAIN answers /\ answers'["bounty"] = answers["bounty"],
         Coming("bounty") => Coming("bounty")' \/ "bounty" \in overtaken',
         overtaken \subseteq overtaken',
         Enabled("bounty")' \/ jobs' # {} => Enabled("bounty") \/ jobs # {}
  PROVE  BountyInv'
PROOF BY DEF ShownInv, BountyInv

\* All is pardoned after a change that is not the user's.
LEMMA AllPardoned ==
  ASSUME ShownInv, overtaken' = Entries, UNCHANGED <<cache, answers, asked>>,
         Enabled("bounty")' \/ jobs' # {} => Enabled("bounty") \/ jobs # {}
  PROVE  ShownInv'
PROOF
  <1>1. \A e \in Entries : Pardoned(e)'
    BY DEF Pardoned
  <1>2. AnswersInv' /\ CacheInv'
    BY <1>1 DEF AnswersInv, CacheInv
  <1>3. BountyInv'
    BY DEF ShownInv, BountyInv, Entries, Coming
  <1>. QED BY <1>2, <1>3 DEF ShownInv

\* A transaction that is not executed yet has nothing to forget.
LEMMA EarlyStep ==
  ASSUME ShownInv, SeenInv, NEW job \in jobs, job.stage \in {"built", "signed"},
         NEW stage, Step(job, stage) \/ Done(job), UNCHANGED vars, UNCHANGED data,
         UNCHANGED overtaken
  PROVE  ShownInv'
PROOF
  <1>1. \A e : ~Forgets(job, e)
    BY DEF Forgets
  <1>2. \A j \in jobs : j # job => j \in jobs'
    BY DEF Step, Done
  <1>3. \A e \in Entries : Pending(e) => Pending(e)'
    BY <1>1, <1>2, PendingStays
  <1>4. UNCHANGED <<cache, answers, listed, asked>>
    BY DEF data
  <1>5. BountyInv'
    BY <1>4, EnabledSame DEF ShownInv, BountyInv, Coming
  <1>. QED BY <1>3, <1>4, <1>5, ShownFrame DEF ShownInv

\* A job with its stage set is otherwise the same.
LEMMA StagedJob ==
  ASSUME NEW job, JobTyped(job), NEW stage
  PROVE  LET new == [job EXCEPT !.stage = stage]
         IN  new.stage = stage /\ new.kind = job.kind /\ new.seen = job.seen
PROOF BY DEF JobTyped

\* What the end of a job fetches anew.
LEMMA OutdatedIs ==
  ASSUME NEW job
  PROVE  /\ job.kind = "pay" => Outdated(job) = {"inner"} \cup Touched("pay", job.seen)
         /\ job.kind = "publish" => Outdated(job) = {"inner"}
         /\ job.kind = "withdraw" => Outdated(job) = {"inner", "fields"} \cup Touched("withdraw", job.seen)
         /\ job.kind = "remove" => Outdated(job) = {"inner"}
PROOF
  <1>1. job.kind = "pay" => Outdated(job) = {"inner"} \cup Touched("pay", job.seen)
    BY Zenon DEF Outdated, payFinding_onSuccess
  <1>2. job.kind = "publish" => Outdated(job) = {"inner"}
    BY Zenon DEF Outdated, publishFinding_onSuccess
  <1>3. job.kind = "withdraw" => Outdated(job) = {"inner", "fields"} \cup Touched("withdraw", job.seen)
    BY Zenon DEF Outdated, withdrawFinding_onSuccess
  <1>4. job.kind = "remove" => Outdated(job) = {"inner"}
    BY Zenon DEF Outdated, removePayment_onSuccess
  <1>. QED BY <1>1, <1>2, <1>3, <1>4

\* A call that leaves the finding there, and the payments but for those of the
\* coins C: only they, the list of payments and the inner object may read otherwise.
LEMMA ReadBut ==
  ASSUME UNCHANGED object, NEW C, \A c \in Coins \ C : Entry(c)' = Entry(c), NEW e \in Entries
  PROVE  Read(e)' = Read(e) \/ e \in C \/ e \in {"inner", "fields"}
PROOF
  <1>1. Live' = Live
    BY DEF Live
  <1>2. CASE e \in Coins
    BY <1>2, ReadIs, ReadIsNext
  <1>3. CASE e \in {"bounty", "outer", "cap"}
    BY <1>1, <1>3, ReadIs, ReadIsNext
  <1>. QED BY <1>2, <1>3 DEF Entries

\* A transaction made of current data changes nothing but what its end fetches
\* anew or forgets.
LEMMA EffectRead ==
  ASSUME SeenInv, DOMAIN object = Findings, NEW job \in jobs, Execute(job), UpToDate(job),
         NEW e \in Entries
  PROVE  Read(e)' = Read(e) \/ Pending(e)'
PROOF
  <1>. DEFINE new == [job EXCEPT !.stage = "executed"]
  <1>1. JobTyped(job)
    BY DEF SeenInv, JobsTyped
  <1>2. new \in jobs' /\ new.stage = "executed" /\ new.kind = job.kind /\ new.seen = job.seen
    BY <1>1, StagedJob DEF Execute, Step
  <1>3. Effect(job.kind, job.seen) /\ Executes(job.kind, job.seen)
    BY DEF Execute
  <1>. HIDE DEF new
  <1>4. ASSUME Forgets(new, e)' PROVE Pending(e)'
    BY <1>2, <1>4 DEF Pending
  <1>5. e \in Outdated(new) => Pending(e)'
    BY <1>2, <1>4 DEF Forgets
  <1>6. CASE job.kind = "pay"
    <2>. DEFINE T == Touched("pay", job.seen)
    <2>1. Pays(job.seen)
      BY <1>3, <1>6 DEF Effect
    <2>2. \A c \in Coins \ T : Entry(c)' = Entry(c)
      BY <1>1, <1>3, <1>6, <2>1, PaysEntries DEF SeenInv, Entry
    <2>3. ASSUME NEW c \in Coins \cap T PROVE Entry(c) # None /\ Entry(c)' # None
      <3>1. c \in DOMAIN job.seen /\ Unpaid(job.seen[c])
        BY <2>3 DEF Touched
      <3>2. Entry(c) = job.seen[c] /\ job.seen[c] \in PaymentV1
        BY <1>1, <3>1 DEF UpToDate, Unpaid, JobTyped, Seen, Given
      <3>3. Entry(c) \in PaymentV1 /\ Entry(c) # None
        BY <3>2, FindingAssumption DEF PaymentV1
      <3>4. Entry(c)' = PaidUp(c, Amounts(job.seen)[c])
        BY <1>1, <1>3, <1>6, <2>1, <2>3, PaysEntries DEF SeenInv, Entry
      <3>5. Amounts(job.seen)[c] = Entry(c).requested - Entry(c).paid
        BY <1>1, <1>3, <1>6, <2>1, <2>3, <3>2, PaysEntries DEF SeenInv
      <3>6. Entry(c)' = [Entry(c) EXCEPT !.paid = @ + (Entry(c).requested - Entry(c).paid)]
        BY <3>3, <3>4, <3>5 DEF PaidUp
      <3>7. Entry(c)' \in PaymentV1
        BY <3>3, <3>6, FindingAssumption DEF PaymentV1
      <3>. QED BY <3>3, <3>7, FindingAssumption DEF PaymentV1
    <2>4. Contained(Shown)' = Contained(Shown)
      BY <2>2, <2>3 DEF Contained, Entry
    <2>5. e = "fields" => Read(e)' = Read(e)
      BY <2>4, ReadIs, ReadIsNext
    <2>6. Read(e)' = Read(e) \/ e \in T \/ e \in {"inner", "fields"}
      BY <2>1, <2>2, ReadBut DEF Pays
    <2>. QED BY <1>2, <1>5, <1>6, <2>5, <2>6, OutdatedIs
  <1>7. CASE job.kind = "withdraw"
    <2>. DEFINE T == Touched("withdraw", job.seen)
               put == [c \in T |-> TakenOut(c)]
    <2>1. Replace(put) /\ UNCHANGED object
      BY <1>3, <1>7 DEF Effect, Withdraws
    <2>2. ASSUME NEW c \in T \cap Coins PROVE TakenOut(c) \in Option(PaymentV1)
      BY EntryType, FindingAssumption DEF TakenOut, Option, PaymentV1, SeenInv
    <2>3. DOMAIN put = T /\ \A c \in DOMAIN put \cap Coins : put[c] \in Option(PaymentV1)
      BY <2>2
    <2>. HIDE DEF put, T
    <2>4. \A c \in Coins \ T : Entry(c)' = Entry(c)
      <3>1. inner'[Shown].payments = [c \in Coins |-> IF c \in DOMAIN put THEN put[c] ELSE Entry(c)]
        BY <2>1, <2>3, ReplaceTyped DEF SeenInv
      <3>. QED BY <2>3, <3>1 DEF Entry
    <2>5. Read(e)' = Read(e) \/ e \in T \/ e \in {"inner", "fields"}
      BY <2>1, <2>4, ReadBut
    <2>. QED BY <1>2, <1>5, <1>7, <2>5, OutdatedIs DEF T
  <1>8. CASE job.kind = "remove"
    <2>. DEFINE p == [c \in Coins |-> IF c \in DOMAIN job.seen THEN None ELSE Entry(c)]
    <2>1. inner' = [inner EXCEPT ![Shown].payments = p] /\ UNCHANGED object
      BY <1>3, <1>8 DEF Effect, Clears
    <2>2. \A c \in Coins \ DOMAIN job.seen : p[c] = Entry(c)
      OBVIOUS
    <2>. HIDE DEF p
    <2>3. \A c \in Coins \ DOMAIN job.seen : Entry(c)' = Entry(c)
      BY <2>1, <2>2, CardAssumption DEF SeenInv, ContractInv, FieldNames, Entry
    <2>4. Read(e)' = Read(e) \/ e \in DOMAIN job.seen \/ e \in {"inner", "fields"}
      BY <2>1, <2>3, ReadBut
    <2>5. e \in DOMAIN job.seen \/ e = "fields" => Pending(e)'
      BY <1>2, <1>4, <1>8 DEF Forgets
    <2>. QED BY <1>2, <1>5, <1>8, <2>4, <2>5, OutdatedIs
  <1>9. CASE job.kind = "destroy"
    <2>1. object'[Shown] # "live"
      BY <1>3, <1>9, EffectGoes
    <2>2. Shown \notin Live'
      BY <2>1 DEF Live
    <2>. QED BY <1>2, <1>4, <1>9, <2>2 DEF Forgets
  <1>10. CASE job.kind = "publish"
    <2>1. publish(Shown, Shown)
      BY <1>3, <1>10 DEF Effect
    <2>2. inner'[Shown].payments = inner[Shown].payments /\ UNCHANGED object
      BY <2>1, CardAssumption DEF publish, SeenInv, ContractInv, FieldNames
    <2>3. \A c \in Coins \ {} : Entry(c)' = Entry(c)
      BY <2>2 DEF Entry
    <2>4. Read(e)' = Read(e) \/ e \in {} \/ e \in {"inner", "fields"}
      BY <2>2, <2>3, ReadBut
    <2>5. e = "fields" => Read(e)' = Read(e)
      BY <2>2, ReadIs, ReadIsNext DEF Contained
    <2>. QED BY <1>2, <1>5, <1>10, <2>4, <2>5, OutdatedIs
  <1>. QED BY <1>3, <1>6, <1>7, <1>8, <1>9, <1>10 DEF Effect

\* A step that changes nothing but what waits to be fetched.
LEMMA QuietStep ==
  ASSUME ShownInv, UNCHANGED vars, UNCHANGED <<cache, answers, listed, jobs, overtaken>>,
         asked \subseteq asked'
  PROVE  ShownInv'
PROOF
  <1>1. \A e \in Entries : Pending(e) => Pending(e)'
    BY PendingStays
  <1>2. AnswersInv' /\ CacheInv'
    BY <1>1, ShownFrame
  <1>3. BountyInv'
    BY EnabledSame, BountyFrame DEF Coming
  <1>. QED BY <1>2, <1>3 DEF ShownInv

LEMMA StartShown == ASSUME ShownInv, NEW kind \in Kinds, Start(kind) PROVE ShownInv'
PROOF
  <1>1. /\ UNCHANGED <<cache, answers, listed, overtaken>> /\ UNCHANGED vars
        /\ asked \subseteq asked' /\ jobs \subseteq jobs'
    BY DEF Start, Ask
  <1>2. \A e \in Entries : Pending(e) => Pending(e)'
    BY <1>1, PendingStays
  <1>3. AnswersInv' /\ CacheInv'
    BY <1>1, <1>2, ShownFrame
  <1>4. Enabled("bounty")
    BY OfferedVisible DEF Start, Visible, Loaded, Enabled, EnabledIn
  <1>5. BountyInv'
    BY <1>1, <1>4, BountyFrame DEF Coming
  <1>. QED BY <1>3, <1>5 DEF ShownInv

LEMMA ExecuteShown ==
  ASSUME ShownInv, SeenInv, DOMAIN object = Findings, NEW job \in jobs, Execute(job)
  PROVE  ShownInv'
PROOF
  <1>1. /\ UNCHANGED <<cache, answers, asked, listed>>
        /\ overtaken' = IF UpToDate(job) THEN overtaken ELSE Entries
        /\ job.stage = "signed" /\ Step(job, "executed") /\ Shown \in Live
    BY DEF Execute, data, Executes
  <1>2. CASE ~UpToDate(job)
    BY <1>1, <1>2, AllPardoned
  <1>3. CASE UpToDate(job)
    <2>1. ASSUME NEW e \in Entries, Pardoned(e) PROVE Pardoned(e)'
      <3>1. CASE e \in overtaken
        BY <1>1, <1>3, <3>1 DEF Pardoned
      <3>2. CASE Pending(e)
        <4>1. PICK j \in jobs : Forgets(j, e)
          BY <3>2 DEF Pending
        <4>2. j # job /\ j \in jobs'
          BY <1>1, <4>1 DEF Forgets, Step
        <4>3. Forgets(j, e)'
          BY <1>1, <4>1 DEF Forgets
        <4>. QED BY <4>2, <4>3 DEF Pending, Pardoned
      <3>. QED BY <1>1, <2>1, <3>1, <3>2 DEF Pardoned, OuterDead
    <2>2. \A e \in Entries : Read(e)' = Read(e) \/ Pardoned(e)'
      BY <1>3, EffectRead DEF Pardoned
    <2>3. AnswersInv'
      BY <1>1, <2>1, <2>2 DEF ShownInv, AnswersInv
    <2>4. CacheInv'
      BY <1>1, <2>1, <2>2, EnabledSame DEF ShownInv, CacheInv, Coming
    <2>5. BountyInv'
      BY <1>1, <1>3, BountyFrame DEF Coming
    <2>. QED BY <2>3, <2>4, <2>5 DEF ShownInv
  <1>. QED BY <1>2, <1>3

LEMMA SettleShown ==
  ASSUME ShownInv, SeenInv, NEW job \in jobs, Settle(job) PROVE ShownInv'
PROOF
  <1>. DEFINE O == Outdated(job)
              R == Refetched(O)
  <1>1. /\ UNCHANGED vars /\ UNCHANGED <<cache, listed>>
        /\ asked' = asked \cup R /\ answers' = Without(answers, R)
        /\ overtaken' = overtaken \cup Passed(O)
        /\ job.stage = "executed"
        /\ IF job.kind \in {"remove", "destroy"} THEN Step(job, "timer") ELSE Done(job)
    BY DEF Settle, invalidateQueries, Ask
  <1>2. /\ R \subseteq O /\ Passed(O) = (O \cap DOMAIN answers) \ R
        /\ \A e \in O : Enabled(e) /\ (cache[e] # Missing \/ Idle(e)) => e \in R
    BY DEF Refetched, Passed
  <1>3. Live' = Live /\ \A e \in Entries : Read(e)' = Read(e)
    BY <1>1, ReadSame DEF vars, Live
  <1>. HIDE DEF R
  <1>4. DOMAIN answers' = DOMAIN answers \ R /\ \A e \in DOMAIN answers' : answers'[e] = answers[e]
    BY <1>1 DEF Without
  <1>5. ASSUME NEW e \in Entries, Pending(e), e \notin O PROVE Pending(e)'
    <2>1. PICK j \in jobs : Forgets(j, e)
      BY <1>5 DEF Pending
    <2>2. CASE j # job
      BY <1>1, <1>3, <2>1, <2>2 DEF Pending, Forgets, Step, Done
    <2>3. CASE j = job
      <3>. DEFINE new == [job EXCEPT !.stage = "timer"]
      <3>1. job.kind \in {"remove", "destroy"}
        BY <1>5, <2>1, <2>3 DEF Forgets
      <3>2. new.stage = "timer" /\ new.kind = job.kind /\ new.seen = job.seen /\ new \in jobs'
        BY <1>1, <3>1, StagedJob DEF SeenInv, JobsTyped, Step
      <3>. HIDE DEF new
      <3>3. Forgets(new, e)'
        BY <1>3, <1>5, <2>1, <2>3, <3>2 DEF Forgets
      <3>. QED BY <3>2, <3>3 DEF Pending
    <2>. QED BY <2>2, <2>3
  <1>6. OuterDead => OuterDead'
    BY <1>1, <1>3, <1>4 DEF OuterDead
  <1>7. \A e \in Entries : Pardoned(e) => Pardoned(e)' \/ e \in O
    BY <1>1, <1>5, <1>6 DEF Pardoned
  <1>8. AnswersInv'
    <2>1. ASSUME NEW e \in Entries \cap DOMAIN answers' PROVE answers'[e] = Read(e)' \/ Pardoned(e)'
      <3>1. answers[e] = Read(e) \/ Pardoned(e)
        BY <1>4 DEF ShownInv, AnswersInv
      <3>2. e \in O => e \in overtaken'
        BY <1>1, <1>2, <1>4
      <3>. QED BY <1>3, <1>4, <1>7, <3>1, <3>2 DEF Pardoned
    <2>. QED BY <2>1 DEF AnswersInv
  <1>9. \A e : Coming(e) => Coming(e)'
    BY <1>1, <1>4 DEF Coming
  <1>10. CacheInv'
    <2>1. ASSUME listed', NEW e \in Entries, Enabled(e)', cache'[e] # Read(e)'
          PROVE  Coming(e)' \/ Pardoned(e)'
      <3>1. Enabled(e) /\ (Coming(e) \/ Pardoned(e))
        BY <1>1, <1>3, <2>1, EnabledSame DEF ShownInv, CacheInv
      <3>2. CASE e \in O
        BY <1>1, <1>2, <1>9, <3>1, <3>2 DEF Coming, Idle
      <3>. QED BY <1>7, <1>9, <3>1, <3>2
    <2>. QED BY <2>1 DEF CacheInv
  <1>11. BountyInv'
    BY <1>1, <1>4, <1>9, BountyFrame
  <1>. QED BY <1>8, <1>10, <1>11 DEF ShownInv

LEMMA RemoveShown ==
  ASSUME ShownInv, SeenInv, NEW job \in jobs, RemoveTimer(job) PROVE ShownInv'
PROOF
  <1>. DEFINE S == DOMAIN job.seen
              new == [cache EXCEPT !["fields"] = {}]
  <1>1. /\ UNCHANGED vars /\ UNCHANGED listed
        /\ cache' = [e \in Entries |-> IF e \in S THEN Missing ELSE new[e]]
        /\ asked' = asked \ S /\ answers' = Without(answers, S)
        /\ overtaken \subseteq overtaken'
        /\ Contained(Shown) # {} \/ "fields" \in DOMAIN answers => "fields" \in overtaken'
        /\ job.stage = "timer" /\ job.kind = "remove" /\ Done(job)
    BY DEF RemoveTimer, removeQueries
  <1>2. S \subseteq Coins /\ Coins \cap {"outer", "inner", "cap", "fields", "bounty"} = {}
    BY CardAssumption DEF SeenInv, JobsTyped, JobTyped
  <1>3. new["fields"] = {} /\ \A e \in Entries : e # "fields" => new[e] = cache[e]
    BY DEF SeenInv, CacheTyped, Entries
  <1>. HIDE DEF S, new
  <1>4. /\ cache'["fields"] = {}
        /\ \A e \in Entries : e # "fields" /\ e \notin S => cache'[e] = cache[e]
    BY <1>1, <1>2, <1>3 DEF Entries
  <1>5. DOMAIN answers' = DOMAIN answers \ S /\ \A e \in DOMAIN answers' : answers'[e] = answers[e]
    BY <1>1 DEF Without
  <1>6. Live' = Live /\ \A e \in Entries : Read(e)' = Read(e)
    BY <1>1, ReadSame DEF vars, Live
  <1>7. OuterDead => OuterDead'
    BY <1>2, <1>4, <1>5, <1>6 DEF OuterDead, Entries
  <1>8. ASSUME NEW e \in Entries, e # "fields", e \notin S, Pending(e) PROVE Pending(e)'
    <2>1. PICK j \in jobs : Forgets(j, e)
      BY <1>8 DEF Pending
    <2>2. j # job
      BY <1>1, <1>8, <2>1 DEF Forgets, S
    <2>. QED BY <1>1, <1>6, <2>1, <2>2 DEF Pending, Forgets, Done
  <1>9. \A e \in Entries \ S : e # "fields" /\ Pardoned(e) => Pardoned(e)'
    BY <1>1, <1>7, <1>8 DEF Pardoned
  <1>10. AnswersInv'
    <2>1. ASSUME NEW e \in Entries \cap DOMAIN answers' PROVE answers'[e] = Read(e)' \/ Pardoned(e)'
      <3>1. CASE e = "fields"
        BY <1>1, <1>5, <3>1 DEF Pardoned
      <3>2. CASE e # "fields"
        BY <1>5, <1>6, <1>9, <3>2 DEF ShownInv, AnswersInv
      <3>. QED BY <3>1, <3>2
    <2>. QED BY <2>1 DEF AnswersInv
  <1>11. \A e : e \notin S /\ Coming(e) => Coming(e)'
    BY <1>1, <1>5 DEF Coming
  <1>12. BountyInv'
    <2>1. cache'["bounty"] = cache["bounty"] /\ "bounty" \notin S
      BY <1>2, <1>4 DEF Entries
    <2>. QED BY <1>1, <1>5, <1>11, <2>1 DEF ShownInv, BountyInv
  <1>13. CacheInv'
    <2>1. ASSUME listed', NEW e \in Entries, Enabled(e)', cache'[e] # Read(e)'
          PROVE  Coming(e)' \/ Pardoned(e)'
      <3>1. CASE e = "fields"
        <4>1. Read(e)' = Contained(Shown)
          BY <1>6, <3>1, ReadIs
        <4>. QED BY <1>1, <1>4, <2>1, <3>1, <4>1 DEF Pardoned
      <3>2. CASE e = "bounty"
        BY <1>12, <2>1, <3>2, ReadIsNext DEF BountyInv, Pardoned
      <3>3. CASE e \in Coins
        BY <1>2, <1>4, <2>1, <3>3 DEF Enabled, EnabledIn
      <3>4. CASE e \in {"outer", "inner", "cap"}
        <4>1. e \notin S /\ "outer" \notin S /\ "inner" \notin S
          BY <1>2, <3>4
        <4>2. /\ cache'[e] = cache[e] /\ cache'["outer"] = cache["outer"]
              /\ cache'["inner"] = cache["inner"]
          BY <1>4, <3>4, <4>1 DEF Entries
        <4>3. Enabled(e)
          BY <2>1, <3>4, <4>2, <1>2 DEF Enabled, EnabledIn
        <4>4. Coming(e) \/ Pardoned(e)
          BY <1>1, <1>6, <2>1, <4>2, <4>3 DEF ShownInv, CacheInv
        <4>. QED BY <1>9, <1>11, <3>4, <4>1, <4>4
      <3>. QED BY <3>1, <3>2, <3>3, <3>4 DEF Entries
    <2>. QED BY <2>1 DEF CacheInv
  <1>. QED BY <1>10, <1>12, <1>13 DEF ShownInv

LEMMA DestroyShown ==
  ASSUME ShownInv, SeenInv, NEW job \in jobs, DestroyTimer(job) PROVE ShownInv'
PROOF
  <1>. DEFINE S == {"outer", "fields"} \cup DOMAIN job.seen
  <1>1. /\ UNCHANGED vars /\ UNCHANGED overtaken /\ ~listed'
        /\ cache' = [e \in Entries |-> IF e \in S THEN Missing ELSE cache[e]]
        /\ asked' = asked \ S /\ answers' = Without(answers, S)
        /\ job.stage = "timer" /\ job.kind = "destroy" /\ Done(job)
    BY DEF DestroyTimer, removeQueries, Mount
  <1>2. "bounty" \notin S /\ "outer" \in S
    BY CardAssumption DEF SeenInv, JobsTyped, JobTyped
  <1>. HIDE DEF S
  <1>3. DOMAIN answers' = DOMAIN answers \ S /\ \A e \in DOMAIN answers' : answers'[e] = answers[e]
    BY <1>1 DEF Without
  <1>4. Live' = Live /\ \A e \in Entries : Read(e)' = Read(e)
    BY <1>1, ReadSame DEF vars, Live
  <1>5. Shown \notin Live => OuterDead'
    BY <1>1, <1>2, <1>3, <1>4 DEF OuterDead, Given, Entries
  <1>6. ASSUME NEW e \in Entries \ S, Pardoned(e) PROVE Pardoned(e)'
    <2>1. CASE Pending(e)
      <3>1. PICK j \in jobs : Forgets(j, e)
        BY <2>1 DEF Pending
      <3>2. CASE j = job
        BY <1>1, <1>2, <1>5, <1>6, <3>1, <3>2 DEF Forgets, Pardoned
      <3>3. CASE j # job
        BY <1>1, <1>4, <3>1, <3>3 DEF Pending, Forgets, Done, Pardoned
      <3>. QED BY <3>2, <3>3
    <2>. QED BY <1>1, <1>5, <1>6, <2>1 DEF Pardoned, OuterDead
  <1>7. AnswersInv'
    BY <1>3, <1>4, <1>6 DEF ShownInv, AnswersInv
  <1>8. CacheInv'
    BY <1>1 DEF CacheInv
  <1>9. BountyInv'
    <2>1. cache'["bounty"] = cache["bounty"]
      BY <1>1, <1>2 DEF Entries
    <2>2. Coming("bounty") => Coming("bounty")'
      BY <1>1, <1>2, <1>3 DEF Coming
    <2>. QED BY <1>1, <1>2, <1>3, <2>1, <2>2 DEF ShownInv, BountyInv
  <1>. QED BY <1>7, <1>8, <1>9 DEF ShownInv

LEMMA LandShown == ASSUME ShownInv, SeenInv, NEW S \in Arrived, Land(S) PROVE ShownInv'
PROOF
  <1>. DEFINE new == [e \in Entries |-> IF e \in S THEN answers[e] ELSE cache[e]]
  <1>1. /\ UNCHANGED vars /\ UNCHANGED <<listed, jobs>>
        /\ cache' = new
        /\ asked' = asked \cup {e \in Entries : EnabledIn(new, e) /\ ~Enabled(e) /\ Idle(e)}
        /\ answers' = Without(answers, S)
        /\ overtaken' = {e \in overtaken : e \in S => answers[e] # Read(e)}
    BY DEF Land, Ask
  <1>2. S \subseteq DOMAIN answers
    BY DEF Arrived
  <1>3. \A e \in Entries : cache'[e] = IF e \in S THEN answers[e] ELSE cache[e]
    BY <1>1
  <1>. HIDE DEF new
  <1>4. DOMAIN answers' = DOMAIN answers \ S /\ \A e \in DOMAIN answers' : answers'[e] = answers[e]
    BY <1>1 DEF Without
  <1>5. Live' = Live /\ \A e \in Entries : Read(e)' = Read(e)
    BY <1>1, ReadSame DEF vars, Live
  <1>6. \A e \in Entries : Pending(e) => Pending(e)'
    BY <1>1, PendingStays
  <1>7. OuterDead => OuterDead'
    BY <1>2, <1>3, <1>4, <1>5 DEF OuterDead, Entries
  <1>8. \A e \in Entries : Pardoned(e) => Pardoned(e)' \/ (e \in S /\ answers[e] = Read(e))
    BY <1>1, <1>6, <1>7 DEF Pardoned
  <1>9. AnswersInv'
    BY <1>4, <1>5, <1>8 DEF ShownInv, AnswersInv
  <1>10. \A e : e \notin S /\ Coming(e) => Coming(e)'
    BY <1>1, <1>4 DEF Coming
  <1>11. \A e \in Entries \ S : Enabled(e)' /\ ~Enabled(e) => Coming(e)'
    <2>1. ASSUME NEW e \in Entries \ S, Enabled(e)', ~Enabled(e) PROVE Coming(e)'
      <3>1. EnabledIn(new, e)
        BY <1>1, <2>1 DEF Enabled
      <3>2. CASE Idle(e)
        BY <1>1, <2>1, <3>1, <3>2 DEF Coming
      <3>3. CASE ~Idle(e)
        BY <1>10, <3>3 DEF Idle, Coming
      <3>. QED BY <3>2, <3>3
    <2>. QED BY <2>1
  <1>12. CacheInv'
    <2>1. ASSUME listed', NEW e \in Entries, Enabled(e)', cache'[e] # Read(e)'
          PROVE  Coming(e)' \/ Pardoned(e)'
      <3>1. CASE e \in S
        BY <1>2, <1>3, <1>5, <1>8, <2>1, <3>1 DEF ShownInv, AnswersInv
      <3>2. CASE e \notin S /\ Enabled(e)
        BY <1>1, <1>3, <1>5, <1>8, <1>10, <2>1, <3>2 DEF ShownInv, CacheInv
      <3>. QED BY <1>11, <2>1, <3>1, <3>2
    <2>. QED BY <2>1 DEF CacheInv
  <1>13. BountyInv'
    <2>1. "bounty" \in DOMAIN answers' => answers'["bounty"] = Sponsor
      BY <1>4 DEF ShownInv, BountyInv
    <2>2. ASSUME Enabled("bounty")' \/ jobs' # {}
          PROVE  cache'["bounty"] = Sponsor \/ Coming("bounty")' \/ "bounty" \in overtaken'
      <3>1. CASE "bounty" \in S
        BY <1>2, <1>3, <3>1 DEF ShownInv, BountyInv, Entries
      <3>2. CASE "bounty" \notin S /\ (Enabled("bounty") \/ jobs # {})
        BY <1>1, <1>3, <1>10, <3>2 DEF ShownInv, BountyInv, Entries
      <3>3. CASE "bounty" \notin S /\ ~Enabled("bounty") /\ jobs = {}
        BY <1>1, <1>11, <2>2, <3>3 DEF Entries
      <3>. QED BY <3>1, <3>2, <3>3
    <2>. QED BY <2>1, <2>2 DEF BountyInv
  <1>. QED BY <1>9, <1>12, <1>13 DEF ShownInv

LEMMA ReadingShown == ASSUME ShownInv, NEW S, S \subseteq asked, Reading(S) PROVE ShownInv'
PROOF
  <1>1. /\ UNCHANGED vars /\ UNCHANGED <<cache, listed, jobs, overtaken>>
        /\ asked' = asked \ S
        /\ DOMAIN answers' = DOMAIN answers \cup S
        /\ \A e \in DOMAIN answers' : answers'[e] = IF e \in S THEN Read(e) ELSE answers[e]
    BY DEF Reading
  <1>2. Live' = Live /\ \A e \in Entries : Read(e)' = Read(e)
    BY <1>1, ReadSame DEF vars, Live
  <1>3. Shown \notin Live => ~Given(Read("outer"))
    BY ReadIs DEF Entries, Given
  <1>4. OuterDead => OuterDead'
    BY <1>1, <1>2, <1>3 DEF OuterDead
  <1>5. \A e \in Entries : Pardoned(e) => Pardoned(e)'
    BY <1>1, <1>4, PendingStays DEF Pardoned
  <1>6. \A e : Coming(e) => Coming(e)'
    BY <1>1 DEF Coming
  <1>7. AnswersInv'
    BY <1>1, <1>2, <1>5 DEF ShownInv, AnswersInv
  <1>8. CacheInv'
    BY <1>1, <1>2, <1>5, <1>6, EnabledSame DEF ShownInv, CacheInv
  <1>9. Read("bounty") = Sponsor
    BY ReadIs DEF Entries
  <1>10. BountyInv'
    BY <1>1, <1>6, <1>9, EnabledSame DEF ShownInv, BountyInv
  <1>. QED BY <1>7, <1>8, <1>10 DEF ShownInv

LEMMA FailsShown == ASSUME ShownInv, NEW S \in Arrived, FetchFails(S) PROVE ShownInv'
PROOF
  <1>1. /\ UNCHANGED vars /\ UNCHANGED <<cache, listed, jobs>>
        /\ answers' = Without(answers, S)
        /\ asked \subseteq asked' /\ overtaken \subseteq overtaken'
        /\ S \subseteq asked' \cup overtaken'
    BY DEF FetchFails, Ask
  <1>2. DOMAIN answers' = DOMAIN answers \ S /\ \A e \in DOMAIN answers' : answers'[e] = answers[e]
    BY <1>1 DEF Without
  <1>3. Live' = Live /\ \A e \in Entries : Read(e)' = Read(e)
    BY <1>1, ReadSame DEF vars, Live
  <1>4. OuterDead => OuterDead'
    BY <1>1, <1>2, <1>3 DEF OuterDead
  <1>5. \A e \in Entries : Pardoned(e) => Pardoned(e)'
    BY <1>1, <1>4, PendingStays DEF Pardoned
  <1>6. \A e : Coming(e) => Coming(e)' \/ e \in overtaken'
    BY <1>1, <1>2 DEF Coming
  <1>7. AnswersInv'
    BY <1>2, <1>3, <1>5 DEF ShownInv, AnswersInv
  <1>8. CacheInv'
    BY <1>1, <1>3, <1>5, <1>6, EnabledSame DEF ShownInv, CacheInv, Pardoned
  <1>9. BountyInv'
    BY <1>1, <1>2, <1>6, EnabledSame, BountyFrame
  <1>. QED BY <1>7, <1>8, <1>9 DEF ShownInv

LEMMA ListShown == ASSUME ShownInv, FetchIds PROVE ShownInv'
PROOF
  <1>1. PICK there \in {getAllFindingIds, getUserFindingIds} :
          Mount(there) /\ Ask(IF there THEN Stale ELSE {})
    BY DEF FetchIds
  <1>2. UNCHANGED vars /\ UNCHANGED <<cache, answers, jobs, overtaken>>
    BY DEF FetchIds
  <1>3. listed' = there /\ asked \subseteq asked' /\ (there => Stale \subseteq asked')
    BY <1>1 DEF Mount, Ask
  <1>4. \A e \in Entries : Read(e)' = Read(e)
    BY <1>2, ReadSame
  <1>5. OuterDead => OuterDead'
    BY <1>2 DEF OuterDead, vars, Live
  <1>6. \A e \in Entries : Pardoned(e) => Pardoned(e)'
    BY <1>2, <1>5, PendingStays DEF Pardoned
  <1>7. AnswersInv'
    BY <1>2, <1>4, <1>6 DEF ShownInv, AnswersInv
  <1>8. CacheInv'
    <2>1. ASSUME there, NEW e \in Entries, Enabled(e) PROVE Coming(e)'
      BY <1>2, <1>3, <2>1 DEF Stale, Idle, Coming
    <2>. QED BY <1>2, <1>3, <2>1, EnabledSame DEF CacheInv
  <1>9. BountyInv'
    BY <1>2, <1>3, EnabledSame, BountyFrame DEF Coming
  <1>. QED BY <1>7, <1>8, <1>9 DEF ShownInv

LEMMA JobShown ==
  ASSUME ShownInv, SeenInv, DOMAIN object = Findings, NEW job \in jobs, JobSteps(job)
  PROVE  ShownInv'
PROOF
  <1>1. CASE Sign(job)
    BY <1>1, EarlyStep DEF Sign
  <1>2. CASE Decline(job)
    BY <1>2, EarlyStep DEF Decline
  <1>3. CASE Abort(job)
    BY <1>3, EarlyStep DEF Abort
  <1>4. CASE WaitFails(job)
    <2>1. UNCHANGED <<cache, answers, asked>> /\ overtaken' = Entries /\ jobs # {}
      BY <1>4 DEF WaitFails, data
    <2>. QED BY <2>1, EnabledSame, AllPardoned
  <1>. QED BY <1>1, <1>2, <1>3, <1>4, ExecuteShown, SettleShown, RemoveShown, DestroyShown
           DEF JobSteps

LEMMA NextShown ==
  ASSUME ShownInv, SeenInv, DOMAIN object = Findings, [CardNext]_allVars
  PROVE  ShownInv'
PROOF
  <1>1. CASE flushRequestQueue \/ getDynamicFields
    <2>1. asked \cap Objects \subseteq asked /\ ("fields" \in asked => {"fields"} \subseteq asked)
      OBVIOUS
    <2>. QED BY <1>1, <2>1, ReadingShown DEF flushRequestQueue, getDynamicFields
  <1>2. CASE Focus \/ SessionChanges
    BY <1>2, QuietStep DEF Focus, SessionChanges, Ask, data
  <1>3. ASSUME NEW k \in Fields, handleDownload(k) PROVE ShownInv'
    BY <1>3, QuietStep DEF handleDownload, Ask
  <1>4. ASSUME NEW d \in downloads, Decrypted(d) \/ DownloadFails(d) PROVE ShownInv'
    BY <1>4, QuietStep DEF Decrypted, DownloadFails, data
  <1>5. CASE UNCHANGED allVars
    BY <1>5, QuietStep DEF allVars, cardVars, data
  <1>6. CASE Others
    <2>1. UNCHANGED <<cache, answers, asked, jobs>> /\ overtaken' = Entries
      BY <1>6 DEF Others, data
    <2>. QED BY <2>1, EnabledSame, AllPardoned
  <1>7. CASE CardNext
    BY <1>1, <1>2, <1>3, <1>4, <1>6, <1>7, FailsShown, ListShown, LandShown, StartShown, JobShown
       DEF CardNext, handleRemovePayment, handlePay, handlePublish, handleDestroy,
           handleWithdraw, Kinds
  <1>. QED BY <1>5, <1>7

LEMMA InitShown == CardInit => ShownInv
PROOF
  <1>. SUFFICES ASSUME CardInit PROVE ShownInv
    OBVIOUS
  <1>1. /\ cache = [e \in Entries |-> Missing] /\ asked = {"outer"}
        /\ DOMAIN answers = {} /\ jobs = {}
    BY DEF CardInit
  <1>2. \A e \in Entries : Enabled(e) => e = "outer"
    BY <1>1 DEF Enabled, EnabledIn, LoadedIn, Given, Entries
  <1>. QED BY <1>1, <1>2 DEF ShownInv, AnswersInv, CacheInv, BountyInv, Coming, Entries

\* OwnChangesShown: whatever the interleaving of fetches, answers, transactions
\* and their ends, when all is quiet what the user's own transactions changed is
\* shown.  ShownInv says why: whatever is shown and out of date is on its way, or
\* the end of a job will see to it, or the finding is gone and that is on its way.
THEOREM OwnChangesTheorem == CardSpec => []OwnChangesShown
PROOF
  <1>1. CardInit => ShownInv /\ SeenInv /\ HiddenInv
    BY InitShown, InitSeen, InitHidden
  <1>2. /\ ShownInv /\ SeenInv /\ HiddenInv /\ [CardNext]_allVars
        => (ShownInv /\ SeenInv /\ HiddenInv)'
    BY NextShown, NextSeen, NextHidden DEF HiddenInv
  <1>3. ShownInv => OwnChangesShown
    BY ShownSuffices
  <1>. QED BY <1>1, <1>2, <1>3, PTL DEF CardSpec

-----------------------------------------------------------------------------
(* The card keeps the contract's books *)

\* What others call are calls of the contract.
LEMMA OthersNext == ASSUME OthersCall PROVE Next
PROOF
  <1>1. Unit \in 0 .. MAX_U64 /\ 0 \in 0 .. MAX_U64 /\ Shown \in Findings
    BY FindingAssumption, CardAssumption DEF Unit
  <1>2. AnyoneCalls(Shown) \/ OwnerCalls(Shown, Shown)
    BY <1>1, Zenon DEF OthersCall, AnyoneCalls, OwnerCalls
  <1>. QED BY <1>1, <1>2 DEF Next

LEMMA StutterBooks == ASSUME IInv, UNCHANGED vars PROVE IInv'
PROOF
  <1>1. TypeOK'
    BY DEF IInv, TypeOK, vars
  <1>2. \A f \in Findings : Books(f)'
    BY BooksFrame DEF IInv, vars
  <1>. QED BY <1>1, <1>2 DEF IInv

\* Some members of S are replaced by others.
LEMMA Exchange ==
  ASSUME NEW S, IsFiniteSet(S), NEW D, NEW B, IsFiniteSet(B), B \subseteq D
  PROVE  /\ Cardinality(S) \in Nat /\ Cardinality(S \cap D) \in Nat /\ Cardinality(B) \in Nat
         /\ Cardinality((S \ D) \cup B) = Cardinality(S) - Cardinality(S \cap D) + Cardinality(B)
         /\ Cardinality((S \ D) \cup B) \in Nat
PROOF
  <1>1. IsFiniteSet(S \ D) /\ Cardinality(S \ D) = Cardinality(S) - Cardinality(S \cap D)
    BY FS_Difference
  <1>2. IsFiniteSet(S \cap D)
    BY FS_Subset
  <1>3. /\ IsFiniteSet((S \ D) \cup B)
        /\ Cardinality((S \ D) \cup B) =
             Cardinality(S \ D) + Cardinality(B) - Cardinality((S \ D) \cap B)
    BY <1>1, FS_Union
  <1>4. Cardinality((S \ D) \cap B) = 0
    <2>1. (S \ D) \cap B = {}
      OBVIOUS
    <2>. QED BY <2>1, FS_EmptySet
  <1>5. /\ Cardinality(S) \in Nat /\ Cardinality(S \cap D) \in Nat /\ Cardinality(B) \in Nat
        /\ Cardinality((S \ D) \cup B) \in Nat
    BY <1>2, <1>3, FS_CardinalityType
  <1>. QED BY <1>1, <1>3, <1>4, <1>5

LEMMA ShownTyped ==
  ASSUME IInv
  PROVE  /\ inner[Shown] \in FindingV1 /\ ledger[Shown] \in Ledger
         /\ inner \in [Findings -> FindingV1] /\ ledger \in [Findings -> Ledger]
         /\ \A c \in Coins : Entry(c) \in Option(PaymentV1)
         /\ \A c \in Coins : Held(Shown, c) \in Nat /\ Owed(Shown, c) \in Nat
         /\ IsFiniteSet(SettledCoins(Shown))
PROOF
  <1>1. TypeOK /\ Shown \in Findings
    BY CardAssumption DEF IInv
  <1>2. inner[Shown] \in FindingV1 /\ ledger[Shown] \in Ledger
    BY <1>1 DEF TypeOK
  <1>3. \A c \in Coins : Entry(c) \in Option(PaymentV1)
    BY <1>2 DEF FindingV1, Entry
  <1>4. IsFiniteSet(SettledCoins(Shown))
    BY FindingAssumption, FS_Subset DEF SettledCoins
  <1>. QED BY <1>1, <1>2, <1>3, <1>4, HeldType DEF TypeOK

\* Several entries are replaced in one transaction: payed_count goes on counting.
LEMMA ReplaceBooks ==
  ASSUME IInv, object[Shown] = "live", NEW new, DOMAIN new \subseteq Coins, Replace(new),
         \A c \in DOMAIN new : new[c] \in Option(PaymentV1)
  PROVE  /\ inner' \in [Findings -> FindingV1]
         /\ \A g \in Findings \ {Shown} : inner'[g] = inner[g]
         /\ SameReports(Shown)
         /\ \A c \in Coins : inner'[Shown].payments[c] = IF c \in DOMAIN new THEN new[c] ELSE Entry(c)
         /\ inner'[Shown].payed_count = Cardinality(SettledCoins(Shown)') + ledger[Shown].drift
PROOF
  <1>. DEFINE D == DOMAIN new
              p == [c \in Coins |-> IF c \in D THEN new[c] ELSE Entry(c)]
              old == Cardinality({c \in D : Settled(Entry(c))})
              next == Cardinality({c \in D : Settled(new[c])})
              n == inner[Shown].payed_count - old + next
              r == [inner[Shown] EXCEPT !.payments = p, !.payed_count = n]
  <1>1. /\ inner[Shown] \in FindingV1 /\ ledger[Shown] \in Ledger
        /\ inner \in [Findings -> FindingV1]
        /\ \A c \in Coins : Entry(c) \in Option(PaymentV1)
        /\ IsFiniteSet(SettledCoins(Shown)) /\ Shown \in Findings
    BY ShownTyped, CardAssumption
  <1>2. inner' = [inner EXCEPT ![Shown].payments = p, ![Shown].payed_count = n]
    BY <1>1 DEF Replace, FindingV1
  <1>3. p \in [Coins -> Option(PaymentV1)] /\ \A c \in Coins : p[c] = IF c \in D THEN new[c] ELSE Entry(c)
    BY <1>1
  <1>4. /\ {c \in D : Settled(Entry(c))} = SettledCoins(Shown) \cap D
        /\ {c \in Coins : Settled(p[c])} = (SettledCoins(Shown) \ D) \cup {c \in D : Settled(new[c])}
    BY <1>3 DEF SettledCoins, Entry
  <1>5. IsFiniteSet({c \in D : Settled(new[c])})
    BY FindingAssumption, FS_Subset
  <1>. DEFINE S == SettledCoins(Shown)
              B == {c \in D : Settled(new[c])}
  <1>6. /\ Cardinality(S) \in Nat /\ old \in Nat /\ next \in Nat
        /\ Cardinality({c \in Coins : Settled(p[c])}) = Cardinality(S) - old + next
        /\ Cardinality({c \in Coins : Settled(p[c])}) \in Nat
    <2>1. B \subseteq D /\ IsFiniteSet(B) /\ IsFiniteSet(S)
      BY <1>1, <1>5
    <2>2. /\ old = Cardinality(S \cap D) /\ next = Cardinality(B)
          /\ {c \in Coins : Settled(p[c])} = (S \ D) \cup B
      BY <1>4
    <2>. DEFINE T == {c \in Coins : Settled(p[c])}
    <2>. HIDE DEF S, D, B, T, old, next, p
    <2>3. /\ Cardinality(S) \in Nat /\ Cardinality(S \cap D) \in Nat /\ Cardinality(B) \in Nat
          /\ Cardinality((S \ D) \cup B) = Cardinality(S) - Cardinality(S \cap D) + Cardinality(B)
          /\ Cardinality((S \ D) \cup B) \in Nat
      BY <2>1, Exchange
    <2>4. T = (S \ D) \cup B
      BY <2>2 DEF T
    <2>5. /\ Cardinality(S) \in Nat /\ old \in Nat /\ next \in Nat
          /\ Cardinality(T) = Cardinality(S) - old + next /\ Cardinality(T) \in Nat
      BY <2>2, <2>3, <2>4
    <2>. QED BY <2>5 DEF T
  <1>7. inner[Shown].payed_count = Cardinality(S) + ledger[Shown].drift
    BY <1>1 DEF IInv, Books
  <1>8. n = Cardinality({c \in Coins : Settled(p[c])}) + ledger[Shown].drift /\ n \in Nat
    <2>1. ledger[Shown].drift \in Nat
      BY <1>1 DEF Ledger
    <2>. HIDE DEF S, D, B, old, next, p
    <2>. QED BY <1>6, <1>7, <2>1 DEF n
  <1>. HIDE DEF n, p, D, old, next, S, B
  <1>9. r \in FindingV1
    BY <1>1, <1>3, <1>8 DEF FindingV1
  <1>10. inner' = [inner EXCEPT ![Shown] = r]
    BY <1>1, <1>2 DEF FindingV1
  <1>11. /\ inner'[Shown].payments = p /\ inner'[Shown].payed_count = n /\ SameReports(Shown)
    BY <1>1, <1>10 DEF FindingV1, SameReports
  <1>12. SettledCoins(Shown)' = {c \in Coins : Settled(p[c])}
    BY <1>11 DEF SettledCoins
  <1>. QED BY <1>1, <1>3, <1>8, <1>9, <1>10, <1>11, <1>12 DEF D

\* A transaction that leaves the finding there: its books are right afterwards if
\* those of each coin are.
LEMMA BatchBooks ==
  ASSUME IInv, object[Shown] = "live", UNCHANGED <<object, signed>>,
         inner' \in [Findings -> FindingV1], ledger' \in [Findings -> Ledger],
         \A g \in Findings \ {Shown} : inner'[g] = inner[g] /\ ledger'[g] = ledger[g],
         SameReports(Shown),
         inner'[Shown].payed_count = Cardinality(SettledCoins(Shown)') + ledger'[Shown].drift,
         ledger'[Shown].price = ledger[Shown].price,
         \A c \in Coins :
           ledger'[Shown].received[c] = ledger'[Shown].released[c] + Held(Shown, c)',
         is_published(Shown) => \A c \in Coins : \E n \in Nat :
           /\ ledger'[Shown].received[c] = ledger[Shown].received[c] + n
           /\ Owed(Shown, c)' = IF Owed(Shown, c) > n THEN Owed(Shown, c) - n ELSE 0
  PROVE  IInv'
PROOF
  <1>1. TypeOK'
    BY DEF IInv, TypeOK
  <1>2. status_v1(Shown)' = status_v1(Shown) /\ inner'[Shown].is_published = inner[Shown].is_published
    BY DEF SameReports, status_v1
  <1>3. Books(Shown)
    BY CardAssumption DEF IInv
  <1>4. ASSUME is_published(Shown)', NEW c \in Coins
        PROVE  Owed(Shown, c)' =
                 IF ledger'[Shown].price[c] > ledger'[Shown].received[c]
                 THEN ledger'[Shown].price[c] - ledger'[Shown].received[c] ELSE 0
    <2>1. is_published(Shown)
      BY <1>2, <1>4 DEF is_published
    <2>2. PICK n \in Nat :
            /\ ledger'[Shown].received[c] = ledger[Shown].received[c] + n
            /\ Owed(Shown, c)' = IF Owed(Shown, c) > n THEN Owed(Shown, c) - n ELSE 0
      BY <2>1
    <2>3. Owed(Shown, c) = IF ledger[Shown].price[c] > ledger[Shown].received[c]
                           THEN ledger[Shown].price[c] - ledger[Shown].received[c] ELSE 0
      BY <1>3, <2>1 DEF Books
    <2>4. ledger[Shown].price[c] \in Nat /\ ledger[Shown].received[c] \in Nat
      BY ShownTyped DEF Ledger
    <2>. QED BY <2>2, <2>3, <2>4
  <1>5. inner'[Shown].is_published => is_published(Shown)'
    BY <1>2, <1>3 DEF Books, is_published
  <1>6. Books(Shown)'
    BY <1>4, <1>5 DEF Books
  <1>7. ASSUME NEW f \in Findings, f # Shown PROVE Books(f)'
    BY <1>7, BooksFrame DEF IInv
  <1>. QED BY <1>1, <1>6, <1>7 DEF IInv

LEMMA PaidUpBooks ==
  ASSUME NEW c \in Coins, Entry(c) \in Option(PaymentV1), NEW amount \in Nat,
         Paid(Entry(c)) + amount <= MAX_U64
  PROVE  /\ Paid(PaidUp(c, amount)) = Paid(Entry(c)) + amount
         /\ Due(PaidUp(c, amount)) = IF Due(Entry(c)) > amount THEN Due(Entry(c)) - amount ELSE 0
PROOF
  <1>. MAX_U64 \in Nat /\ None \notin PaymentV1
    BY FindingAssumption DEF PaymentV1
  <1>1. CASE Entry(c) = None
    <2>. DEFINE new == [requested |-> 0, paid |-> amount]
    <2>1. PaidUp(c, amount) = new /\ Paid(Entry(c)) = 0 /\ Due(Entry(c)) = 0
      BY <1>1 DEF PaidUp, Paid, Due
    <2>2. new \in PaymentV1 /\ new.requested = 0 /\ new.paid = amount
      BY <2>1 DEF PaymentV1
    <2>. HIDE DEF new
    <2>3. new # None
      BY <2>2
    <2>. QED BY <2>1, <2>2, <2>3 DEF Paid, Due, Settled
  <1>2. CASE Entry(c) # None
    <2>. DEFINE new == [Entry(c) EXCEPT !.paid = @ + amount]
    <2>1. Entry(c) \in PaymentV1 /\ PaidUp(c, amount) = new
      BY <1>2 DEF PaidUp, Option
    <2>2. Entry(c).requested \in 0 .. MAX_U64 /\ Entry(c).paid \in 0 .. MAX_U64
      BY <2>1 DEF PaymentV1
    <2>3. Entry(c).paid + amount \in 0 .. MAX_U64
      BY <1>2, <2>2 DEF Paid
    <2>4. /\ new \in PaymentV1
          /\ new.requested = Entry(c).requested /\ new.paid = Entry(c).paid + amount
      BY <2>1, <2>3 DEF PaymentV1
    <2>. HIDE DEF new
    <2>5. new # None
      BY <2>4
    <2>. QED BY <1>2, <2>1, <2>2, <2>4, <2>5 DEF Paid, Due, Settled
  <1>. QED BY <1>1, <1>2

LEMMA TakenOutBooks ==
  ASSUME NEW c \in Coins, Entry(c) \in Option(PaymentV1)
  PROVE  /\ TakenOut(c) \in Option(PaymentV1)
         /\ Paid(TakenOut(c)) = 0 /\ Due(TakenOut(c)) = Due(Entry(c))
PROOF
  <1>1. CASE Settled(Entry(c))
    BY <1>1 DEF TakenOut, Paid, Due, Option
  <1>2. CASE ~Settled(Entry(c))
    <2>. DEFINE new == [requested |-> Due(Entry(c)), paid |-> 0]
    <2>1. TakenOut(c) = new
      BY <1>2 DEF TakenOut
    <2>2. Due(Entry(c)) \in 0 .. MAX_U64 /\ 0 \in 0 .. MAX_U64
      BY <1>2, FindingAssumption DEF Due, Settled, Option, PaymentV1
    <2>3. new \in PaymentV1 /\ new # None /\ new.requested = Due(Entry(c)) /\ new.paid = 0
      BY <2>2, FindingAssumption DEF PaymentV1
    <2>. HIDE DEF new
    <2>. QED BY <2>1, <2>2, <2>3 DEF Paid, Due, Settled, Option
  <1>. QED BY <1>1, <1>2

\* One field of the finding's ledger is set, or two.
LEMMA LedgerReceives ==
  ASSUME IInv, NEW q \in [Coins -> Nat], ledger' = [ledger EXCEPT ![Shown].received = q]
  PROVE  /\ ledger' \in [Findings -> Ledger]
         /\ \A g \in Findings \ {Shown} : ledger'[g] = ledger[g]
         /\ ledger'[Shown].price = ledger[Shown].price /\ ledger'[Shown].drift = ledger[Shown].drift
         /\ ledger'[Shown].received = q /\ ledger'[Shown].released = ledger[Shown].released
PROOF
  <1>. DEFINE l == [ledger[Shown] EXCEPT !.received = q]
  <1>1. ledger[Shown] \in Ledger /\ ledger \in [Findings -> Ledger] /\ Shown \in Findings
    BY ShownTyped, CardAssumption
  <1>2. l \in Ledger
    BY <1>1 DEF Ledger
  <1>3. ledger' = [ledger EXCEPT ![Shown] = l]
    BY <1>1
  <1>4. /\ l.price = ledger[Shown].price /\ l.drift = ledger[Shown].drift
        /\ l.received = q /\ l.released = ledger[Shown].released
    BY <1>1 DEF Ledger
  <1>. HIDE DEF l
  <1>. QED BY <1>1, <1>2, <1>3, <1>4

LEMMA LedgerReleases ==
  ASSUME IInv, NEW q \in [Coins -> Nat], NEW n \in Nat,
         ledger' = [ledger EXCEPT ![Shown].released = q, ![Shown].drift = n]
  PROVE  /\ ledger' \in [Findings -> Ledger]
         /\ \A g \in Findings \ {Shown} : ledger'[g] = ledger[g]
         /\ ledger'[Shown].price = ledger[Shown].price /\ ledger'[Shown].drift = n
         /\ ledger'[Shown].released = q /\ ledger'[Shown].received = ledger[Shown].received
PROOF
  <1>. DEFINE l == [ledger[Shown] EXCEPT !.released = q, !.drift = n]
  <1>1. ledger[Shown] \in Ledger /\ ledger \in [Findings -> Ledger] /\ Shown \in Findings
    BY ShownTyped, CardAssumption
  <1>2. l \in Ledger
    BY <1>1 DEF Ledger
  <1>3. ledger' = [ledger EXCEPT ![Shown] = l]
    BY <1>1
  <1>4. /\ l.price = ledger[Shown].price /\ l.drift = n
        /\ l.released = q /\ l.received = ledger[Shown].received
    BY <1>1 DEF Ledger
  <1>. HIDE DEF l
  <1>. QED BY <1>1, <1>2, <1>3, <1>4

LEMMA PaysBooks ==
  ASSUME IInv, PaymentsTyped, ContractInv, NEW job, JobTyped(job), job.kind = "pay",
         Executes(job.kind, job.seen), Pays(job.seen)
  PROVE  IInv'
PROOF
  <1>. DEFINE amounts == Amounts(job.seen)
              T == Touched("pay", job.seen)
              new == [c \in DOMAIN amounts |-> PaidUp(c, amounts[c])]
              in == [c \in Coins |-> IF c \in T THEN amounts[c] ELSE 0]
              more == [c \in Coins |-> ledger[Shown].received[c] + in[c]]
  <1>1. DOMAIN amounts = T /\ DOMAIN new = T /\ T \subseteq Coins
    BY DEF Amounts, Touched, JobTyped
  <1>2. /\ object[Shown] = "live" /\ UNCHANGED <<object, signed>> /\ Replace(new)
    BY DEF Executes, Live, Pays
  <1>3. \A c \in T : amounts[c] \in Nat
    BY <1>1, PaysEntries
  <1>4. in \in [Coins -> Nat]
    BY <1>3
  <1>5. more \in [Coins -> Nat] /\ \A c \in Coins : more[c] = ledger[Shown].received[c] + in[c]
    <2>1. ledger[Shown].received \in [Coins -> Nat]
      BY ShownTyped DEF Ledger
    <2>. HIDE DEF in
    <2>. QED BY <1>4, <2>1
  <1>6. ledger' = [ledger EXCEPT ![Shown].received = more]
    <2>1. ledger' = [ledger EXCEPT ![Shown].received =
            [c \in Coins |-> ledger[Shown].received[c] + (IF c \in DOMAIN amounts THEN amounts[c] ELSE 0)]]
      BY DEF Pays
    <2>2. more = [c \in Coins |-> ledger[Shown].received[c] + (IF c \in DOMAIN amounts THEN amounts[c] ELSE 0)]
      BY <1>1
    <2>. HIDE DEF more, amounts
    <2>. QED BY <2>1, <2>2
  <1>7. \A c \in T : new[c] = PaidUp(c, in[c]) /\ new[c] \in Option(PaymentV1)
    <2>1. ASSUME NEW c \in T PROVE new[c] = PaidUp(c, in[c]) /\ new[c] \in Option(PaymentV1)
      <3>1. new[c] = PaidUp(c, amounts[c]) /\ in[c] = amounts[c]
        BY <1>1
      <3>2. Held(Shown, c) + amounts[c] <= MAX_U64
        BY DEF Executes
      <3>. QED BY <1>1, <1>3, <3>1, <3>2, PaidUpTyped
    <2>. QED BY <2>1
  <1>8. \A c \in Coins \ T : in[c] = 0
    OBVIOUS
  <1>. HIDE DEF amounts, T, new, in, more
  <1>9. /\ inner' \in [Findings -> FindingV1]
        /\ \A g \in Findings \ {Shown} : inner'[g] = inner[g]
        /\ SameReports(Shown)
        /\ \A c \in Coins : inner'[Shown].payments[c] = IF c \in T THEN new[c] ELSE Entry(c)
        /\ inner'[Shown].payed_count = Cardinality(SettledCoins(Shown)') + ledger[Shown].drift
    BY <1>1, <1>2, <1>7, ReplaceBooks
  <1>10. /\ ledger' \in [Findings -> Ledger]
         /\ \A g \in Findings \ {Shown} : ledger'[g] = ledger[g]
         /\ ledger'[Shown].price = ledger[Shown].price /\ ledger'[Shown].drift = ledger[Shown].drift
         /\ ledger'[Shown].received = more /\ ledger'[Shown].released = ledger[Shown].released
    BY <1>5, <1>6, LedgerReceives
  <1>11. ASSUME NEW c \in Coins
         PROVE  /\ Held(Shown, c)' = Held(Shown, c) + in[c]
                /\ Owed(Shown, c)' = IF Owed(Shown, c) > in[c] THEN Owed(Shown, c) - in[c] ELSE 0
    <2>1. Entry(c) \in Option(PaymentV1) /\ Held(Shown, c) \in Nat /\ Owed(Shown, c) \in Nat /\ in[c] \in Nat
      BY <1>4, ShownTyped
    <2>2. Held(Shown, c) = Paid(Entry(c)) /\ Owed(Shown, c) = Due(Entry(c))
      BY DEF Held, Owed, Entry
    <2>3. /\ Held(Shown, c)' = Paid(inner'[Shown].payments[c])
          /\ Owed(Shown, c)' = Due(inner'[Shown].payments[c])
      BY DEF Held, Owed
    <2>4. CASE c \in T
      <3>1. Paid(Entry(c)) + in[c] <= MAX_U64
        BY <2>2, <2>4 DEF Executes, in, amounts, T
      <3>. QED BY <1>7, <1>9, <2>1, <2>2, <2>3, <2>4, <3>1, PaidUpBooks
    <2>5. CASE c \notin T
      BY <1>8, <1>9, <2>1, <2>2, <2>3, <2>5
    <2>. QED BY <2>4, <2>5
  <1>12. ASSUME NEW c \in Coins
         PROVE  ledger'[Shown].received[c] = ledger'[Shown].released[c] + Held(Shown, c)'
    <2>1. ledger[Shown].received[c] = ledger[Shown].released[c] + Held(Shown, c)
      BY CardAssumption DEF IInv, Books
    <2>2. ledger[Shown].received[c] \in Nat /\ ledger[Shown].released[c] \in Nat
          /\ Held(Shown, c) \in Nat /\ in[c] \in Nat
      BY <1>4, ShownTyped DEF Ledger
    <2>. QED BY <1>5, <1>10, <1>11, <2>1, <2>2
  <1>13. \A c \in Coins : \E n \in Nat :
           /\ ledger'[Shown].received[c] = ledger[Shown].received[c] + n
           /\ Owed(Shown, c)' = IF Owed(Shown, c) > n THEN Owed(Shown, c) - n ELSE 0
    BY <1>4, <1>5, <1>10, <1>11
  <1>. QED BY <1>2, <1>9, <1>10, <1>12, <1>13, BatchBooks

LEMMA WithdrawsBooks ==
  ASSUME IInv, object[Shown] = "live", NEW C, C \subseteq Coins, Withdraws(C)
  PROVE  IInv'
PROOF
  <1>. DEFINE new == [c \in C |-> TakenOut(c)]
              q == Released(C)
  <1>1. Replace(new) /\ UNCHANGED <<object, signed>> /\ ledger' = [ledger EXCEPT ![Shown].released = q]
    BY DEF Withdraws
  <1>2. /\ ledger[Shown].received \in [Coins -> Nat] /\ ledger[Shown].released \in [Coins -> Nat]
        /\ \A c \in Coins : Entry(c) \in Option(PaymentV1)
        /\ \A c \in Coins : Held(Shown, c) \in Nat /\ Owed(Shown, c) \in Nat
    BY ShownTyped DEF Ledger
  <1>3. DOMAIN new = C /\ \A c \in C : new[c] = TakenOut(c) /\ new[c] \in Option(PaymentV1)
    BY <1>2, TakenOutBooks
  <1>4. q \in [Coins -> Nat] /\ \A c \in Coins : q[c] = ledger[Shown].released[c]
                                                  + (IF c \in C THEN Held(Shown, c) ELSE 0)
    BY <1>2 DEF Released
  <1>. HIDE DEF new, q
  <1>5. /\ inner' \in [Findings -> FindingV1]
        /\ \A g \in Findings \ {Shown} : inner'[g] = inner[g]
        /\ SameReports(Shown)
        /\ \A c \in Coins : inner'[Shown].payments[c] = IF c \in C THEN new[c] ELSE Entry(c)
        /\ inner'[Shown].payed_count = Cardinality(SettledCoins(Shown)') + ledger[Shown].drift
    BY <1>1, <1>3, ReplaceBooks
  <1>6. /\ ledger' \in [Findings -> Ledger]
        /\ \A g \in Findings \ {Shown} : ledger'[g] = ledger[g]
        /\ ledger'[Shown].price = ledger[Shown].price /\ ledger'[Shown].drift = ledger[Shown].drift
        /\ ledger'[Shown].released = q /\ ledger'[Shown].received = ledger[Shown].received
    <2>1. ledger[Shown].drift \in Nat /\ DOMAIN ledger[Shown] = LedgerNames
          /\ DOMAIN ledger = Findings
      BY ShownTyped DEF Ledger, LedgerNames
    <2>2. ledger' = [ledger EXCEPT ![Shown].released = q, ![Shown].drift = ledger[Shown].drift]
      BY <1>1, <2>1, CardAssumption DEF LedgerNames
    <2>. QED BY <1>4, <2>1, <2>2, LedgerReleases
  <1>7. ASSUME NEW c \in Coins
        PROVE  /\ Held(Shown, c)' = IF c \in C THEN 0 ELSE Held(Shown, c)
               /\ Owed(Shown, c)' = Owed(Shown, c)
    <2>1. Held(Shown, c) = Paid(Entry(c)) /\ Owed(Shown, c) = Due(Entry(c))
      BY DEF Held, Owed, Entry
    <2>2. /\ Held(Shown, c)' = Paid(inner'[Shown].payments[c])
          /\ Owed(Shown, c)' = Due(inner'[Shown].payments[c])
      BY DEF Held, Owed
    <2>. QED BY <1>2, <1>3, <1>5, <2>1, <2>2, TakenOutBooks
  <1>8. ASSUME NEW c \in Coins
        PROVE  ledger'[Shown].received[c] = ledger'[Shown].released[c] + Held(Shown, c)'
    <2>1. ledger[Shown].received[c] = ledger[Shown].released[c] + Held(Shown, c)
      BY CardAssumption DEF IInv, Books
    <2>2. ledger[Shown].received[c] \in Nat /\ ledger[Shown].released[c] \in Nat
          /\ Held(Shown, c) \in Nat
      BY <1>2
    <2>. QED BY <1>4, <1>6, <1>7, <2>1, <2>2
  <1>9. ASSUME NEW c \in Coins
        PROVE  /\ ledger'[Shown].received[c] = ledger[Shown].received[c] + 0
               /\ Owed(Shown, c)' = IF Owed(Shown, c) > 0 THEN Owed(Shown, c) - 0 ELSE 0
    <2>1. ledger[Shown].received[c] \in Nat /\ Owed(Shown, c) \in Nat
      BY <1>2
    <2>. QED BY <1>6, <1>7, <2>1
  <1>10. \A c \in Coins : \E n \in Nat :
           /\ ledger'[Shown].received[c] = ledger[Shown].received[c] + n
           /\ Owed(Shown, c)' = IF Owed(Shown, c) > n THEN Owed(Shown, c) - n ELSE 0
    BY <1>9
  <1>. QED BY <1>1, <1>5, <1>6, <1>8, <1>10, BatchBooks

\* All of the coins C are handed out, and the finding perhaps goes with them.
LEMMA ReleasedIs ==
  ASSUME IInv, NEW C
  PROVE  /\ Released(C) \in [Coins -> Nat]
         /\ \A c \in Coins : Released(C)[c] = ledger[Shown].released[c]
                                                + (IF c \in C THEN Held(Shown, c) ELSE 0)
PROOF
  <1>1. /\ ledger[Shown].released \in [Coins -> Nat]
        /\ \A c \in Coins : Held(Shown, c) \in Nat
    BY ShownTyped DEF Ledger
  <1>. QED BY <1>1 DEF Released

LEMMA ClearsLedger ==
  ASSUME IInv, NEW C, C \subseteq Coins, NEW destroys, Clears(C, destroys)
  PROVE  LET n == Cardinality({c \in C : Settled(Entry(c))})
         IN  /\ n \in Nat
             /\ ledger' \in [Findings -> Ledger]
             /\ \A g \in Findings \ {Shown} : ledger'[g] = ledger[g]
             /\ ledger'[Shown].price = ledger[Shown].price
             /\ ledger'[Shown].drift = ledger[Shown].drift + n
             /\ ledger'[Shown].released = Released(C)
             /\ ledger'[Shown].received = ledger[Shown].received
PROOF
  <1>. DEFINE n == Cardinality({c \in C : Settled(Entry(c))})
              q == Released(C)
              m == ledger[Shown].drift + n
  <1>1. n \in Nat
    <2>. DEFINE T == {c \in C : Settled(Entry(c))}
    <2>1. T \subseteq Coins
      OBVIOUS
    <2>. HIDE DEF T
    <2>2. IsFiniteSet(T) /\ Cardinality(T) \in Nat
      BY <2>1, FindingAssumption, FS_Subset, FS_CardinalityType
    <2>. QED BY <2>2 DEF T
  <1>2. ledger' = [ledger EXCEPT ![Shown].released = q, ![Shown].drift = @ + n]
    BY DEF Clears
  <1>3. q \in [Coins -> Nat]
    BY ReleasedIs
  <1>4. /\ ledger \in [Findings -> Ledger] /\ Shown \in Findings
        /\ ledger[Shown] \in Ledger
    BY ShownTyped, CardAssumption
  <1>. HIDE DEF n, q
  <1>5. m \in Nat
    BY <1>1, <1>4 DEF Ledger
  <1>6. ledger' = [ledger EXCEPT ![Shown].released = q, ![Shown].drift = m]
    BY <1>2, <1>4 DEF Ledger
  <1>. HIDE DEF m
  <1>7. /\ ledger' \in [Findings -> Ledger]
        /\ \A g \in Findings \ {Shown} : ledger'[g] = ledger[g]
        /\ ledger'[Shown].price = ledger[Shown].price /\ ledger'[Shown].drift = m
        /\ ledger'[Shown].released = q /\ ledger'[Shown].received = ledger[Shown].received
    BY <1>3, <1>5, <1>6, LedgerReleases
  <1>. QED BY <1>1, <1>7 DEF n, q, m

LEMMA RemovesBooks ==
  ASSUME IInv, object[Shown] = "live", ~is_published(Shown), NEW C, C \subseteq Coins,
         Clears(C, FALSE)
  PROVE  IInv'
PROOF
  <1>. DEFINE p == [c \in Coins |-> IF c \in C THEN None ELSE Entry(c)]
              r == [inner[Shown] EXCEPT !.payments = p]
              S == SettledCoins(Shown)
              T == {c \in C : Settled(Entry(c))}
  <1>1. /\ inner[Shown] \in FindingV1 /\ inner \in [Findings -> FindingV1] /\ Shown \in Findings
        /\ \A c \in Coins : Entry(c) \in Option(PaymentV1)
        /\ IsFiniteSet(S)
    BY ShownTyped, CardAssumption
  <1>2. p \in [Coins -> Option(PaymentV1)] /\ \A c \in Coins : p[c] = IF c \in C THEN None ELSE Entry(c)
    BY <1>1 DEF Option
  <1>3. inner' = [inner EXCEPT ![Shown].payments = p] /\ UNCHANGED <<object, signed>>
    BY DEF Clears
  <1>. HIDE DEF p
  <1>4. r \in FindingV1
    BY <1>1, <1>2 DEF FindingV1
  <1>5. inner' = [inner EXCEPT ![Shown] = r]
    BY <1>1, <1>3
  <1>6. /\ inner' \in [Findings -> FindingV1]
        /\ \A g \in Findings \ {Shown} : inner'[g] = inner[g]
    BY <1>1, <1>4, <1>5
  <1>7. /\ inner'[Shown].payments = p /\ SameReports(Shown)
        /\ inner'[Shown].payed_count = inner[Shown].payed_count
    BY <1>1, <1>5 DEF FindingV1, SameReports
  <1>8. S \cap C = T /\ SettledCoins(Shown)' = S \ C
    BY <1>2, <1>7 DEF SettledCoins, Entry, Settled
  <1>9. /\ Cardinality(SettledCoins(Shown)') = Cardinality(S) - Cardinality(T)
        /\ Cardinality(S) \in Nat /\ Cardinality(T) \in Nat
    <2>. HIDE DEF S, T
    <2>1. Cardinality(S \ C) = Cardinality(S) - Cardinality(S \cap C)
      BY <1>1, FS_Difference
    <2>2. IsFiniteSet(T) /\ Cardinality(S) \in Nat
      BY <1>1, <1>8, FS_Subset, FS_CardinalityType
    <2>. QED BY <1>8, <2>1, <2>2, FS_CardinalityType
  <1>10. /\ ledger' \in [Findings -> Ledger]
         /\ \A g \in Findings \ {Shown} : ledger'[g] = ledger[g]
         /\ ledger'[Shown].price = ledger[Shown].price
         /\ ledger'[Shown].drift = ledger[Shown].drift + Cardinality(T)
         /\ ledger'[Shown].released = Released(C)
         /\ ledger'[Shown].received = ledger[Shown].received
    BY ClearsLedger
  <1>11. inner'[Shown].payed_count = Cardinality(SettledCoins(Shown)') + ledger'[Shown].drift
    <2>1. inner[Shown].payed_count = Cardinality(S) + ledger[Shown].drift
      BY <1>1 DEF IInv, Books
    <2>2. ledger[Shown].drift \in Nat
      BY ShownTyped DEF Ledger
    <2>. HIDE DEF S, T
    <2>. QED BY <1>7, <1>9, <1>10, <2>1, <2>2
  <1>12. ASSUME NEW c \in Coins
         PROVE  ledger'[Shown].received[c] = ledger'[Shown].released[c] + Held(Shown, c)'
    <2>1. ledger[Shown].received[c] = ledger[Shown].released[c] + Held(Shown, c)
      BY <1>1 DEF IInv, Books
    <2>2. /\ ledger[Shown].released[c] \in Nat /\ Held(Shown, c) \in Nat
          /\ Released(C)[c] = ledger[Shown].released[c] + (IF c \in C THEN Held(Shown, c) ELSE 0)
      BY ShownTyped, ReleasedIs DEF Ledger
    <2>3. Held(Shown, c)' = IF c \in C THEN 0 ELSE Held(Shown, c)
      BY <1>2, <1>7 DEF Held, Paid, Entry
    <2>. QED BY <1>10, <2>1, <2>2, <2>3
  <1>. QED BY <1>3, <1>6, <1>7, <1>10, <1>11, <1>12, BatchBooks

LEMMA DestroysBooks ==
  ASSUME IInv, NEW C, C \subseteq Coins, Contained(Shown) \subseteq C, Clears(C, TRUE)
  PROVE  IInv'
PROOF
  <1>1. /\ inner \in [Findings -> FindingV1] /\ object \in [Findings -> {"free", "live", "deleted"}]
        /\ Shown \in Findings /\ Books(Shown)
    BY CardAssumption DEF IInv, TypeOK
  <1>2. /\ object' = [object EXCEPT ![Shown] = "deleted"] /\ UNCHANGED signed
        /\ inner' = [inner EXCEPT ![Shown] = NoFinding]
    BY DEF Clears
  <1>3. NoFinding \in FindingV1
    BY DEF NoFinding, FindingV1, NoPayments, Option
  <1>4. /\ ledger' \in [Findings -> Ledger]
        /\ \A g \in Findings \ {Shown} : ledger'[g] = ledger[g]
        /\ ledger'[Shown].released = Released(C)
        /\ ledger'[Shown].received = ledger[Shown].received
    BY ClearsLedger
  <1>5. TypeOK'
    BY <1>1, <1>2, <1>3, <1>4 DEF IInv, TypeOK
  <1>6. inner'[Shown] = NoFinding /\ object'[Shown] = "deleted"
    BY <1>1, <1>2
  <1>7. ASSUME NEW c \in Coins
        PROVE  ledger'[Shown].received[c] = ledger'[Shown].released[c] + Held(Shown, c)'
    <2>1. ledger[Shown].received[c] = ledger[Shown].released[c] + Held(Shown, c)
      BY <1>1 DEF Books
    <2>2. /\ ledger[Shown].released[c] \in Nat /\ Held(Shown, c) \in Nat
          /\ Released(C)[c] = ledger[Shown].released[c] + (IF c \in C THEN Held(Shown, c) ELSE 0)
      BY ShownTyped, ReleasedIs DEF Ledger
    <2>3. c \notin C => Held(Shown, c) = 0
      BY DEF Contained, Held, Paid
    <2>4. Held(Shown, c)' = 0
      BY <1>6 DEF Held, Paid, NoFinding, NoPayments
    <2>. QED BY <1>4, <2>1, <2>2, <2>3, <2>4
  <1>8. ~inner'[Shown].is_published /\ ~is_published(Shown)'
    BY <1>6 DEF is_published, status_v1, NoFinding
  <1>9. Books(Shown)'
    BY <1>6, <1>7, <1>8 DEF Books
  <1>10. ASSUME NEW f \in Findings, f # Shown PROVE Books(f)'
    BY <1>1, <1>2, <1>4, <1>10, BooksFrame DEF IInv
  <1>. QED BY <1>5, <1>9, <1>10 DEF IInv

LEMMA EffectBooks ==
  ASSUME IInv, SeenInv, NEW job \in jobs,
         Executes(job.kind, job.seen), Effect(job.kind, job.seen)
  PROVE  IInv'
PROOF
  <1>1. JobTyped(job) /\ PaymentsTyped /\ ContractInv /\ object[Shown] = "live"
    BY LiveShown DEF SeenInv, JobsTyped, Executes
  <1>2. DOMAIN job.seen \subseteq Coins
    BY <1>1 DEF JobTyped
  <1>3. CASE job.kind = "pay" /\ Pays(job.seen)
    BY <1>1, <1>3, PaysBooks
  <1>4. CASE job.kind = "withdraw" /\ Withdraws(Touched(job.kind, job.seen))
    <2>1. Touched(job.kind, job.seen) \subseteq Coins
      BY <1>2, <1>4 DEF Touched
    <2>. QED BY <1>1, <1>4, <2>1, WithdrawsBooks
  <1>5. CASE job.kind = "remove" /\ Clears(DOMAIN job.seen, FALSE)
    <2>1. ~is_published(Shown)
      BY <1>5 DEF Executes
    <2>. QED BY <1>1, <1>2, <1>5, <2>1, RemovesBooks
  <1>6. CASE job.kind = "destroy" /\ Clears(DOMAIN job.seen, TRUE)
    <2>1. Contained(Shown) \subseteq DOMAIN job.seen
      BY <1>6 DEF Executes
    <2>. QED BY <1>2, <1>6, <2>1, DestroysBooks
  <1>7. CASE publish(Shown, Shown)
    <2>1. Next
      BY <1>7, CardAssumption DEF Next, OwnerCalls
    <2>. QED BY <2>1, BooksStep
  <1>8. job.kind = "remove" => (job.kind = "destroy") = FALSE
    OBVIOUS
  <1>9. CASE job.kind = "remove" /\ Clears(DOMAIN job.seen, job.kind = "destroy")
    <2>1. Clears(DOMAIN job.seen, FALSE)
      BY <1>8, <1>9
    <2>. QED BY <1>5, <1>9, <2>1
  <1>10. CASE job.kind = "destroy" /\ Clears(DOMAIN job.seen, job.kind = "destroy")
    <2>1. (job.kind = "destroy") = TRUE
      BY <1>10
    <2>2. Clears(DOMAIN job.seen, TRUE)
      BY <1>10, <2>1
    <2>. QED BY <1>6, <1>10, <2>2
  <1>. QED BY <1>3, <1>4, <1>7, <1>9, <1>10 DEF Effect

LEMMA OpenedBooks == CardInit => IInv
PROOF
  <1>. SUFFICES ASSUME CardInit PROVE IInv
    OBVIOUS
  <1>1. PICK b \in Bounties, h \in Hashes, w \in Blobs, payments \in OpenPayments :
          \E stage \in {"Draft", "Committed", "Published", "Error"} :
            OpenedWith(b, h, w, payments, stage)
    BY DEF CardInit
  <1>2. PICK stage \in {"Draft", "Committed", "Published", "Error"} :
          OpenedWith(b, h, w, payments, stage)
    BY <1>1
  <1>. DEFINE r == [c \in Coins |-> Paid(payments[c])]
              q == [c \in Coins |-> IF stage = "Published" /\ payments[c] # None
                                    THEN payments[c].requested ELSE 0]
              l == [NewLedger EXCEPT !.received = r, !.price = q]
              o == Opened(b, h, w, payments, stage)
  <1>3. /\ object = [f \in Findings |-> IF f = Shown THEN "live" ELSE "free"]
        /\ inner = [f \in Findings |-> IF f = Shown THEN o ELSE NoFinding]
        /\ signed = Outcomes(Shown, h)
        /\ ledger = [f \in Findings |-> IF f # Shown THEN NewLedger ELSE l]
    BY <1>2 DEF OpenedWith
  <1>4. inner[Shown].payments \in [Coins -> Option(PaymentV1)]
    BY InitSeen DEF SeenInv, PaymentsTyped
  <1>5. inner[Shown] = o /\ ledger[Shown] = l /\ object[Shown] = "live" /\ Shown \in Findings
    BY <1>3, CardAssumption
  <1>6. payments \in [Coins -> Option(PaymentV1)]
    BY <1>4, <1>5 DEF Opened
  <1>7. \A c \in Coins : /\ Paid(payments[c]) \in Nat
                         /\ payments[c] # None => payments[c].requested \in Nat
    BY <1>6, FindingAssumption DEF Paid, Option, PaymentV1
  <1>8. r \in [Coins -> Nat] /\ q \in [Coins -> Nat]
    BY <1>7
  <1>9. NewLedger \in Ledger /\ l \in Ledger
    <2>. HIDE DEF r, q
    <2>. QED BY <1>8 DEF NewLedger, Ledger, ZeroCoins
  <1>10. o \in FindingV1
    <2>. DEFINE S == {c \in Coins : Settled(payments[c])}
    <2>1. Cardinality(S) \in Nat
      <3>1. S \subseteq Coins
        OBVIOUS
      <3>. HIDE DEF S
      <3>. QED BY <3>1, FindingAssumption, FS_Subset, FS_CardinalityType
    <2>. HIDE DEF S
    <2>2. o = [bug_bounty_id |-> b, submission_hash |-> h, payments |-> payments,
               payed_count |-> Cardinality(S),
               public_report_blob |-> IF stage \in {"Committed", "Published"} THEN w ELSE None,
               private_report_blob |-> IF stage \in {"Committed", "Published"} THEN w ELSE None,
               error_message_blob |-> IF stage = "Error" THEN w ELSE None,
               is_published |-> stage = "Published"]
      BY DEF Opened, S
    <2>3. /\ (IF stage \in {"Committed", "Published"} THEN w ELSE None) \in Option(Blobs)
          /\ (IF stage = "Error" THEN w ELSE None) \in Option(Blobs)
          /\ b \in Option(Bounties) /\ h \in Option(Hashes) /\ (stage = "Published") \in BOOLEAN
      BY DEF Option
    <2>. QED BY <1>6, <2>1, <2>2, <2>3 DEF FindingV1
  <1>11. NoFinding \in FindingV1
    BY DEF NoFinding, FindingV1, NoPayments, Option
  <1>. HIDE DEF r, q, l, o
  <1>12. TypeOK
    <2>1. signed \in SUBSET Message
      BY <1>3 DEF Outcomes
    <2>. QED BY <1>3, <1>9, <1>10, <1>11, <2>1 DEF TypeOK
  <1>13. /\ inner[Shown].payments = payments
         /\ inner[Shown].payed_count = Cardinality({c \in Coins : Settled(payments[c])})
         /\ inner[Shown].is_published = (stage = "Published")
         /\ inner[Shown].error_message_blob = IF stage = "Error" THEN w ELSE None
         /\ inner[Shown].public_report_blob =
              IF stage \in {"Committed", "Published"} THEN w ELSE None
    BY <1>5 DEF o, Opened
  <1>14. /\ ledger[Shown].received = r /\ ledger[Shown].price = q
         /\ ledger[Shown].released = ZeroCoins /\ ledger[Shown].drift = 0
    BY <1>5 DEF l, NewLedger
  <1>15. SettledCoins(Shown) = {c \in Coins : Settled(payments[c])}
    BY <1>13 DEF SettledCoins
  <1>16. inner[Shown].payed_count = Cardinality(SettledCoins(Shown)) + ledger[Shown].drift
    <2>1. inner[Shown].payed_count \in Nat
      BY <1>5, <1>10 DEF FindingV1
    <2>. QED BY <1>13, <1>14, <1>15, <2>1
  <1>17. ASSUME NEW c \in Coins
         PROVE  ledger[Shown].received[c] = ledger[Shown].released[c] + Held(Shown, c)
    <2>1. ledger[Shown].received[c] = Paid(payments[c]) /\ ledger[Shown].released[c] = 0
      BY <1>14 DEF r, ZeroCoins
    <2>. QED BY <1>7, <1>13, <2>1 DEF Held
  <1>18. is_published(Shown) <=> stage = "Published"
    <2>1. w # None
      BY FindingAssumption
    <2>. QED BY <1>13, <2>1 DEF is_published, status_v1
  <1>19. ASSUME is_published(Shown), NEW c \in Coins
         PROVE  Owed(Shown, c) = IF ledger[Shown].price[c] > ledger[Shown].received[c]
                                 THEN ledger[Shown].price[c] - ledger[Shown].received[c] ELSE 0
    <2>1. /\ ledger[Shown].received[c] = Paid(payments[c])
          /\ ledger[Shown].price[c] = IF payments[c] # None THEN payments[c].requested ELSE 0
          /\ Owed(Shown, c) = Due(payments[c])
      BY <1>13, <1>14, <1>18, <1>19 DEF r, q, Owed
    <2>2. CASE payments[c] = None
      BY <2>1, <2>2 DEF Due, Paid
    <2>3. CASE payments[c] # None
      <3>1. payments[c].requested \in Nat /\ payments[c].paid \in Nat
        BY <1>6, <2>3, FindingAssumption DEF Option, PaymentV1
      <3>. QED BY <2>1, <2>3, <3>1 DEF Due, Paid, Settled
    <2>. QED BY <2>2, <2>3
  <1>20. Books(Shown)
    BY <1>5, <1>13, <1>16, <1>17, <1>18, <1>19 DEF Books
  <1>21. ASSUME NEW f \in Findings, f # Shown PROVE Books(f)
    <2>1. object[f] = "free" /\ inner[f] = NoFinding /\ ledger[f] = NewLedger
      BY <1>3, <1>21
    <2>2. ~inner[f].is_published /\ ~is_published(f)
      BY <2>1 DEF is_published, status_v1, NoFinding
    <2>3. \A c \in Coins : ledger[f].received[c] = ledger[f].released[c] + Held(f, c)
      BY <2>1 DEF NewLedger, ZeroCoins, Held, Paid, NoFinding, NoPayments
    <2>. QED BY <2>1, <2>2, <2>3 DEF Books
  <1>. QED BY <1>12, <1>20, <1>21 DEF IInv

\* What a step of the card does to the contract.
LEMMA ContractSteps ==
  ASSUME [CardNext]_allVars
  PROVE  \/ UNCHANGED vars
         \/ Next
         \/ \E job \in jobs : Executes(job.kind, job.seen) /\ Effect(job.kind, job.seen)
PROOF
  <1>1. ASSUME NEW job \in jobs, JobSteps(job) PROVE UNCHANGED vars \/ Execute(job)
    BY <1>1 DEF JobSteps, Sign, Decline, Abort, WaitFails, Settle, RemoveTimer, DestroyTimer
  <1>2. ASSUME NEW S \in Arrived, Land(S) \/ FetchFails(S) PROVE UNCHANGED vars
    BY <1>2 DEF Land, FetchFails
  <1>3. ASSUME NEW d \in downloads, Decrypted(d) \/ DownloadFails(d) PROVE UNCHANGED vars
    BY <1>3 DEF Decrypted, DownloadFails
  <1>4. ASSUME NEW kind, Start(kind) PROVE UNCHANGED vars
    BY <1>4 DEF Start
  <1>5. ASSUME NEW k \in Fields, handleDownload(k) PROVE UNCHANGED vars
    BY <1>5 DEF handleDownload
  <1>6. ASSUME flushRequestQueue \/ getDynamicFields \/ Focus \/ FetchIds \/ SessionChanges
        PROVE  UNCHANGED vars
    BY <1>6 DEF flushRequestQueue, getDynamicFields, Reading, Focus, FetchIds, SessionChanges
  <1>7. CardNext => UNCHANGED vars \/ Others \/ \E job \in jobs : Execute(job)
    BY <1>1, <1>2, <1>3, <1>4, <1>5, <1>6
       DEF CardNext, handleRemovePayment, handlePay, handlePublish, handleDestroy, handleWithdraw
  <1>8. Others => Next
    BY OthersNext DEF Others
  <1>9. CASE UNCHANGED allVars BY <1>9 DEF allVars
  <1>. QED BY <1>7, <1>8, <1>9 DEF Execute

LEMMA NextBooks == ASSUME IInv, SeenInv, [CardNext]_allVars PROVE IInv'
PROOF BY ContractSteps, StutterBooks, BooksStep, EffectBooks

\* The finding's books stay right under the card: what a transaction made of what
\* the client saw does all at once keeps what each of the contract's calls keeps.
THEOREM CardBooks == CardSpec => [](PayedCountDrift /\ CoinsConserved)
PROOF
  <1>1. CardInit => IInv /\ SeenInv
    BY OpenedBooks, InitSeen
  <1>2. IInv /\ SeenInv /\ [CardNext]_allVars => (IInv /\ SeenInv)'
    BY NextBooks, NextSeen
  <1>3. IInv => PayedCountDrift /\ CoinsConserved
    BY DEF IInv, Books, PayedCountDrift, CoinsConserved, Live
  <1>. QED BY <1>1, <1>2, <1>3, PTL DEF CardSpec

\* Under the card, too, the price at publication is what is paid, in whatever
\* instalments and transactions, and the bounty reads the private report only
\* after it came in, unless set_payment_v1 replaced a settled payment before.
THEOREM CardPaidBeforeRead == CardSpec => [](PriceHonoured /\ PrivateReportPaidFor)
PROOF
  <1>1. CardInit => IInv /\ SeenInv
    BY OpenedBooks, InitSeen
  <1>2. IInv /\ SeenInv /\ [CardNext]_allVars => (IInv /\ SeenInv)'
    BY NextBooks, NextSeen
  <1>3. IInv => PriceHonoured
    BY DEF IInv, Books, PriceHonoured, Live
  <1>. QED BY <1>1, <1>2, <1>3, OpenedWhenPaid, PTL DEF CardSpec

-----------------------------------------------------------------------------
(* What a transaction of the card leaves as it was *)

\* The transactions that are not one call of the contract: those that pay,
\* withdraw or remove payments, and those that destroy the finding.
Batch(job) == /\ Executes(job.kind, job.seen)
              /\ job.kind # "publish"
              /\ Effect(job.kind, job.seen)

LEMMA BatchFrame ==
  ASSUME IInv, SeenInv, NEW job \in jobs, Batch(job)
  PROVE  /\ signed' = signed
         /\ \A f \in Findings : ledger'[f].testing = ledger[f].testing
         /\ \A f \in Findings \ {Shown} : object'[f] = object[f] /\ inner'[f] = inner[f]
         /\ \/ object'[Shown] = "deleted" /\ ~is_published(Shown)
            \/ object'[Shown] = object[Shown] /\ SameReports(Shown)
PROOF
  <1>1. /\ inner \in [Findings -> FindingV1] /\ ledger \in [Findings -> Ledger]
        /\ inner[Shown] \in FindingV1 /\ Shown \in Findings
        /\ object \in [Findings -> {"free", "live", "deleted"}]
    BY ShownTyped, CardAssumption DEF IInv, TypeOK
  <1>2. ASSUME NEW new, Replace(new)
        PROVE  /\ \A f \in Findings \ {Shown} : inner'[f] = inner[f]
               /\ SameReports(Shown)
    BY <1>1, <1>2 DEF Replace, FindingV1, SameReports
  <1>3. CASE job.kind = "pay" /\ Pays(job.seen)
    <2>1. UNCHANGED <<object, signed>> /\ \A f \in Findings : ledger'[f].testing = ledger[f].testing
      BY <1>1, <1>3 DEF Pays, Ledger
    <2>. QED BY <1>2, <1>3, <2>1 DEF Pays
  <1>4. CASE job.kind = "withdraw" /\ Withdraws(Touched(job.kind, job.seen))
    <2>1. UNCHANGED <<object, signed>> /\ \A f \in Findings : ledger'[f].testing = ledger[f].testing
      BY <1>1, <1>4 DEF Withdraws, Ledger
    <2>. QED BY <1>2, <1>4, <2>1 DEF Withdraws
  <1>5. CASE job.kind \in {"remove", "destroy"} /\ Clears(DOMAIN job.seen, job.kind = "destroy")
    <2>1. signed' = signed /\ \A f \in Findings : ledger'[f].testing = ledger[f].testing
      BY <1>1, <1>5 DEF Clears, Ledger
    <2>2. CASE job.kind = "destroy"
      <3>1. ~is_published(Shown)
        BY <2>2 DEF Batch, Executes
      <3>2. /\ object' = [object EXCEPT ![Shown] = "deleted"]
            /\ inner' = [inner EXCEPT ![Shown] = NoFinding]
        BY <1>5, <2>2 DEF Clears
      <3>. QED BY <1>1, <2>1, <3>1, <3>2
    <2>3. CASE job.kind = "remove"
      <3>1. /\ object' = object
            /\ inner' = [inner EXCEPT ![Shown].payments =
                            [c \in Coins |-> IF c \in DOMAIN job.seen THEN None ELSE Entry(c)]]
        BY <1>5, <2>3 DEF Clears
      <3>2. SameReports(Shown) /\ \A f \in Findings \ {Shown} : inner'[f] = inner[f]
        BY <1>1, <3>1 DEF FindingV1, SameReports
      <3>. QED BY <2>1, <3>1, <3>2
    <2>. QED BY <1>5, <2>2, <2>3
  <1>. QED BY <1>3, <1>4, <1>5 DEF Batch, Effect

\* A step of the card is a call of the contract or a batch of them.
LEMMA CardCalls ==
  ASSUME [CardNext]_allVars
  PROVE  UNCHANGED vars \/ Next \/ \E job \in jobs : Batch(job)
PROOF
  <1>1. publish(Shown, Shown) => Next
    BY CardAssumption DEF Next, OwnerCalls
  <1>2. ASSUME NEW job \in jobs, Executes(job.kind, job.seen), Effect(job.kind, job.seen)
        PROVE  Next \/ Batch(job)
    BY <1>1, <1>2 DEF Batch, Effect
  <1>. QED BY <1>2, ContractSteps

\* What the page is opened on was reported by the enclave.
LEMMA OpenedGenuine == CardInit => Genuine(Shown)
PROOF
  <1>. SUFFICES ASSUME CardInit PROVE Genuine(Shown)
    OBVIOUS
  <1>1. PICK b \in Bounties, h \in Hashes, w \in Blobs, payments \in OpenPayments :
          \E stage \in {"Draft", "Committed", "Published", "Error"} :
            OpenedWith(b, h, w, payments, stage)
    BY DEF CardInit
  <1>2. PICK stage \in {"Draft", "Committed", "Published", "Error"} :
          OpenedWith(b, h, w, payments, stage)
    BY <1>1
  <1>3. inner[Shown] = Opened(b, h, w, payments, stage) /\ signed = Outcomes(Shown, h)
    BY <1>2, CardAssumption DEF OpenedWith
  <1>4. /\ inner[Shown].submission_hash = h
        /\ inner[Shown].public_report_blob =
             IF stage \in {"Committed", "Published"} THEN w ELSE None
        /\ inner[Shown].private_report_blob =
             IF stage \in {"Committed", "Published"} THEN w ELSE None
        /\ inner[Shown].error_message_blob = IF stage = "Error" THEN w ELSE None
        /\ w # None /\ w \in Option(Blobs) /\ None \in Option(Blobs)
    BY <1>3, FindingAssumption DEF Opened, Option
  <1>5. CASE stage = "Draft"
    BY <1>4, <1>5 DEF Genuine, NoReports
  <1>6. CASE stage # "Draft"
    <2>1. ReportsOf(Shown) \in Message
      BY <1>4, CardAssumption DEF ReportsOf, Message
    <2>2. ReportsOf(Shown) \in signed
      BY <1>2, <1>3, <1>4, <1>6, <2>1 DEF ReportsOf, Outcomes
    <2>3. ~is_draft(Shown)
      BY <1>2, <1>4, <1>6 DEF is_draft, status_v1
    <2>. QED BY <2>2, <2>3 DEF Genuine
  <1>. QED BY <1>5, <1>6

\* Under the card, too, the reports of a finding are the ones that the enclave
\* signed for this finding and this submission, in one message.
THEOREM CardReportsSigned == CardSpec => []ReportsSigned
PROOF
  <1>. DEFINE GInv == IInv /\ SeenInv /\ \A f \in Findings : Genuine(f)
  <1>1. CardInit => GInv
    <2>. SUFFICES ASSUME CardInit, NEW f \in Findings PROVE Genuine(f)
      BY OpenedBooks, InitSeen
    <2>1. CASE f # Shown
      BY <2>1 DEF CardInit, OpenedWith, Genuine
    <2>2. CASE f = Shown
      BY <2>2, OpenedGenuine
    <2>. QED BY <2>1, <2>2
  <1>2. ASSUME GInv, [CardNext]_allVars PROVE GInv'
    <2>. SUFFICES ASSUME NEW f \in Findings PROVE Genuine(f)'
      BY <1>2, NextBooks, NextSeen
    <2>1. CASE UNCHANGED vars
      BY <1>2, <2>1 DEF vars, Genuine, NoReports, ReportsOf, is_draft, status_v1
    <2>2. ASSUME Next PROVE Genuine(f)'
      BY <1>2, <2>2, GenuineStep DEF IInv
    <2>3. ASSUME NEW job \in jobs, Batch(job) PROVE Genuine(f)'
      <3>1. CASE object'[f] = "deleted"
        BY <3>1 DEF Genuine
      <3>2. CASE object'[f] # "deleted"
        <4>1. object'[f] = object[f] /\ SameReports(f)
          BY <1>2, <2>3, <3>2, BatchFrame DEF SameReports
        <4>2. signed' = signed /\ ledger'[f].testing = ledger[f].testing
          BY <1>2, <2>3, BatchFrame
        <4>. QED BY <1>2, <4>1, <4>2, GenuineFrame
      <3>. QED BY <3>1, <3>2
    <2>. QED BY <1>2, <2>1, <2>2, <2>3, CardCalls
  <1>3. GInv => ReportsSigned
    BY GenuineSigned
  <1>4. GInv /\ [CardNext]_allVars => GInv'
    BY <1>2
  <1>. QED BY <1>1, <1>3, <1>4, PTL DEF CardSpec

-----------------------------------------------------------------------------
(* What the bounty may open *)

\* The coins for which something is owed yet.
OwedCoins(f) == {c \in Coins : Owed(f, c) # 0}

\* A finding counts as paid when no more coins are owed than settled payments
\* have been replaced.
FewOwed == IInv /\ Shown \in Live =>
             (is_paid(Shown) <=> Cardinality(OwedCoins(Shown)) <= ledger[Shown].drift)

LEMMA PaidIsFewOwed == FewOwed
PROOF
  <1>. SUFFICES ASSUME IInv, Shown \in Live
                PROVE  is_paid(Shown) <=> Cardinality(OwedCoins(Shown)) <= ledger[Shown].drift
    BY DEF FewOwed
  <1>. DEFINE S == SettledCoins(Shown)
              K == Contained(Shown)
  <1>1. /\ Shown \in Findings /\ inner[Shown] \in FindingV1 /\ ledger[Shown] \in Ledger
        /\ inner[Shown].payed_count = Cardinality(S) + ledger[Shown].drift
    BY CardAssumption DEF Live, IInv, TypeOK, Books
  <1>2. IsFiniteSet(K) /\ S \subseteq K
    BY FindingAssumption, FS_Subset DEF Contained, SettledCoins, Settled
  <1>3. OwedCoins(Shown) = K \ S
    <2>1. ASSUME NEW c \in Coins
          PROVE  Owed(Shown, c) # 0 <=>
                   inner[Shown].payments[c] # None /\ ~Settled(inner[Shown].payments[c])
      <3>1. inner[Shown].payments[c] \in Option(PaymentV1)
        BY <1>1 DEF FindingV1
      <3>. QED BY <3>1, FindingAssumption DEF Owed, Due, Settled, Option, PaymentV1
    <2>. QED BY <2>1 DEF OwedCoins, Contained, SettledCoins
  <1>. HIDE DEF S, K
  <1>4. /\ Cardinality(K \ S) = Cardinality(K) - Cardinality(S)
        /\ Cardinality(K) \in Nat /\ Cardinality(S) \in Nat
    <2>1. K \cap S = S /\ IsFiniteSet(S)
      BY <1>2, FS_Subset
    <2>. QED BY <1>2, <2>1, FS_Difference, FS_CardinalityType
  <1>5. is_paid(Shown) <=> inner[Shown].payed_count >= Cardinality(K)
    BY DEF is_paid, K
  <1>6. ledger[Shown].drift \in Nat
    BY <1>1 DEF Ledger
  <1>. QED BY <1>1, <1>3, <1>4, <1>5, <1>6

\* What comes in for a published finding stays in the books, so that no more is
\* owed for any coin than before.
LEMMA OwedFalls ==
  ASSUME IInv, IInv', Shown \in Live, Shown \in Live', is_published(Shown), is_published(Shown)',
         ledger'[Shown].price = ledger[Shown].price,
         \A c \in Coins : ledger'[Shown].received[c] >= ledger[Shown].received[c]
  PROVE  \A c \in Coins : /\ Owed(Shown, c) \in Nat /\ Owed(Shown, c)' \in Nat
                          /\ Owed(Shown, c)' <= Owed(Shown, c)
PROOF
  <1>1. /\ ledger[Shown] \in Ledger /\ ledger'[Shown] \in Ledger
        /\ Books(Shown) /\ Books(Shown)' /\ Shown \in Findings
    BY CardAssumption DEF IInv, TypeOK
  <1>. SUFFICES ASSUME NEW c \in Coins
                PROVE  /\ Owed(Shown, c) \in Nat /\ Owed(Shown, c)' \in Nat
                       /\ Owed(Shown, c)' <= Owed(Shown, c)
    OBVIOUS
  <1>2. /\ ledger[Shown].price[c] \in Nat
        /\ ledger[Shown].received[c] \in Nat /\ ledger'[Shown].received[c] \in Nat
        /\ ledger'[Shown].received[c] >= ledger[Shown].received[c]
        /\ ledger'[Shown].price[c] = ledger[Shown].price[c]
    BY <1>1 DEF Ledger
  <1>3. Owed(Shown, c) = IF ledger[Shown].price[c] > ledger[Shown].received[c]
                         THEN ledger[Shown].price[c] - ledger[Shown].received[c] ELSE 0
    BY <1>1 DEF Books, Live
  <1>4. Owed(Shown, c)' = IF ledger'[Shown].price[c] > ledger'[Shown].received[c]
                          THEN ledger'[Shown].price[c] - ledger'[Shown].received[c] ELSE 0
    BY <1>1 DEF Books, Live
  <1>. QED BY <1>2, <1>3, <1>4

\* Hence a finding that was paid stays paid.
LEMMA StaysPaidFor ==
  ASSUME IInv, IInv', Shown \in Live, Shown \in Live', is_published(Shown), is_published(Shown)',
         ledger'[Shown].price = ledger[Shown].price,
         ledger'[Shown].drift = ledger[Shown].drift,
         \A c \in Coins : ledger'[Shown].received[c] >= ledger[Shown].received[c],
         is_paid(Shown)
  PROVE  is_paid(Shown)'
PROOF
  <1>. DEFINE old == OwedCoins(Shown)
              new == OwedCoins(Shown)'
  <1>1. new \subseteq old /\ old \subseteq Coins
    BY OwedFalls DEF OwedCoins
  <1>2. FewOwed
    BY PaidIsFewOwed
  <1>3. FewOwed'
    BY PaidIsFewOwed, PTL
  <1>4. /\ Cardinality(old) <= ledger[Shown].drift
        /\ is_paid(Shown)' <=> Cardinality(new) <= ledger'[Shown].drift
    BY <1>2, <1>3 DEF FewOwed
  <1>5. ledger[Shown].drift \in Nat
    BY ShownTyped DEF Ledger
  <1>. HIDE DEF old, new
  <1>6. /\ Cardinality(new) <= Cardinality(old)
        /\ Cardinality(new) \in Nat /\ Cardinality(old) \in Nat
    <2>1. IsFiniteSet(old) /\ IsFiniteSet(new)
      BY <1>1, FindingAssumption, FS_Subset
    <2>. QED BY <1>1, <2>1, FS_Subset, FS_CardinalityType
  <1>. QED BY <1>4, <1>5, <1>6

\* A batch on a published finding pays or withdraws: what came in stays in the
\* books, the price and the drift are the same.
LEMMA BatchPublished ==
  ASSUME IInv, SeenInv, NEW job \in jobs, Batch(job), is_published(Shown)
  PROVE  /\ Shown \in Live /\ Shown \in Live' /\ SameReports(Shown)
         /\ ledger'[Shown].price = ledger[Shown].price
         /\ ledger'[Shown].drift = ledger[Shown].drift
         /\ \A c \in Coins : ledger'[Shown].received[c] >= ledger[Shown].received[c]
PROOF
  <1>1. Shown \in Live /\ object'[Shown] = object[Shown] /\ SameReports(Shown)
    BY BatchFrame DEF Batch, Executes
  <1>2. Shown \in Live'
    BY <1>1, CardAssumption DEF Live
  <1>3. /\ ledger \in [Findings -> Ledger] /\ ledger[Shown] \in Ledger
        /\ Shown \in Findings /\ ledger[Shown].received \in [Coins -> Nat]
    BY ShownTyped, CardAssumption DEF Ledger
  <1>4. job.kind \notin {"remove", "destroy"}
    BY DEF Batch, Executes
  <1>5. CASE job.kind = "pay" /\ Pays(job.seen)
    <2>. DEFINE amounts == Amounts(job.seen)
                q == [c \in Coins |-> ledger[Shown].received[c]
                                        + (IF c \in DOMAIN amounts THEN amounts[c] ELSE 0)]
    <2>1. ledger' = [ledger EXCEPT ![Shown].received = q]
      BY <1>3, <1>5 DEF Pays, Ledger
    <2>2. /\ ledger'[Shown].price = ledger[Shown].price
          /\ ledger'[Shown].drift = ledger[Shown].drift
          /\ ledger'[Shown].received = q
      <3>. HIDE DEF q
      <3>. QED BY <1>3, <2>1 DEF Ledger
    <2>3. \A c \in DOMAIN amounts : amounts[c] \in Nat
      <3>1. JobTyped(job) /\ PaymentsTyped /\ ContractInv
        BY DEF SeenInv, JobsTyped
      <3>2. DOMAIN amounts = Touched("pay", job.seen) /\ Touched("pay", job.seen) \subseteq Coins
        BY <1>5, <3>1 DEF Amounts, Touched, JobTyped
      <3>3. Executes(job.kind, job.seen)
        BY DEF Batch
      <3>. QED BY <1>5, <3>1, <3>2, <3>3, PaysEntries
    <2>4. ASSUME NEW c \in Coins PROVE ledger'[Shown].received[c] >= ledger[Shown].received[c]
      <3>1. ledger[Shown].received[c] \in Nat
        BY <1>3
      <3>. QED BY <2>2, <2>3, <3>1
    <2>. QED BY <1>1, <1>2, <2>2, <2>4
  <1>6. CASE job.kind = "withdraw" /\ Withdraws(Touched(job.kind, job.seen))
    <2>1. PICK q : ledger' = [ledger EXCEPT ![Shown].released = q]
      BY <1>6 DEF Withdraws
    <2>2. /\ ledger'[Shown].price = ledger[Shown].price
          /\ ledger'[Shown].drift = ledger[Shown].drift
          /\ ledger'[Shown].received = ledger[Shown].received
      BY <1>3, <2>1 DEF Ledger
    <2>. QED BY <1>1, <1>2, <1>3, <2>2
  <1>. QED BY <1>4, <1>5, <1>6 DEF Batch, Effect

\* Under the card, too, what the bounty may open stays open: no transaction made
\* of an old view of the payments takes a report back.
THEOREM CardAccessIsForGood == CardSpec => BountyAccessNeverRevoked
PROOF
  <1>. DEFINE Kept == \A b \in Bounties, id \in SealId :
                        BountyMayOpen(b, id) => BountyMayOpen(b, id)'
  <1>1. CardInit => IInv /\ SeenInv
    BY OpenedBooks, InitSeen
  <1>2. IInv /\ SeenInv /\ [CardNext]_allVars => (IInv /\ SeenInv)'
    BY NextBooks, NextSeen
  <1>3. ASSUME IInv, SeenInv, [CardNext]_allVars PROVE Kept \/ UNCHANGED vars
    <2>. SUFFICES ASSUME NEW b \in Bounties, NEW id \in SealId, BountyMayOpen(b, id),
                         ~UNCHANGED vars
                  PROVE  BountyMayOpen(b, id)'
      OBVIOUS
    <2>1. PICK f \in Findings : seal_approve_with_bug_bounty(id, b, f)
      BY DEF BountyMayOpen
    <2>2. f \in Live /\ is_published(f) /\ object[f] = "live"
      BY <2>1 DEF seal_approve_with_bug_bounty, Live
    <2>3. ASSUME Next PROVE BountyMayOpen(b, id)'
      BY <1>3, <2>1, <2>2, <2>3, PublishedStep, StaysOpen
    <2>4. ASSUME NEW job \in jobs, Batch(job) PROVE BountyMayOpen(b, id)'
      <3>1. CASE f # Shown
        <4>1. object'[f] = object[f] /\ inner'[f] = inner[f]
          BY <1>3, <2>4, <3>1, BatchFrame
        <4>2. SameReports(f) /\ (is_paid(f) => is_paid(f)')
          BY <4>1 DEF SameReports, is_paid, Contained
        <4>. QED BY <2>1, <2>2, <4>1, <4>2, StaysOpen
      <3>2. CASE f = Shown
        <4>1. /\ Shown \in Live' /\ object'[Shown] = "live" /\ SameReports(Shown)
              /\ ledger'[Shown].price = ledger[Shown].price
              /\ ledger'[Shown].drift = ledger[Shown].drift
              /\ \A c \in Coins : ledger'[Shown].received[c] >= ledger[Shown].received[c]
          BY <1>3, <2>2, <2>4, <3>2, BatchPublished DEF Live
        <4>2. is_published(Shown)'
          BY <2>2, <3>2, <4>1 DEF SameReports, is_published, status_v1
        <4>3. IInv'
          BY <1>3, NextBooks
        <4>4. is_paid(Shown) => is_paid(Shown)'
          BY <1>3, <2>2, <3>2, <4>1, <4>2, <4>3, StaysPaidFor
        <4>. QED BY <2>1, <3>2, <4>1, <4>4, StaysOpen
      <3>. QED BY <3>1, <3>2
    <2>. QED BY <1>3, <2>3, <2>4, CardCalls
  <1>4. IInv /\ SeenInv /\ [CardNext]_allVars => [Kept]_vars
    BY <1>3
  <1>. QED BY <1>1, <1>2, <1>4, PTL DEF CardSpec, BountyAccessNeverRevoked

-----------------------------------------------------------------------------
(* The sale under the card *)

\* A transaction of the card is several calls at once, so it need not be one step
\* of FindingSale; what the sale promises of the life cycle and of the debt is
\* kept by the whole transaction all the same.
LifeCycle == {<<"absent", "Draft">>, <<"Draft", "Committed">>, <<"Draft", "Error">>,
              <<"Committed", "Published">>}
               \cup Sale!Negotiable \X {"destroyed"}

KeepsSale(f) ==
  /\ stageOf(f)' = stageOf(f) \/ <<stageOf(f), stageOf(f)'>> \in LifeCycle
  /\ stageOf(f) = "Published" => \A c \in Coins : Owed(f, c)' <= Owed(f, c)

LEMMA SaleMoves ==
  ASSUME NEW f \in Findings, NEW g \in Findings, NEW from, NEW to, Sale!Move(g, from, to)
  PROVE  /\ stageOf(f)' = stageOf(f) \/ (stageOf(f) \in from /\ stageOf(f)' = to)
         /\ \A c \in Coins : Owed(f, c)' = Owed(f, c)
PROOF
  <1>1. stageMap[g] \in from /\ stageMap' = [stageMap EXCEPT ![g] = to] /\ debtMap' = debtMap
    BY DEF Sale!Move, stageMap, debtMap
  <1>2. stageMap[f] = stageOf(f) /\ stageMap'[f] = stageOf(f)' /\ DOMAIN stageMap = Findings
    BY DEF stageMap
  <1>3. \A c \in Coins : Owed(f, c)' = Owed(f, c)
    <2>1. \A c \in Coins : debtMap[f][c] = Owed(f, c) /\ debtMap'[f][c] = Owed(f, c)'
      BY DEF debtMap
    <2>. QED BY <1>1, <2>1
  <1>4. CASE f = g
    BY <1>1, <1>2, <1>3, <1>4
  <1>5. CASE f # g
    BY <1>1, <1>2, <1>3, <1>5
  <1>. QED BY <1>4, <1>5

LEMMA SaleKeeps ==
  ASSUME IInv, IInv', [Sale!Next]_(Sale!vars), NEW f \in Findings
  PROVE  KeepsSale(f)
PROOF
  <1>1. \A c \in Coins : Owed(f, c) \in Nat /\ Owed(f, c)' \in Nat
    BY HeldType, HeldTypePrimed DEF IInv
  <1>2. /\ stageMap[f] = stageOf(f) /\ stageMap'[f] = stageOf(f)'
        /\ \A c \in Coins : debtMap[f][c] = Owed(f, c) /\ debtMap'[f][c] = Owed(f, c)'
        /\ DOMAIN debtMap = Findings /\ \A g \in Findings : DOMAIN debtMap[g] = Coins
    BY DEF stageMap, debtMap
  <1>3. CASE UNCHANGED Sale!vars
    <2>1. stageMap' = stageMap /\ debtMap' = debtMap
      BY <1>3 DEF Sale!vars, stageMap, debtMap
    <2>. QED BY <1>1, <1>2, <2>1 DEF KeepsSale
  <1>4. ASSUME NEW g \in Findings,
               Sale!Open(g) \/ Sale!Report(g) \/ Sale!Fail(g) \/ Sale!Publish(g) \/ Sale!GiveUp(g)
        PROVE  KeepsSale(f)
    <2>1. ASSUME NEW from, NEW to, Sale!Move(g, from, to), from \X {to} \subseteq LifeCycle
          PROVE  KeepsSale(f)
      BY <1>1, <2>1, SaleMoves DEF KeepsSale
    <2>2. /\ {"absent"} \X {"Draft"} \subseteq LifeCycle
          /\ {"Draft"} \X {"Committed"} \subseteq LifeCycle
          /\ {"Draft"} \X {"Error"} \subseteq LifeCycle
          /\ {"Committed"} \X {"Published"} \subseteq LifeCycle
          /\ Sale!Negotiable \X {"destroyed"} \subseteq LifeCycle
      BY DEF LifeCycle
    <2>. QED BY <1>4, <2>1, <2>2 DEF Sale!Open, Sale!Report, Sale!Fail, Sale!Publish, Sale!GiveUp
  <1>5. ASSUME NEW g \in Findings, NEW d \in Coins, Sale!SetTerms(g, d) PROVE KeepsSale(f)
    <2>1. /\ stageMap[g] \in Sale!Negotiable /\ stageMap' = stageMap
          /\ debtMap' = [debtMap EXCEPT ![g][d] = debtMap'[g][d]]
      BY <1>5 DEF Sale!SetTerms, stageMap, debtMap
    <2>2. stageOf(f) = "Published" => f # g
      BY <1>2, <2>1 DEF Sale!Negotiable
    <2>3. f # g => debtMap'[f] = debtMap[f]
      BY <1>2, <2>1
    <2>. QED BY <1>1, <1>2, <2>1, <2>2, <2>3 DEF KeepsSale
  <1>6. ASSUME NEW g \in Findings, NEW d \in Coins, Sale!PayOff(g, d) PROVE KeepsSale(f)
    <2>1. /\ stageMap' = stageMap /\ debtMap'[g][d] \in 0 .. (debtMap[g][d] - 1)
          /\ debtMap' = [debtMap EXCEPT ![g][d] = debtMap'[g][d]]
      BY <1>6 DEF Sale!PayOff, stageMap, debtMap
    <2>2. ASSUME NEW c \in Coins PROVE debtMap'[f][c] <= debtMap[f][c]
      <3>1. CASE f = g /\ c = d
        BY <1>1, <1>2, <2>1, <3>1
      <3>2. CASE ~(f = g /\ c = d)
        <4>1. debtMap'[f][c] = debtMap[f][c]
          BY <1>2, <2>1, <3>2
        <4>. QED BY <1>1, <1>2, <4>1
      <3>. QED BY <3>1, <3>2
    <2>. QED BY <1>2, <2>1, <2>2 DEF KeepsSale
  <1>. QED BY <1>3, <1>4, <1>5, <1>6 DEF Sale!Next

LEMMA BatchKeeps ==
  ASSUME IInv, IInv', SeenInv, NEW job \in jobs, Batch(job), NEW f \in Findings
  PROVE  KeepsSale(f)
PROOF
  <1>1. \A c \in Coins : Owed(f, c) \in Nat /\ Owed(f, c)' \in Nat
    BY HeldType, HeldTypePrimed DEF IInv
  <1>2. CASE f # Shown
    <2>1. object'[f] = object[f] /\ inner'[f] = inner[f]
      BY <1>2, BatchFrame
    <2>2. stageOf(f)' = stageOf(f) /\ \A c \in Coins : Owed(f, c)' = Owed(f, c)
      BY <2>1, FrameMaps
    <2>. QED BY <1>1, <2>2 DEF KeepsSale
  <1>3. CASE f = Shown /\ is_published(Shown)
    <2>1. /\ Shown \in Live /\ Shown \in Live' /\ SameReports(Shown)
          /\ ledger'[Shown].price = ledger[Shown].price
          /\ \A c \in Coins : ledger'[Shown].received[c] >= ledger[Shown].received[c]
      BY <1>3, BatchPublished
    <2>2. is_published(Shown)'
      BY <1>3, <2>1 DEF SameReports, is_published, status_v1
    <2>3. \A c \in Coins : Owed(Shown, c)' <= Owed(Shown, c)
      BY <1>3, <2>1, <2>2, OwedFalls
    <2>4. stageOf(Shown) = "Published" /\ stageOf(Shown)' = "Published"
      BY <1>3, <2>1, <2>2 DEF Live, stageOf, is_published
    <2>. QED BY <1>3, <2>3, <2>4 DEF KeepsSale
  <1>4. CASE f = Shown /\ ~is_published(Shown)
    <2>1. object[Shown] = "live" /\ stageOf(Shown) = status_v1(Shown)
      BY LiveShown DEF Batch, Executes, stageOf
    <2>2. stageOf(Shown) \in Sale!Negotiable
      BY <1>4, <2>1 DEF Sale!Negotiable, is_published, status_v1
    <2>3. stageOf(Shown) # "Published"
      BY <2>2 DEF Sale!Negotiable
    <2>4. CASE object'[Shown] = "deleted"
      <3>1. stageOf(Shown)' = "destroyed"
        BY <2>4 DEF stageOf
      <3>2. <<stageOf(Shown), "destroyed">> \in LifeCycle
        BY <2>2 DEF LifeCycle
      <3>. QED BY <1>4, <2>3, <3>1, <3>2 DEF KeepsSale
    <2>5. CASE object'[Shown] = object[Shown] /\ SameReports(Shown)
      <3>1. stageOf(Shown)' = stageOf(Shown)
        BY <2>5 DEF stageOf, status_v1, SameReports
      <3>. QED BY <1>4, <2>3, <3>1 DEF KeepsSale
    <2>. QED BY <2>4, <2>5, BatchFrame
  <1>. QED BY <1>2, <1>3, <1>4

\* Whatever the page's transactions were made of, a finding goes through its life
\* cycle in order and leaves it never, and from publication on no coin is owed
\* more than before.
THEOREM CardKeepsTheSale == CardSpec => [][\A f \in Findings : KeepsSale(f)]_vars
PROOF
  <1>1. CardInit => IInv /\ SeenInv
    BY OpenedBooks, InitSeen
  <1>2. IInv /\ SeenInv /\ [CardNext]_allVars => (IInv /\ SeenInv)'
    BY NextBooks, NextSeen
  <1>3. ASSUME IInv, SeenInv, [CardNext]_allVars
        PROVE  UNCHANGED vars \/ \A f \in Findings : KeepsSale(f)
    <2>1. IInv'
      BY <1>3, NextBooks
    <2>2. Next => \A f \in Findings : KeepsSale(f)
      BY <1>3, <2>1, StepRefines, SaleKeeps
    <2>3. ASSUME NEW job \in jobs, Batch(job) PROVE \A f \in Findings : KeepsSale(f)
      BY <1>3, <2>1, <2>3, BatchKeeps
    <2>. QED BY <1>3, <2>2, <2>3, CardCalls
  <1>4. IInv /\ SeenInv /\ [CardNext]_allVars => [\A f \in Findings : KeepsSale(f)]_vars
    BY <1>3
  <1>. QED BY <1>1, <1>2, <1>4, PTL DEF CardSpec

-----------------------------------------------------------------------------
(* The state of the card *)

\* The session, the lists and the reports.
RestTyped ==
  /\ listed \in BOOLEAN /\ user \in Users \cup {None} /\ connected \in BOOLEAN
  /\ downloads \subseteq [k : Fields, by : Users]
  /\ links \in [Fields -> Users \cup {None}]
  /\ late \subseteq Fields /\ events \in 0 .. MaxEvents

\* What is asked for has no answer under way.
FetchTyped ==
  /\ DOMAIN cache = Entries /\ \A e \in Entries : cache[e] = Missing \/ cache[e] \in Answer(e)
  /\ asked \subseteq Entries
  /\ DOMAIN answers \subseteq Entries \ asked
  /\ \A e \in DOMAIN answers : answers[e] \in Answer(e)
  /\ overtaken \subseteq Entries

\* There are finitely many transactions, so that there is an id for another one.
JobsKnown ==
  /\ jobs \subseteq Job /\ IsFiniteSet(jobs)
  /\ \A i, j \in jobs : i.id = j.id => i = j
  /\ mistaken \subseteq Kinds

LEMMA QuietRest ==
  ASSUME RestTyped, UNCHANGED <<listed, session, reports>>, Event \/ UNCHANGED events
  PROVE  RestTyped'
PROOF BY CardAssumption DEF RestTyped, session, reports, Event

LEMMA MountRest ==
  ASSUME RestTyped, NEW there \in BOOLEAN, Mount(there), UNCHANGED session,
         Event \/ UNCHANGED events
  PROVE  RestTyped'
PROOF
  <1>1. events' \in 0 .. MaxEvents /\ UNCHANGED <<user, connected>>
    BY CardAssumption DEF RestTyped, session, Event
  <1>2. /\ listed' \in BOOLEAN
        /\ downloads' \subseteq [k : Fields, by : Users]
        /\ links' \in [Fields -> Users \cup {None}]
        /\ late' \subseteq Fields
    BY DEF RestTyped, Mount, resetUrls, reports
  <1>. QED BY <1>1, <1>2 DEF RestTyped

LEMMA JobRest == ASSUME RestTyped, NEW job \in jobs, JobSteps(job) PROVE RestTyped'
PROOF
  <1>1. CASE Sign(job) \/ Decline(job) \/ Execute(job) \/ Abort(job) \/ WaitFails(job)
    BY <1>1, QuietRest DEF Sign, Decline, Execute, Abort, WaitFails, data
  <1>2. CASE Settle(job) \/ RemoveTimer(job)
    BY <1>2, QuietRest DEF Settle, RemoveTimer
  <1>3. CASE DestroyTimer(job)
    BY <1>3, MountRest DEF DestroyTimer
  <1>. QED BY <1>1, <1>2, <1>3 DEF JobSteps

LEMMA NextRest == ASSUME RestTyped, [CardNext]_allVars PROVE RestTyped'
PROOF
  <1>1. CASE flushRequestQueue \/ getDynamicFields
    BY <1>1, QuietRest DEF flushRequestQueue, getDynamicFields, Reading
  <1>2. CASE Focus \/ Others
    BY <1>2, QuietRest DEF Focus, Others, data
  <1>3. CASE FetchIds
    <2>1. PICK there \in {getAllFindingIds, getUserFindingIds} : Event /\ Mount(there)
      BY <1>3 DEF FetchIds
    <2>2. there \in BOOLEAN
      <3>1. CASE there = getAllFindingIds
        BY <3>1 DEF getAllFindingIds
      <3>2. CASE there = getUserFindingIds /\ Shown \in Live
        <4>1. getUserFindingIds = TRUE
          BY <3>2, Zenon DEF getUserFindingIds
        <4>. QED BY <3>2, <4>1, Zenon
      <3>3. CASE there = getUserFindingIds /\ Shown \notin Live
        <4>1. getUserFindingIds = FALSE
          BY <3>3, SMT DEF getUserFindingIds
        <4>2. there = FALSE
          BY <3>3, <4>1
        <4>. QED BY <4>2
      <3>4. there = getAllFindingIds \/ there = getUserFindingIds
        BY Zenon
      <3>. QED BY <3>1, <3>2, <3>3, <3>4, Zenon
    <2>. QED BY <1>3, <2>1, <2>2, MountRest DEF FetchIds
  <1>4. ASSUME NEW S \in Arrived, Land(S) \/ FetchFails(S) PROVE RestTyped'
    BY <1>4, QuietRest DEF Land, FetchFails
  <1>5. ASSUME NEW kind \in Kinds, Start(kind) PROVE RestTyped'
    BY <1>5, QuietRest DEF Start
  <1>6. ASSUME NEW k \in Fields, handleDownload(k) PROVE RestTyped'
    <2>1. user \in Users /\ downloads' = downloads \cup {[k |-> k, by |-> user]}
      BY <1>6 DEF handleDownload, PrepareOffered, RestTyped
    <2>2. UNCHANGED <<listed, session, links, late>> /\ events' \in 0 .. MaxEvents
      BY <1>6, CardAssumption DEF handleDownload, Event, RestTyped
    <2>. QED BY <2>1, <2>2 DEF RestTyped, session
  <1>7. ASSUME NEW d \in downloads, Decrypted(d) PROVE RestTyped'
    <2>1. d.k \in Fields /\ d.by \in Users
      BY DEF RestTyped
    <2>2. links' \in [Fields -> Users \cup {None}] /\ late' \subseteq Fields
      BY <1>7, <2>1 DEF Decrypted, setUrl, RestTyped
    <2>3. downloads' \subseteq downloads /\ UNCHANGED <<listed, session, events>>
      BY <1>7 DEF Decrypted, data
    <2>. QED BY <2>2, <2>3 DEF RestTyped, session
  <1>8. ASSUME NEW d \in downloads, DownloadFails(d) PROVE RestTyped'
    BY <1>8 DEF DownloadFails, RestTyped, session, data
  <1>9. CASE SessionChanges
    <2>1. links' \in [Fields -> Users \cup {None}] /\ late' \subseteq Fields
      BY <1>9 DEF SessionChanges, resetUrls, RestTyped
    <2>2. events' \in 0 .. MaxEvents /\ UNCHANGED <<listed, downloads>>
          /\ user' \in Users \cup {None} /\ connected' \in BOOLEAN
      BY <1>9, CardAssumption DEF SessionChanges, Event, RestTyped, data
    <2>. QED BY <2>1, <2>2 DEF RestTyped
  <1>10. CASE UNCHANGED allVars
    BY <1>10, QuietRest DEF allVars, cardVars, data
  <1>11. CASE CardNext
    BY <1>1, <1>2, <1>3, <1>4, <1>5, <1>6, <1>7, <1>8, <1>9, <1>11, JobRest
       DEF CardNext, handleRemovePayment, handlePay, handlePublish, handleDestroy,
           handleWithdraw, Kinds
  <1>. QED BY <1>10, <1>11

\* What the node reads is what the query can have for data.
LEMMA AnswerIs ==
  /\ Answer("outer") = {Shown, Gone} /\ Answer("inner") = FindingV1 \cup {Gone}
  /\ Answer("fields") = SUBSET Coins
  /\ Answer("cap") = Users \cup {Gone} /\ Answer("bounty") = Users \cup {Gone}
  /\ \A c \in Coins : Answer(c) = PaymentV1 \cup {Gone}
PROOF BY CardAssumption DEF Answer

LEMMA ReadIsAnswer == ASSUME IInv, NEW e \in Entries PROVE Read(e) \in Answer(e)
PROOF
  <1>1. CASE e \in Coins
    BY <1>1, AnswerIs, ReadIs, ShownTyped DEF Option
  <1>2. CASE e = "inner"
    <2>1. [inner[Shown] EXCEPT !.payments = NoPayments] \in FindingV1
      BY ShownTyped DEF FindingV1, NoPayments, Option
    <2>2. Read("inner") = IF Shown \in Live
                          THEN [inner[Shown] EXCEPT !.payments = NoPayments] ELSE Gone
      BY CardAssumption DEF Read
    <2>. QED BY <1>2, <2>1, <2>2, AnswerIs
  <1>3. CASE e \in {"outer", "cap", "bounty", "fields"}
    BY <1>3, AnswerIs, ReadIs, CardAssumption DEF Contained
  <1>. QED BY <1>1, <1>2, <1>3 DEF Entries

LEMMA EnabledEntry == ASSUME NEW e, Enabled(e) PROVE e \in Entries
PROOF BY DEF Enabled, EnabledIn, Entries

\* A step that drops answers, asks for what is idle or dropped, and forgets data.
LEMMA AskedTyped ==
  ASSUME FetchTyped, NEW D, NEW A, NEW B, A \subseteq Entries,
         \A e \in A : Idle(e) \/ e \in D,
         answers' = Without(answers, D), asked' = (asked \cup A) \ B, overtaken' \subseteq Entries,
         DOMAIN cache' = Entries,
         \A e \in Entries : cache'[e] \in {Missing, cache[e]} \/ cache'[e] \in Answer(e)
  PROVE  FetchTyped'
PROOF
  <1>1. DOMAIN answers' = DOMAIN answers \ D
        /\ \A e \in DOMAIN answers' : answers'[e] = answers[e]
    BY DEF Without
  <1>2. DOMAIN answers' \subseteq Entries \ asked'
    BY <1>1 DEF FetchTyped, Idle
  <1>3. asked' \subseteq Entries
    BY DEF FetchTyped
  <1>4. \A e \in DOMAIN answers' : answers'[e] \in Answer(e)
    BY <1>1 DEF FetchTyped
  <1>5. \A e \in Entries : cache'[e] = Missing \/ cache'[e] \in Answer(e)
    BY DEF FetchTyped
  <1>6. \A e : Answer(e)' = Answer(e)
    BY DEF Answer
  <1>. QED BY <1>2, <1>3, <1>4, <1>5, <1>6 DEF FetchTyped

LEMMA LandTyped == ASSUME IInv, FetchTyped, NEW S \in Arrived, Land(S) PROVE FetchTyped'
PROOF
  <1>. DEFINE A == {e \in Entries : EnabledIn(cache', e) /\ ~Enabled(e) /\ Idle(e)}
  <1>1. S \subseteq DOMAIN answers
    BY DEF Arrived
  <1>2. /\ cache' = [e \in Entries |-> IF e \in S THEN answers[e] ELSE cache[e]]
        /\ asked' = asked \cup A /\ answers' = Without(answers, S)
        /\ overtaken' \subseteq overtaken
    BY DEF Land, Ask
  <1>3. A \subseteq Entries /\ \A e \in A : Idle(e)
    OBVIOUS
  <1>. HIDE DEF A
  <1>4. \A e \in Entries : cache'[e] \in {Missing, cache[e]} \/ cache'[e] \in Answer(e)
    BY <1>1, <1>2 DEF FetchTyped
  <1>5. DOMAIN cache' = Entries /\ overtaken' \subseteq Entries /\ asked' = (asked \cup A) \ {}
    BY <1>2 DEF FetchTyped
  <1>. QED BY <1>2, <1>3, <1>4, <1>5, AskedTyped

LEMMA ReadingTyped ==
  ASSUME IInv, FetchTyped, NEW S, S \subseteq asked, Reading(S) PROVE FetchTyped'
PROOF
  <1>1. /\ asked' = asked \ S /\ UNCHANGED <<cache, overtaken>>
        /\ DOMAIN answers' = DOMAIN answers \cup S
        /\ \A e \in DOMAIN answers' : answers'[e] = IF e \in S THEN Read(e) ELSE answers[e]
    BY DEF Reading
  <1>2. S \subseteq Entries
    BY DEF FetchTyped
  <1>3. \A e \in DOMAIN answers' : answers'[e] \in Answer(e)
    BY <1>1, <1>2, ReadIsAnswer DEF FetchTyped
  <1>4. DOMAIN answers' \subseteq Entries \ asked'
    BY <1>1, <1>2 DEF FetchTyped
  <1>5. \A e : Answer(e)' = Answer(e)
    BY DEF Answer
  <1>. QED BY <1>1, <1>3, <1>4, <1>5 DEF FetchTyped

\* The cache is left alone; what was dropped may be asked for again.
LEMMA SameCache ==
  ASSUME FetchTyped, UNCHANGED cache, overtaken' \subseteq Entries,
         NEW D, NEW A, A \subseteq Entries, \A e \in A : Idle(e) \/ e \in D,
         answers' = Without(answers, D), asked' = asked \cup A
  PROVE  FetchTyped'
PROOF
  <1>1. /\ DOMAIN cache' = Entries
        /\ \A e \in Entries : cache'[e] \in {Missing, cache[e]} \/ cache'[e] \in Answer(e)
    BY DEF FetchTyped
  <1>2. asked' = (asked \cup A) \ {}
    OBVIOUS
  <1>. QED BY <1>1, <1>2, AskedTyped

LEMMA FailsTyped == ASSUME FetchTyped, NEW S \in Arrived, FetchFails(S) PROVE FetchTyped'
PROOF
  <1>1. S \subseteq DOMAIN answers /\ S \subseteq Entries
    BY DEF Arrived, FetchTyped
  <1>2. answers' = Without(answers, S) /\ UNCHANGED cache
    BY DEF FetchFails
  <1>3. CASE asked' = asked \cup S /\ UNCHANGED overtaken
    <2>1. \A e \in S : Idle(e) \/ e \in S
      OBVIOUS
    <2>2. overtaken' \subseteq Entries
      BY <1>3 DEF FetchTyped
    <2>. QED BY <1>1, <1>2, <1>3, <2>1, <2>2, SameCache
  <1>4. CASE overtaken' = overtaken \cup S /\ UNCHANGED asked
    <2>. DEFINE A == {}
    <2>1. overtaken' \subseteq Entries /\ asked' = asked \cup A
      BY <1>1, <1>4 DEF FetchTyped
    <2>2. A \subseteq Entries /\ \A e \in A : Idle(e) \/ e \in S
      OBVIOUS
    <2>. HIDE DEF A
    <2>. QED BY <1>2, <2>1, <2>2, SameCache
  <1>. QED BY <1>3, <1>4 DEF FetchFails, Ask

\* A step that asks for what is stale, or for nothing.
LEMMA QuietTyped ==
  ASSUME FetchTyped, UNCHANGED <<cache, answers>>, overtaken' \subseteq Entries,
         NEW A, A \subseteq Stale, asked' = asked \cup A
  PROVE  FetchTyped'
PROOF
  <1>1. A \subseteq Entries /\ \A e \in A : Idle(e)
    BY DEF Stale
  <1>2. DOMAIN answers' \subseteq Entries \ asked' /\ asked' \subseteq Entries
    BY <1>1 DEF FetchTyped, Idle
  <1>3. \A e : Answer(e)' = Answer(e)
    BY DEF Answer
  <1>. QED BY <1>2, <1>3 DEF FetchTyped

LEMMA StillTyped ==
  ASSUME FetchTyped, UNCHANGED <<cache, asked, answers>>, overtaken' \subseteq Entries
  PROVE  FetchTyped'
PROOF
  <1>. DEFINE A == {}
  <1>1. A \subseteq Stale /\ asked' = asked \cup A
    OBVIOUS
  <1>. HIDE DEF A
  <1>. QED BY <1>1, QuietTyped

LEMMA RemovedTyped ==
  ASSUME FetchTyped, NEW S, NEW new, removeQueries(S, new), overtaken' \subseteq Entries,
         \A e \in Entries : new[e] = cache[e] \/ new[e] \in Answer(e)
  PROVE  FetchTyped'
PROOF
  <1>. DEFINE A == {}
  <1>1. /\ cache' = [e \in Entries |-> IF e \in S THEN Missing ELSE new[e]]
        /\ asked' = (asked \cup A) \ S /\ answers' = Without(answers, S)
    BY DEF removeQueries
  <1>2. \A e \in Entries : cache'[e] \in {Missing, cache[e]} \/ cache'[e] \in Answer(e)
    BY <1>1
  <1>3. DOMAIN cache' = Entries /\ A \subseteq Entries /\ \A e \in A : Idle(e) \/ e \in S
    BY <1>1
  <1>. HIDE DEF A
  <1>. QED BY <1>1, <1>2, <1>3, AskedTyped

LEMMA JobFetch == ASSUME FetchTyped, NEW job \in jobs, JobSteps(job) PROVE FetchTyped'
PROOF
  <1>1. CASE Sign(job) \/ Decline(job) \/ Abort(job)
    BY <1>1, StillTyped DEF Sign, Decline, Abort, data, FetchTyped
  <1>2. CASE Execute(job) \/ WaitFails(job)
    <2>1. UNCHANGED <<cache, asked, answers>> /\ overtaken' \subseteq overtaken \cup Entries
      BY <1>2 DEF Execute, WaitFails, data
    <2>. QED BY <2>1, StillTyped DEF FetchTyped
  <1>3. CASE Settle(job)
    <2>. DEFINE R == Refetched(Outdated(job))
    <2>1. R \subseteq Entries
      BY EnabledEntry DEF Refetched
    <2>2. asked' = asked \cup R /\ answers' = Without(answers, R) /\ UNCHANGED cache
      BY <1>3 DEF Settle, invalidateQueries, Ask
    <2>3. overtaken' \subseteq Entries
      BY <1>3 DEF Settle, Passed, FetchTyped
    <2>4. \A e \in R : Idle(e) \/ e \in R
      OBVIOUS
    <2>. HIDE DEF R
    <2>. QED BY <2>1, <2>2, <2>3, <2>4, SameCache
  <1>4. CASE RemoveTimer(job)
    <2>. DEFINE new == [cache EXCEPT !["fields"] = {}]
    <2>1. removeQueries(DOMAIN job.seen, new)
      BY <1>4 DEF RemoveTimer
    <2>2. overtaken' \subseteq overtaken \cup {"fields"}
      BY <1>4 DEF RemoveTimer
    <2>3. overtaken' \subseteq Entries
      BY <2>2 DEF FetchTyped, Entries
    <2>4. \A e \in Entries : new[e] = cache[e] \/ new[e] \in Answer(e)
      BY AnswerIs DEF FetchTyped
    <2>. HIDE DEF new
    <2>. QED BY <2>1, <2>3, <2>4, RemovedTyped
  <1>5. CASE DestroyTimer(job)
    <2>1. removeQueries({"outer", "fields"} \cup DOMAIN job.seen, cache) /\ UNCHANGED overtaken
      BY <1>5 DEF DestroyTimer
    <2>. QED BY <2>1, RemovedTyped DEF FetchTyped
  <1>. QED BY <1>1, <1>2, <1>3, <1>4, <1>5 DEF JobSteps

LEMMA NextFetch == ASSUME IInv, FetchTyped, [CardNext]_allVars PROVE FetchTyped'
PROOF
  <1>1. CASE flushRequestQueue \/ getDynamicFields
    <2>1. asked \cap Objects \subseteq asked /\ ("fields" \in asked => {"fields"} \subseteq asked)
      OBVIOUS
    <2>. QED BY <1>1, <2>1, ReadingTyped DEF flushRequestQueue, getDynamicFields
  <1>2. CASE Focus
    BY <1>2, QuietTyped DEF Focus, Ask, FetchTyped
  <1>3. CASE FetchIds
    <2>1. PICK A \in {Stale, {}} : asked' = asked \cup A
      BY <1>3 DEF FetchIds, Ask
    <2>2. UNCHANGED <<cache, answers, overtaken>>
      BY <1>3 DEF FetchIds
    <2>. QED BY <2>1, <2>2, QuietTyped DEF FetchTyped
  <1>4. ASSUME NEW kind \in Kinds, Start(kind) PROVE FetchTyped'
    BY <1>4, QuietTyped DEF Start, Ask, FetchTyped
  <1>5. ASSUME NEW k \in Fields, handleDownload(k) PROVE FetchTyped'
    BY <1>5, QuietTyped DEF handleDownload, Ask, FetchTyped
  <1>6. ASSUME NEW d \in downloads, Decrypted(d) \/ DownloadFails(d) PROVE FetchTyped'
    BY <1>6, StillTyped DEF Decrypted, DownloadFails, data, FetchTyped
  <1>7. CASE SessionChanges \/ Others
    BY <1>7, StillTyped DEF SessionChanges, Others, data, FetchTyped
  <1>8. CASE UNCHANGED allVars
    BY <1>8, StillTyped DEF allVars, cardVars, data, FetchTyped
  <1>9. CASE CardNext
    BY <1>1, <1>2, <1>3, <1>4, <1>5, <1>6, <1>7, <1>9, LandTyped, FailsTyped, JobFetch
       DEF CardNext, handleRemovePayment, handlePay, handlePublish, handleDestroy,
           handleWithdraw, Kinds
  <1>. QED BY <1>8, <1>9

\* One of the first ids is not taken.
LEMMA NewIdIsNew == ASSUME IsFiniteSet(jobs) PROVE NewId \in Nat /\ \A j \in jobs : j.id # NewId
PROOF
  <1>. DEFINE n == Cardinality(jobs)
              ids == {j.id : j \in jobs}
              f == [j \in jobs |-> j.id]
  <1>1. n \in Nat
    BY FS_CardinalityType
  <1>2. IsFiniteSet(ids) /\ Cardinality(ids) <= n
    <2>1. f \in Surjection(jobs, ids)
      BY DEF Surjection
    <2>. HIDE DEF f, ids
    <2>. QED BY <2>1, FS_Surjection
  <1>3. \E id \in 1 .. n + 1 : id \notin ids
    <2>1. IsFiniteSet(1 .. n + 1) /\ Cardinality(1 .. n + 1) = n + 1
      <3>1. 1 \in Int /\ n + 1 \in Int /\ ~(1 > n + 1) /\ (n + 1) - 1 + 1 = n + 1
        BY <1>1
      <3>. QED BY <3>1, FS_Interval
    <2>. HIDE DEF n, ids
    <2>2. ~((1 .. n + 1) \subseteq ids)
      <3>. SUFFICES ASSUME (1 .. n + 1) \subseteq ids PROVE FALSE
        OBVIOUS
      <3>1. Cardinality(1 .. n + 1) <= Cardinality(ids)
        BY <1>2, FS_Subset
      <3>2. Cardinality(ids) \in Nat
        BY <1>2, FS_CardinalityType
      <3>. QED BY <1>1, <1>2, <2>1, <3>1, <3>2
    <2>. QED BY <2>2
  <1>4. \E id \in 1 .. n + 1 : \A j \in jobs : j.id # id
    BY <1>3
  <1>5. NewId \in 1 .. n + 1 /\ \A j \in jobs : j.id # NewId
    BY <1>4, Zenon DEF NewId
  <1>. QED BY <1>1, <1>5

\* A job goes to another stage, or is done with.
LEMMA StepKnown ==
  ASSUME JobsKnown, NEW job \in jobs, mistaken' \subseteq Kinds,
         NEW stage \in {"signed", "executed", "timer"}, Step(job, stage) \/ Done(job)
  PROVE  JobsKnown'
PROOF
  <1>. DEFINE new == [job EXCEPT !.stage = stage]
  <1>1. IsFiniteSet(jobs \ {job}) /\ IsFiniteSet((jobs \ {job}) \cup {new})
    BY FS_RemoveElement, FS_AddElement DEF JobsKnown
  <1>2. new \in Job /\ new.id = job.id
    BY DEF JobsKnown, Job
  <1>. HIDE DEF new
  <1>3. CASE Step(job, stage)
    <2>1. jobs' = (jobs \ {job}) \cup {new}
      BY <1>3 DEF Step, new
    <2>2. ASSUME NEW i \in jobs', NEW j \in jobs', i.id = j.id PROVE i = j
      BY <1>2, <2>1, <2>2 DEF JobsKnown
    <2>3. jobs' \subseteq Job /\ IsFiniteSet(jobs')
      BY <1>1, <1>2, <2>1 DEF JobsKnown
    <2>. QED BY <2>2, <2>3 DEF JobsKnown
  <1>4. CASE Done(job)
    <2>1. jobs' = jobs \ {job}
      BY <1>4 DEF Done
    <2>. QED BY <1>1, <2>1 DEF JobsKnown
  <1>. QED BY <1>3, <1>4

LEMMA StartKnown ==
  ASSUME JobsKnown, SeenInv, FetchTyped, NEW kind \in Kinds, Start(kind) PROVE JobsKnown'
PROOF
  <1>. DEFINE seen == finding.payments
              new == [id |-> NewId, kind |-> kind, seen |-> seen, stage |-> "built"]
  <1>1. jobs' = jobs \cup {new} /\ UNCHANGED mistaken
    BY DEF Start
  <1>2. NewId \in Nat /\ \A j \in jobs : j.id # NewId
    BY NewIdIsNew DEF JobsKnown
  <1>3. cache["fields"] \subseteq Coins
    BY OfferedVisible DEF Start, Visible, Loaded, LoadedIn, SeenInv, CacheTyped
  <1>4. \A c \in cache["fields"] : cache[c] \in PaymentV1 \cup {Gone}
    <2>1. \A c \in cache["fields"] : cache[c] # Missing
      BY DEF Start
    <2>2. \A c \in Coins : cache[c] = Missing \/ cache[c] \in PaymentV1 \cup {Gone}
      BY AnswerIs DEF FetchTyped, Entries
    <2>. QED BY <1>3, <2>1, <2>2
  <1>5. seen \in [cache["fields"] -> PaymentV1 \cup {Gone}]
    <2>1. seen = [c \in cache["fields"] |-> cache[c]]
      BY DEF finding
    <2>. QED BY <1>4, <2>1
  <1>. HIDE DEF seen
  <1>6. new \in Job /\ new.id = NewId
    <2>1. seen \in UNION {[C -> PaymentV1 \cup {Gone}] : C \in SUBSET Coins}
      BY <1>3, <1>5
    <2>. QED BY <1>2, <2>1 DEF Job
  <1>. HIDE DEF new
  <1>7. IsFiniteSet(jobs') /\ jobs' \subseteq Job
    BY <1>1, <1>6, FS_AddElement DEF JobsKnown
  <1>8. ASSUME NEW i \in jobs', NEW j \in jobs', i.id = j.id PROVE i = j
    BY <1>1, <1>2, <1>6, <1>8 DEF JobsKnown
  <1>. QED BY <1>1, <1>7, <1>8 DEF JobsKnown

LEMMA JobKnown == ASSUME JobsKnown, NEW job \in jobs, JobSteps(job) PROVE JobsKnown'
PROOF
  <1>1. mistaken' \subseteq Kinds
    <2>1. mistaken' \in {mistaken, mistaken \cup {job.kind}}
      BY DEF JobSteps, Sign, Decline, Execute, Abort, WaitFails, Settle, RemoveTimer, DestroyTimer
    <2>. QED BY <2>1 DEF JobsKnown, Job
  <1>2. \E stage \in {"signed", "executed", "timer"} : Step(job, stage) \/ Done(job)
    BY DEF JobSteps, Sign, Decline, Execute, Abort, WaitFails, Settle, RemoveTimer, DestroyTimer
  <1>. QED BY <1>1, <1>2, StepKnown

LEMMA NextKnown ==
  ASSUME JobsKnown, SeenInv, FetchTyped, [CardNext]_allVars PROVE JobsKnown'
PROOF
  <1>0. ASSUME UNCHANGED <<jobs, mistaken>> PROVE JobsKnown'
    BY <1>0 DEF JobsKnown
  <1>1. CASE flushRequestQueue \/ getDynamicFields
    BY <1>0, <1>1 DEF flushRequestQueue, getDynamicFields, Reading
  <1>2. CASE Focus \/ FetchIds \/ SessionChanges \/ Others
    BY <1>0, <1>2 DEF Focus, FetchIds, SessionChanges, Others
  <1>3. ASSUME NEW S \in Arrived, Land(S) \/ FetchFails(S) PROVE JobsKnown'
    BY <1>0, <1>3 DEF Land, FetchFails
  <1>4. ASSUME NEW k \in Fields, handleDownload(k) PROVE JobsKnown'
    BY <1>0, <1>4 DEF handleDownload
  <1>5. ASSUME NEW d \in downloads, Decrypted(d) \/ DownloadFails(d) PROVE JobsKnown'
    BY <1>0, <1>5 DEF Decrypted, DownloadFails
  <1>6. CASE UNCHANGED allVars
    BY <1>0, <1>6 DEF allVars, cardVars
  <1>7. CASE CardNext
    BY <1>1, <1>2, <1>3, <1>4, <1>5, <1>7, StartKnown, JobKnown
       DEF CardNext, handleRemovePayment, handlePay, handlePublish, handleDestroy,
           handleWithdraw, Kinds
  <1>. QED BY <1>6, <1>7

LEMMA InitTyped == CardInit => RestTyped /\ FetchTyped /\ JobsKnown
PROOF
  <1>. SUFFICES ASSUME CardInit PROVE RestTyped /\ FetchTyped /\ JobsKnown
    OBVIOUS
  <1>1. /\ listed = TRUE /\ user \in Users /\ connected = TRUE /\ downloads = {}
        /\ links = [k \in Fields |-> None] /\ events = 0 /\ late = {}
    BY DEF CardInit
  <1>2. RestTyped
    BY <1>1, CardAssumption DEF RestTyped
  <1>3. FetchTyped
    BY DEF CardInit, FetchTyped, Entries
  <1>4. JobsKnown
    <2>1. IsFiniteSet({})
      BY FS_EmptySet
    <2>. QED BY <2>1 DEF CardInit, JobsKnown
  <1>. QED BY <1>2, <1>3, <1>4

\* CardTypeOK: the contract's state stays typed under what the card sends, also when
\* a transaction makes several calls at once; nothing is asked for that is under way;
\* and there is always an id for another transaction.
THEOREM CardTyping == CardSpec => []CardTypeOK
PROOF
  <1>. DEFINE CardInv == IInv /\ SeenInv /\ RestTyped /\ FetchTyped /\ JobsKnown
  <1>1. CardInit => CardInv
    BY OpenedBooks, InitSeen, InitTyped
  <1>2. CardInv /\ [CardNext]_allVars => CardInv'
    BY NextBooks, NextSeen, NextRest, NextFetch, NextKnown
  <1>3. CardInv => CardTypeOK
    BY DEF IInv, RestTyped, FetchTyped, JobsKnown, CardTypeOK
  <1>. QED BY <1>1, <1>2, <1>3, PTL DEF CardSpec
=============================================================================
