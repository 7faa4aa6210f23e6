---------------------------- MODULE FindingCard ----------------------------
(***************************************************************************)
(* The card of one finding in the web client, composed with the contract:  *)
(* components/finding/index/FindingCard.tsx, the queries it is drawn from  *)
(* (queries/finding.ts, suiObject.ts, suiDynamicFields.ts) and the         *)
(* mutations behind its buttons (mutations/Finding/*.ts, downloadBlob.ts). *)
(*                                                                         *)
(* The card is put together from cached objects that are fetched one by    *)
(* one, a child only once its parent is known, so what it shows need never *)
(* have been true at any one moment.  A button sends one transaction made  *)
(* from what the card shows; other tabs, the server and other payers call  *)
(* the contract at the same time.                                          *)
(*                                                                         *)
(* The page is opened on a finding that is already there; who holds the    *)
(* finding's and the bounty's owner caps stays as it is.                   *)
(***************************************************************************)
EXTENDS Finding

CONSTANTS
  Shown,      \* the finding of the card
  Users,      \* addresses
  Finder,     \* holds the owner cap of the finding
  Sponsor,    \* holds the owner cap of the bug bounty
  Missing,    \* undefined: a query without data
  Gone,       \* null: the object is not there
  MaxEvents   \* bound: clicks, focus, session changes, calls of others, failures

ASSUME CardAssumption ==
  /\ Shown \in Findings
  /\ Finder \in Users /\ Sponsor \in Users
  /\ None \notin Users
  /\ Missing # Gone
  /\ Missing \notin Users /\ Gone \notin Users
  /\ Coins \cap {"outer", "inner", "cap", "fields", "bounty"} = {}
  /\ MAX_U64 >= 2
  /\ MaxEvents \in Nat

VARIABLES
  cache,      \* cache[e]: data of the query of entry e
  asked,      \* entries waiting to be fetched
  answers,    \* answers[e]: what the node read for e, on its way to the client
  listed,     \* is the finding in the cached list of ids, its card mounted?
  user,       \* the user of the page
  connected,  \* is the wallet connected?
  jobs,       \* transactions under way
  downloads,  \* reports under way
  links,      \* links[k]: whom the link to report k was prepared for
  events,     \* counts what MaxEvents bounds
  overtaken,  \* history: entries that may rightly be out of date
  late,       \* history: links that were set for a user who had gone
  mistaken    \* history: kinds of aborted transactions taken for executed

data == <<cache, asked, answers, listed>>
session == <<user, connected>>
reports == <<downloads, links, late>>
cardVars == <<data, session, reports, jobs, events, overtaken, mistaken>>
allVars == <<vars, cardVars>>

-----------------------------------------------------------------------------
(* What is cached, and when a query has a key *)

Entries == {"outer", "inner", "cap", "fields", "bounty"} \cup Coins

\* One query each; all but the list of fields go through one request queue.
Objects == Entries \ {"fields"}

\* What the node answers.  The inner object names the bag of payments, and the
\* bag has one field object per coin; a deleted finding takes all with it.
Read(e) ==
  IF e \in Coins
  THEN IF inner[Shown].payments[e] = None THEN Gone ELSE inner[Shown].payments[e]
  ELSE CASE e = "fields" -> Contained(Shown)
         [] e = "bounty" -> Sponsor
         [] e = "outer" -> IF Shown \in Live THEN Shown ELSE Gone
         [] e = "cap" -> IF Shown \in Live THEN Finder ELSE Gone
         [] e = "inner" -> IF Shown \in Live
                           THEN [inner[Shown] EXCEPT !.payments = NoPayments] ELSE Gone

Given(x) == x \notin {Missing, Gone}

\* buildFinding has all it needs.
LoadedIn(c) == /\ Given(c["outer"]) /\ Given(c["inner"]) /\ Given(c["cap"])
               /\ c["fields"] # Missing

Loaded == LoadedIn(cache)

\* A query is enabled once the objects that lead to its key have been fetched.
EnabledIn(c, e) ==
  \/ e = "outer"
  \/ e = "inner" /\ Given(c["outer"])
  \/ e \in {"cap", "fields"} /\ Given(c["outer"]) /\ Given(c["inner"])
  \/ e = "bounty" /\ LoadedIn(c)
  \/ /\ e \in Coins /\ Given(c["outer"]) /\ Given(c["inner"])
     /\ c["fields"] # Missing /\ e \in c["fields"]

Enabled(e) == EnabledIn(cache, e)

\* The finding as the client builds it.
finding == [fields |-> cache["inner"], owner |-> cache["cap"],
            payments |-> [c \in cache["fields"] |-> cache[c]]]

Visible == listed /\ Loaded

-----------------------------------------------------------------------------
(* The client's own view functions, sdk/Finding.ts *)

findingStatus(v) ==
  CASE v.fields.error_message_blob # None -> "Error"
    [] v.fields.error_message_blob = None /\ v.fields.public_report_blob = None -> "Processing"
    [] OTHER -> IF v.fields.is_published THEN "Published" ELSE "Draft"

isPaid(v) == v.fields.payed_count >= Cardinality(DOMAIN v.payments)

hasFundsToWithdraw(v) ==
  \E c \in DOMAIN v.payments : Given(v.payments[c]) /\ v.payments[c].paid > 0

isPublicReportReadable(v, u) ==
  /\ v.fields.public_report_blob # None
  /\ u # None
  /\ (v.owner = u \/ (cache["bounty"] = u /\ v.fields.is_published))

\* Variant: without looking at the payments.
isPrivateReportReadable_unpaid(v, u) ==
  /\ v.fields.private_report_blob # None
  /\ u # None
  /\ (v.owner = u \/ (cache["bounty"] = u /\ v.fields.is_published))

isPrivateReportReadable(v, u) ==
  /\ v.fields.private_report_blob # None
  /\ u # None
  /\ (v.owner = u \/ (cache["bounty"] = u /\ v.fields.is_published /\ isPaid(v)))

isErrorMessageReadable(v, u) ==
  v.fields.error_message_blob # None /\ u # None /\ v.owner = u

Readable(v, u, k) ==
  \/ k = "public" /\ isPublicReportReadable(v, u)
  \/ k = "private" /\ isPrivateReportReadable(v, u)
  \/ k = "error" /\ isErrorMessageReadable(v, u)

\* What the key servers let user u open with the caps that u holds.
OpensAsOwner(u, k) == u = Finder /\ OwnerMayOpen(Shown, [id |-> Shown, field |-> k])
OpensAsSponsor(u, k) == /\ u = Sponsor
                        /\ BountyMayOpen(inner[Shown].bug_bounty_id, [id |-> Shown, field |-> k])
MayOpen(u, k) == OpensAsOwner(u, k) \/ OpensAsSponsor(u, k)

-----------------------------------------------------------------------------
(* Fetching *)

Event == events < MaxEvents /\ events' = events + 1   \* bound

Ask(S) == asked' = asked \cup S

Without(f, S) == [e \in DOMAIN f \ S |-> f[e]]

Idle(e) == e \notin asked \cup DOMAIN answers

Reading(S) ==
  /\ asked' = asked \ S
  /\ answers' = [e \in DOMAIN answers \cup S |-> IF e \in S THEN Read(e) ELSE answers[e]]
  /\ UNCHANGED <<vars, cache, listed, session, reports, jobs, events, overtaken, mistaken>>

\* All that waits goes into one request, and the next request waits for its
\* answer.  An object the node has no answer for becomes null.
flushRequestQueue ==
  /\ asked \cap Objects # {}
  /\ DOMAIN answers \cap Objects = {}
  /\ Reading(asked \cap Objects)

\* The list of the payment fields, page by page.
getDynamicFields == "fields" \in asked \ DOMAIN answers /\ Reading({"fields"})

Arrived == {DOMAIN answers \cap Objects, DOMAIN answers \cap {"fields"}} \ {{}}

\* The answers S become the queries' data; queries that get a key by that are
\* fetched next.
Land(S) ==
  LET new == [e \in Entries |-> IF e \in S THEN answers[e] ELSE cache[e]]
  IN  /\ cache' = new
      /\ Ask({e \in Entries : EnabledIn(new, e) /\ ~Enabled(e) /\ Idle(e)})
      /\ answers' = Without(answers, S)
      /\ overtaken' = {e \in overtaken : e \in S => answers[e] # Read(e)}
      /\ UNCHANGED <<vars, listed, session, reports, jobs, events, mistaken>>

\* The request failed: the queries try again, up to ten times, or give up.
FetchFails(S) ==
  /\ Event
  /\ answers' = Without(answers, S)
  /\ \/ Ask(S) /\ UNCHANGED overtaken
     \/ overtaken' = overtaken \cup S /\ UNCHANGED asked
  /\ UNCHANGED <<vars, cache, listed, session, reports, jobs, mistaken>>

\* Variant: also what is being fetched already.
Stale_always == {e \in Entries : Enabled(e)}

\* What is fetched when it is looked at anew: the data are never fresh.
Stale == {e \in Entries : Enabled(e) /\ Idle(e)}

\* The window gets the focus.
Focus ==
  /\ Event
  /\ listed
  /\ Ask(Stale)
  /\ UNCHANGED <<vars, cache, answers, listed, session, reports, jobs, overtaken, mistaken>>

\* invalidateQueries: what is shown is fetched anew, and the answer under way
\* to a query that has data is dropped.
Refetched(S) == {e \in S : Enabled(e) /\ (cache[e] # Missing \/ Idle(e))}

invalidateQueries(S) == Ask(Refetched(S)) /\ answers' = Without(answers, Refetched(S))

\* removeQueries: the data are forgotten, with what is under way.
removeQueries(S, new) ==
  /\ cache' = [e \in Entries |-> IF e \in S THEN Missing ELSE new[e]]
  /\ asked' = asked \ S
  /\ answers' = Without(answers, S)

\* Variant: the error message is forgotten.
resetUrls_reports == links' = [links EXCEPT !["public"] = None, !["private"] = None]

resetUrls == links' = [k \in Fields |-> None]

\* The card is put up or taken down with the list it is in.
Mount(there) ==
  /\ listed' = there
  /\ IF there THEN UNCHANGED reports
     ELSE resetUrls /\ downloads' = {} /\ late' = {}

\* Is the finding among all findings?  The creation events are read, and they
\* know nothing of deletion.
getAllFindingIds == TRUE

\* Is it among those of the finder?  The owner cap goes with the finding.
getUserFindingIds == Shown \in Live

\* One of the two lists is fetched.
FetchIds ==
  \E there \in {getAllFindingIds, getUserFindingIds} :
    /\ Event
    /\ there # listed
    /\ Mount(there)
    /\ Ask(IF there THEN Stale ELSE {})
    /\ UNCHANGED <<vars, cache, answers, session, jobs, overtaken, mistaken>>

-----------------------------------------------------------------------------
(* The transactions, made of what the client saw of the payments: seen[c] is  *)
(* the entry of coin c, for every coin in its list                            *)

Kinds == {"remove", "pay", "publish", "destroy", "withdraw"}

Unpaid(p) == Given(p) /\ p.requested > p.paid
Funded(p) == Given(p) /\ p.paid > 0

\* The coins the transaction calls the contract for.
Touched(kind, seen) ==
  CASE kind = "pay" -> {c \in DOMAIN seen : Unpaid(seen[c])}
    [] kind = "withdraw" -> {c \in DOMAIN seen : Funded(seen[c])}
    [] kind \in {"remove", "destroy"} -> DOMAIN seen
    [] OTHER -> {}

\* Variant: all that was requested is paid, whatever came in before.
Amounts_requested(seen) == [c \in Touched("pay", seen) |-> seen[c].requested]

Amounts(seen) == [c \in Touched("pay", seen) |-> seen[c].requested - seen[c].paid]

Entry(c) == inner[Shown].payments[c]

\* The entry of coin c after amount more has been paid, or after withdrawal.
PaidUp(c, amount) ==
  IF Entry(c) = None THEN [requested |-> 0, paid |-> amount]
  ELSE [Entry(c) EXCEPT !.paid = @ + amount]

TakenOut(c) ==
  IF Settled(Entry(c)) THEN None ELSE [requested |-> Due(Entry(c)), paid |-> 0]

\* Does the transaction go through on the finding as it is now?
Executes(kind, seen) ==
  /\ Shown \in Live
  /\ CASE kind = "pay" -> \A c \in Touched(kind, seen) :
                            Held(Shown, c) + Amounts(seen)[c] <= MAX_U64
       [] kind = "withdraw" -> Touched(kind, seen) \subseteq Contained(Shown)
       [] kind = "remove" -> ~is_published(Shown)
       [] kind = "destroy" -> ~is_published(Shown) /\ Contained(Shown) \subseteq DOMAIN seen
       [] kind = "publish" -> is_committed(Shown)

\* The entries in new replace the old ones; payed_count follows.
Replace(new) ==
  inner' = [inner EXCEPT
    ![Shown].payments = [c \in Coins |-> IF c \in DOMAIN new THEN new[c] ELSE Entry(c)],
    ![Shown].payed_count = @ - Cardinality({c \in DOMAIN new : Settled(Entry(c))})
                             + Cardinality({c \in DOMAIN new : Settled(new[c])})]

Pays(seen) ==
  LET amounts == Amounts(seen)
  IN  /\ Replace([c \in DOMAIN amounts |-> PaidUp(c, amounts[c])])
      /\ ledger' = [ledger EXCEPT ![Shown].received =
                      [c \in Coins |-> @[c] + (IF c \in DOMAIN amounts THEN amounts[c] ELSE 0)]]
      /\ UNCHANGED <<object, signed>>

\* The ledger after the coins C were taken out.
Released(C) == [c \in Coins |-> ledger[Shown].released[c] + (IF c \in C THEN Held(Shown, c) ELSE 0)]

Withdraws(C) ==
  /\ Replace([c \in C |-> TakenOut(c)])
  /\ ledger' = [ledger EXCEPT ![Shown].released = Released(C)]
  /\ UNCHANGED <<object, signed>>

\* set_payment to zero for every coin of C, and then perhaps destroy.
Clears(C, destroys) ==
  /\ IF destroys
     THEN /\ object' = [object EXCEPT ![Shown] = "deleted"]
          /\ inner' = [inner EXCEPT ![Shown] = NoFinding]
     ELSE /\ UNCHANGED object
          /\ inner' = [inner EXCEPT ![Shown].payments =
                         [c \in Coins |-> IF c \in C THEN None ELSE Entry(c)]]
  /\ ledger' = [ledger EXCEPT ![Shown].released = Released(C),
                  ![Shown].drift = @ + Cardinality({c \in C : Settled(Entry(c))})]
  /\ UNCHANGED signed

Effect(kind, seen) ==
  \/ kind = "pay" /\ Pays(seen)
  \/ kind = "withdraw" /\ Withdraws(Touched(kind, seen))
  \/ kind \in {"remove", "destroy"} /\ Clears(DOMAIN seen, kind = "destroy")
  \/ kind = "publish" /\ publish(Shown, Shown)

-----------------------------------------------------------------------------
(* Buttons *)

SignedIn == connected /\ user # None
IsOwner == SignedIn /\ finding.owner = user
HasPayments == Visible /\ cache["fields"] # {}

RemoveOffered == HasPayments /\ IsOwner /\ ~finding.fields.is_published
PayOffered == HasPayments /\ SignedIn /\ ~isPaid(finding)
WithdrawOffered == HasPayments /\ IsOwner /\ hasFundsToWithdraw(finding)

\* Variant: the report need not be there.
PublishOffered_early == Visible /\ IsOwner /\ ~finding.fields.is_published

PublishOffered == /\ Visible /\ IsOwner
                  /\ ~finding.fields.is_published
                  /\ finding.fields.public_report_blob # None
DestroyOffered == Visible /\ IsOwner /\ ~finding.fields.is_published

Offered(kind) ==
  CASE kind = "remove" -> RemoveOffered
    [] kind = "pay" -> PayOffered
    [] kind = "withdraw" -> WithdrawOffered
    [] kind = "publish" -> PublishOffered
    [] kind = "destroy" -> DestroyOffered

Unit == 1   \* bound: what others pay, or ask for, in one call

NewId == CHOOSE id \in 1 .. Cardinality(jobs) + 1 : \A j \in jobs : j.id # id

\* The mutation looks at the finding anew, waits until it has data for every
\* payment, makes the transaction and hands it to the wallet.  No button looks
\* whether its last transaction is still under way.
Start(kind) ==
  /\ Offered(kind)
  /\ \A c \in cache["fields"] : cache[c] # Missing
  /\ Event
  /\ jobs' = jobs \cup {[id |-> NewId, kind |-> kind, seen |-> finding.payments,
                         stage |-> "built"]}
  /\ Ask(Stale)
  /\ UNCHANGED <<vars, cache, answers, listed, session, reports, overtaken, mistaken>>

handleRemovePayment == Start("remove")
handlePay == Start("pay")
handlePublish == Start("publish")
handleDestroy == Start("destroy")
handleWithdraw == Start("withdraw")

-----------------------------------------------------------------------------
(* Wallet, chain, and what the mutations do afterwards *)

Step(job, stage) == jobs' = (jobs \ {job}) \cup {[job EXCEPT !.stage = stage]}
Done(job) == jobs' = jobs \ {job}

\* The wallet builds the transaction, which fails when a dry run of it does,
\* and signs it.
Sign(job) ==
  /\ job.stage = "built"
  /\ Executes(job.kind, job.seen)
  /\ Step(job, "signed")
  /\ UNCHANGED <<vars, data, session, reports, events, overtaken, mistaken>>

\* The user declines, or the dry run fails, or the account is not there.
Decline(job) ==
  /\ job.stage = "built"
  /\ Done(job)
  /\ UNCHANGED <<vars, data, session, reports, events, overtaken, mistaken>>

\* Are the payments as the transaction takes them to be?
UpToDate(job) == \A c \in Coins :
  Entry(c) = IF c \in DOMAIN job.seen /\ Given(job.seen[c]) THEN job.seen[c] ELSE None

\* The job is executed on a finding that may have changed since it was made,
\* and then what it does need not be what its end takes account of.
Execute(job) ==
  /\ job.stage = "signed"
  /\ Executes(job.kind, job.seen)
  /\ Effect(job.kind, job.seen)
  /\ overtaken' = IF UpToDate(job) THEN overtaken ELSE Entries
  /\ Step(job, "executed")
  /\ UNCHANGED <<data, session, reports, events, mistaken>>

\* The finding has changed since the dry run and the transaction aborts on the
\* chain.  execTx looks at `errors`, which the node leaves out for an aborted
\* transaction: the mutation takes it for executed.
Abort(job) ==
  /\ job.stage = "signed"
  /\ ~Executes(job.kind, job.seen)
  /\ Step(job, "executed")
  /\ mistaken' = mistaken \cup {job.kind}
  /\ UNCHANGED <<vars, data, session, reports, events, overtaken>>

\* waitForTransaction times out, or the answer of the wallet is lost.
WaitFails(job) ==
  /\ job.stage = "executed"
  /\ Done(job)
  /\ overtaken' = Entries
  /\ UNCHANGED <<vars, data, session, reports, events, mistaken>>

payFinding_onSuccess(job) == {"inner"} \cup Touched("pay", job.seen)

publishFinding_onSuccess(job) == {"inner"}

\* Variant: the list of payments is taken to stay the same.
withdrawFinding_onSuccess_list(job) == {"inner"} \cup Touched("withdraw", job.seen)

withdrawFinding_onSuccess(job) == {"inner", "fields"} \cup Touched("withdraw", job.seen)

removePayment_onSuccess(job) == {"inner"}

\* What is invalidated when the job has succeeded.
Outdated(job) ==
  CASE job.kind = "pay" -> payFinding_onSuccess(job)
    [] job.kind = "publish" -> publishFinding_onSuccess(job)
    [] job.kind = "withdraw" -> withdrawFinding_onSuccess(job)
    [] job.kind = "remove" -> removePayment_onSuccess(job)
    [] OTHER -> {}

\* Answers under way that invalidateQueries lets arrive: of queries that are not
\* shown any more, and of those without data.
Passed(S) == (S \cap DOMAIN answers) \ Refetched(S)

\* onSuccess; removal and destruction leave the rest to a timer of 10 ms.
Settle(job) ==
  /\ job.stage = "executed"
  /\ invalidateQueries(Outdated(job))
  /\ overtaken' = overtaken \cup Passed(Outdated(job))
  /\ IF job.kind \in {"remove", "destroy"} THEN Step(job, "timer") ELSE Done(job)
  /\ UNCHANGED <<vars, cache, listed, session, reports, events, mistaken>>

\* The list is set to empty, over whatever it has come to be, and a fetch of it
\* goes on, whose answer may be older than the transaction.
RemoveTimer(job) ==
  /\ job.stage = "timer" /\ job.kind = "remove"
  /\ removeQueries(DOMAIN job.seen, [cache EXCEPT !["fields"] = {}])
  /\ overtaken' = overtaken \cup
       (IF Contained(Shown) # {} \/ "fields" \in DOMAIN answers THEN {"fields"} ELSE {})
  /\ Done(job)
  /\ UNCHANGED <<vars, listed, session, reports, events, mistaken>>

\* Variant: the finding leaves the lists once the wallet has signed.
DestroyTimer_signed(job) ==
  /\ job.stage \in {"signed", "timer"} /\ job.kind = "destroy"
  /\ removeQueries({"outer", "fields"} \cup DOMAIN job.seen, cache)
  /\ Mount(FALSE)
  /\ Done(job)
  /\ UNCHANGED <<vars, session, events, overtaken, mistaken>>

\* The finding leaves the lists, and the queries that only it has are removed.
DestroyTimer(job) ==
  /\ job.stage = "timer" /\ job.kind = "destroy"
  /\ removeQueries({"outer", "fields"} \cup DOMAIN job.seen, cache)
  /\ Mount(FALSE)
  /\ Done(job)
  /\ UNCHANGED <<vars, session, events, overtaken, mistaken>>

-----------------------------------------------------------------------------
(* Reports *)

PublicOffered == isPublicReportReadable(finding, user)
PrivateOffered == isPrivateReportReadable(finding, user)
ErrorOffered == isErrorMessageReadable(finding, user)

\* A user has one download of each report under way at most.
PrepareOffered(k) ==
  /\ Visible /\ user # None
  /\ links[k] = None
  /\ ~\E d \in downloads : d.k = k /\ d.by = user
  /\ \/ k = "public" /\ PublicOffered
     \/ k = "private" /\ PrivateOffered
     \/ k = "error" /\ ErrorOffered

\* handleDownload...: the mutation belongs to the user of the moment, and looks
\* at the finding anew; it ends at once when the bounty has no data yet.
handleDownload(k) ==
  /\ Event
  /\ PrepareOffered(k)
  /\ Given(cache["bounty"])
  /\ downloads' = downloads \cup {[k |-> k, by |-> user]}
  /\ Ask(Stale)
  /\ UNCHANGED <<vars, cache, answers, listed, session, links, late, jobs,
                 overtaken, mistaken>>

\* The key servers run the policy on the finding as it is now.  The link is
\* clicked as soon as it is there.
setUrl(d) ==
  /\ links' = [links EXCEPT ![d.k] = d.by]
  /\ late' = IF d.by # user THEN late \cup {d.k} ELSE late \ {d.k}

Decrypted(d) ==
  /\ MayOpen(d.by, d.k)
  /\ setUrl(d)
  /\ downloads' = downloads \ {d}
  /\ UNCHANGED <<vars, data, session, jobs, events, overtaken, mistaken>>

\* The session is not signed, the blob not found, or the key refused.
DownloadFails(d) ==
  /\ downloads' = downloads \ {d}
  /\ UNCHANGED <<vars, data, session, links, late, jobs, events, overtaken, mistaken>>

\* Another user, or none, and the wallet comes and goes.
SessionChanges ==
  /\ Event
  /\ user' \in Users \cup {None}
  /\ connected' \in BOOLEAN
  /\ session' # session
  /\ IF user # None /\ user' # user THEN resetUrls /\ late' = {} ELSE UNCHANGED <<links, late>>
  /\ UNCHANGED <<vars, data, downloads, jobs, overtaken, mistaken>>

-----------------------------------------------------------------------------
\* Other tabs of the owner, other payers, and the server call the contract.
OthersCall ==
  \/ \E c \in Coins : \/ pay(Shown, c, Unit) \/ add_payment(Shown, Shown, c, Unit)
                      \/ withdraw(Shown, Shown, c) \/ set_payment_v1(Shown, Shown, c, 0)
  \/ publish(Shown, Shown) \/ destroy_v1(Shown, Shown)
  \/ \E public \in Blob : \E private \in Option(Blob) : commit(Shown, public, private)
  \/ \E error \in Blob : report_error(Shown, error)

Others ==
  /\ Event
  /\ OthersCall
  /\ overtaken' = Entries
  /\ UNCHANGED <<data, session, reports, jobs, mistaken>>

-----------------------------------------------------------------------------
\* A finding with these payments at one stage of its life.
Opened(b, h, w, payments, stage) ==
  [bug_bounty_id |-> b, submission_hash |-> h, payments |-> payments,
   payed_count |-> Cardinality({c \in Coins : Settled(payments[c])}),
   public_report_blob |-> IF stage \in {"Committed", "Published"} THEN w ELSE None,
   private_report_blob |-> IF stage \in {"Committed", "Published"} THEN w ELSE None,
   error_message_blob |-> IF stage = "Error" THEN w ELSE None,
   is_published |-> stage = "Published"]

\* What the enclave may have signed for the finding.
Outcomes(f, h) ==
  {m \in Message : /\ m.finding_id = f /\ m.submission_hash = h
                   /\ m.error_blob_id = None <=> m.public_blob_id # None
                   /\ m.private_blob_id # None => m.public_blob_id # None}

\* Bound: the finding's payments when the page opens.  Some coin is owed in part
\* and another not asked for, or one is owed in whole and another is settled.
OpenPayments ==
  LET open    == [requested |-> Unit, paid |-> 0]
      started == [requested |-> 2 * Unit, paid |-> Unit]
      settled == [requested |-> Unit, paid |-> Unit]
  IN  {p \in [Coins -> {None, open, started, settled}] :
         {p[c] : c \in Coins} \in {{None, started}, {open, settled}}}

\* The contract with this finding and no other.
OpenedWith(b, h, w, payments, stage) ==
  /\ object = [f \in Findings |-> IF f = Shown THEN "live" ELSE "free"]
  /\ inner = [f \in Findings |-> IF f = Shown THEN Opened(b, h, w, payments, stage)
                                              ELSE NoFinding]
  /\ signed = Outcomes(Shown, h)
  /\ ledger = [f \in Findings |->
       IF f # Shown THEN NewLedger
       ELSE [NewLedger EXCEPT
               !.received = [c \in Coins |-> Paid(payments[c])],
               !.price = [c \in Coins |-> IF stage = "Published" /\ payments[c] # None
                                          THEN payments[c].requested ELSE 0]]]

CardInit ==
  /\ \E b \in Bounties, h \in Hashes, w \in Blobs, payments \in OpenPayments :
       \E stage \in {"Draft", "Committed", "Published", "Error"} :
         OpenedWith(b, h, w, payments, stage)
  /\ cache = [e \in Entries |-> Missing]
  /\ asked = {"outer"}
  /\ answers = <<>>
  /\ listed = TRUE
  /\ user \in Users
  /\ connected = TRUE
  /\ jobs = {}
  /\ downloads = {}
  /\ links = [k \in Fields |-> None]
  /\ events = 0
  /\ overtaken = {}
  /\ late = {}
  /\ mistaken = {}

JobSteps(job) ==
  \/ Sign(job) \/ Decline(job) \/ Execute(job) \/ Abort(job) \/ WaitFails(job)
  \/ Settle(job) \/ RemoveTimer(job) \/ DestroyTimer(job)

CardNext ==
  \/ flushRequestQueue \/ getDynamicFields \/ Focus \/ FetchIds
  \/ \E S \in Arrived : Land(S) \/ FetchFails(S)
  \/ handleRemovePayment \/ handlePay \/ handlePublish \/ handleDestroy \/ handleWithdraw
  \/ \E job \in jobs : JobSteps(job)
  \/ \E k \in Fields : handleDownload(k)
  \/ \E d \in downloads : Decrypted(d) \/ DownloadFails(d)
  \/ SessionChanges
  \/ Others

CardSpec == CardInit /\ [][CardNext]_allVars

-----------------------------------------------------------------------------
(* Properties *)

\* What a query can have for data besides nothing.
Answer(e) ==
  CASE e = "outer" -> {Shown, Gone}
    [] e = "inner" -> FindingV1 \cup {Gone}
    [] e = "fields" -> SUBSET Coins
    [] e \in Coins -> PaymentV1 \cup {Gone}
    [] OTHER -> Users \cup {Gone}

Job == [id : Nat, kind : Kinds, seen : UNION {[C -> PaymentV1 \cup {Gone}] : C \in SUBSET Coins},
        stage : {"built", "signed", "executed", "timer"}]

\* The state stays well typed; nothing is under way twice, and transactions
\* are told apart.
CardTypeOK ==
  /\ TypeOK
  /\ DOMAIN cache = Entries /\ \A e \in Entries : cache[e] = Missing \/ cache[e] \in Answer(e)
  /\ asked \subseteq Entries
  /\ DOMAIN answers \subseteq Entries \ asked
  /\ \A e \in DOMAIN answers : answers[e] \in Answer(e)
  /\ listed \in BOOLEAN /\ user \in Users \cup {None} /\ connected \in BOOLEAN
  /\ jobs \subseteq Job /\ \A i, j \in jobs : i.id = j.id => i = j
  /\ downloads \subseteq [k : Fields, by : Users]
  /\ links \in [Fields -> Users \cup {None}]
  /\ events \in 0 .. MaxEvents
  /\ overtaken \subseteq Entries /\ late \subseteq Fields /\ mistaken \subseteq Kinds

\* The card is drawn from what the chain has.
Current == Visible /\ \A e \in Entries : Enabled(e) => cache[e] = Read(e)

ClientName == [Draft |-> "Processing", Committed |-> "Draft",
               Published |-> "Published", Error |-> "Error"]

\* The client decides with its own copy of the contract's rules what state a
\* finding is in, whether it is paid, and who may read which report.  On
\* current data the two agree: no button that the key servers would refuse is
\* enabled and none that they would serve is not.
ClientAgrees ==
  Current =>
    /\ findingStatus(finding) = ClientName[status_v1(Shown)]
    /\ isPaid(finding) <=> is_paid(Shown)
    /\ user # None => \A k \in Fields : Readable(finding, user, k) <=> MayOpen(user, k)

\* On current data every button that is enabled sends a transaction that goes
\* through, all its calls of it: several withdrawals or removals, or the
\* removals and the destruction after them.
OfferedSucceeds ==
  Current => \A kind \in Kinds : Offered(kind) => Executes(kind, finding.payments)

\* When all is quiet, what the user's own transactions changed is shown: only
\* changes by others, lost answers, transactions that overtook one another, an
\* empty list put in the cache over or before another one, and an answer under
\* way that was let pass are not.
OwnChangesShown ==
  (listed /\ asked = {} /\ DOMAIN answers = {} /\ jobs = {}) =>
    \A e \in Entries : Enabled(e) /\ cache[e] # Read(e) => e \in overtaken

\* A payment made of current data settles the finding and takes no more than
\* what was owed.
PaysExactly ==
  [][\A job \in jobs : (job.kind = "pay" /\ UpToDate(job) /\ Execute(job)) =>
       \A c \in Coins :
         /\ Owed(Shown, c)' = 0
         /\ ledger'[Shown].received[c] = ledger[Shown].received[c] + Owed(Shown, c)]_allVars

\* A finding disappears from the lists only when it is gone -- or when its
\* destruction aborted on the chain and was taken for executed.
HiddenOnlyIfGone == ~listed /\ Shown \in Live => "destroy" \in mistaken

\* A report that one user has decrypted is not shown to the next, except by a
\* download that ends after its user has gone.
LinksAreTheUsers == \A k \in Fields : links[k] \in {None, user} \/ k \in late
=============================================================================
