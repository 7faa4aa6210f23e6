------------------------------ MODULE Finding ------------------------------
(***************************************************************************)
(* The finding contract, sui/dominion_lancer/sources/finding.move: the     *)
(* shared object through which a finder sells a bug report to the holder   *)
(* of a bug bounty.  Each action is one Move call; a failed assertion or   *)
(* any other abort rolls the transaction back, so an aborting call is a    *)
(* disabled action.  Calls on one shared object are serialised by the      *)
(* chain, and their order is arbitrary.                                    *)
(*                                                                         *)
(* An OwnerCap is created and deleted together with its finding, so the    *)
(* cap of finding f is named f: caps that exist = findings that are live.  *)
(***************************************************************************)
EXTENDS Integers, FiniteSets

CONSTANTS
  Findings,     \* object ids that findings can get
  Bounties,     \* the shared BugBounty objects (always active, see IsActive)
  Coins,        \* coin types, the keys of the payments bag
  Hashes,       \* submission hashes
  Blobs,        \* Walrus blob ids
  None,         \* option::none, and a key that is absent from the bag
  MAX_U64,      \* largest u64
  MaxReceived,  \* bound: total of one coin paid into one finding
  MaxSigned     \* bound: messages the executor enclave signs

ASSUME FindingAssumption ==
  /\ IsFiniteSet(Coins)
  /\ MAX_U64 \in Nat
  /\ MaxReceived \in Nat
  /\ MaxSigned \in Nat
  /\ None \notin Blobs
  /\ None \notin [requested : 0 .. MAX_U64, paid : 0 .. MAX_U64]

VARIABLES
  object,   \* object[f]: has the object id f been allocated, deleted?
  inner,    \* inner[f]: the FindingV1 stored in the finding
  signed,   \* messages the executor enclave has signed
  ledger    \* ledger[f]: history of the finding, read by properties only

vars == <<object, inner, signed, ledger>>

-----------------------------------------------------------------------------
(* Data *)

Option(S) == S \cup {None}

PaymentV1 == [requested : 0 .. MAX_U64, paid : 0 .. MAX_U64]

FindingV1 == [bug_bounty_id : Option(Bounties), submission_hash : Option(Hashes),
              payments : [Coins -> Option(PaymentV1)], payed_count : Nat,
              public_report_blob : Option(Blobs), private_report_blob : Option(Blobs),
              error_message_blob : Option(Blobs), is_published : BOOLEAN]

NoPayments == [c \in Coins |-> None]

\* The content of an id that is not in use.
NoFinding == [bug_bounty_id |-> None, submission_hash |-> None,
              payments |-> NoPayments, payed_count |-> 0,
              public_report_blob |-> None, private_report_blob |-> None,
              error_message_blob |-> None, is_published |-> FALSE]

Message == [finding_id : Findings, submission_hash : Hashes,
            public_blob_id : Option(Blobs), private_blob_id : Option(Blobs),
            error_blob_id : Option(Blobs)]

\* A Walrus Blob object as the contract looks at it: is it certified, and does
\* it outlive the current Walrus epoch?
Blob == [blob_id : Blobs, certified : BOOLEAN, alive : BOOLEAN]

\* A report in the encrypted store is addressed by the finding and the field.
Fields == {"public", "private", "error"}
SealId == [id : Findings, field : Fields]

ZeroCoins == [c \in Coins |-> 0]

Ledger == [received : [Coins -> Nat], released : [Coins -> Nat],
           price : [Coins -> Nat], drift : Nat, testing : BOOLEAN]

NewLedger == [received |-> ZeroCoins, released |-> ZeroCoins,
              price |-> ZeroCoins, drift |-> 0, testing |-> FALSE]

-----------------------------------------------------------------------------
(* Views *)

Live == {f \in Findings : object[f] = "live"}

status_v1(f) ==
  CASE inner[f].error_message_blob # None -> "Error"
    [] inner[f].error_message_blob = None /\ inner[f].public_report_blob = None -> "Draft"
    [] OTHER -> IF inner[f].is_published THEN "Published" ELSE "Committed"

is_draft(f) == status_v1(f) = "Draft"
is_committed(f) == status_v1(f) = "Committed"
is_published(f) == status_v1(f) = "Published"

Contained(f) == {c \in Coins : inner[f].payments[c] # None}

is_paid(f) == inner[f].payed_count >= Cardinality(Contained(f))

\* bug_bounty.is_active(): create_v1 sets it and no function clears it.
IsActive(b) == b \in Bounties

assert_owner_cap(cap, f) == cap \in Live /\ cap = f

\* The id is that of a report which f has, if it is an id of f.
approve_any_id(id, f) ==
  \/ id.field = "public" /\ inner[f].public_report_blob # None
  \/ id.field = "private" /\ inner[f].private_report_blob # None
  \/ id.field = "error" /\ inner[f].error_message_blob # None

\* The private function approve: the id names this finding and a report it has.
approve(id, f) == id.id = f /\ approve_any_id(id, f)

(***************************************************************************)
(* The two decryption policies.  They change no state: key servers run     *)
(* them on the current state and hand out the key when they do not abort.  *)
(***************************************************************************)
seal_approve_with_owner_cap(id, cap, f) == assert_owner_cap(cap, f) /\ approve(id, f)

\* Variant: the private report without payment.
seal_approve_unpaid(id, b, f) ==
  /\ f \in Live
  /\ is_published(f)
  /\ inner[f].bug_bounty_id = b
  /\ approve(id, f)
  /\ id.field # "error"

seal_approve_with_bug_bounty(id, b, f) ==
  /\ f \in Live
  /\ is_published(f)
  /\ inner[f].bug_bounty_id = b
  /\ approve(id, f)
  /\ id.field # "error"
  /\ id.field = "private" => is_paid(f)

OwnerMayOpen(cap, id) == \E f \in Findings : seal_approve_with_owner_cap(id, cap, f)
BountyMayOpen(b, id) == \E f \in Findings : seal_approve_with_bug_bounty(id, b, f)

-----------------------------------------------------------------------------
(* Payments *)

Settled(p) == p # None /\ p.paid >= p.requested

Paid(p) == IF p = None THEN 0 ELSE p.paid
Due(p) == IF p = None \/ Settled(p) THEN 0 ELSE p.requested - p.paid

\* What the finding holds of coin c, and what is still owed of it.
Held(f, c) == Paid(inner[f].payments[c])
Owed(f, c) == Due(inner[f].payments[c])

\* What the entry p contributes to payed_count.
Counted(p) == IF Settled(p) THEN 1 ELSE 0

\* Variant: the old entry goes on counting.
recount_adding(f, c, p) ==
  inner' = [inner EXCEPT ![f].payments[c] = p, ![f].payed_count = @ + Counted(p)]

\* add_payment, pay and withdraw replace the entry of coin c and move
\* payed_count by one when it stops, or starts, being settled.  The
\* subtraction aborts on zero.
Recount(f, c, p) ==
  LET old == inner[f].payments[c]
  IN  /\ Settled(old) => inner[f].payed_count > 0
      /\ inner' = [inner EXCEPT ![f].payments[c] = p,
                                ![f].payed_count = @ - Counted(old) + Counted(p)]

Receive(f, c, n) == ledger' = [ledger EXCEPT ![f].received[c] = @ + n]
Release(f, c, n) == ledger' = [ledger EXCEPT ![f].released[c] = @ + n]

\* Variant: an existing entry is overwritten instead of extended.
add_payment_overwriting(cap, f, c, requested) ==
  /\ assert_owner_cap(cap, f)
  /\ ~is_published(f)
  /\ requested > 0
  /\ Recount(f, c, [requested |-> requested, paid |-> 0])
  /\ UNCHANGED <<object, signed, ledger>>

add_payment(cap, f, c, requested) ==
  /\ assert_owner_cap(cap, f)
  /\ ~is_published(f)
  /\ requested > 0
  /\ LET p == inner[f].payments[c]
     IN  IF p # None
         THEN /\ p.requested + requested <= MAX_U64
              /\ Recount(f, c, [p EXCEPT !.requested = @ + requested])
         ELSE Recount(f, c, [requested |-> requested, paid |-> 0])
  /\ UNCHANGED <<object, signed, ledger>>

\* The old entry is removed and its coins are returned; they also count
\* against the new request.  payed_count is first decremented and then
\* incremented under the same condition on the old entry, so it stays.
set_payment_v1(cap, f, c, requested) ==
  /\ assert_owner_cap(cap, f)
  /\ ~is_published(f)
  /\ LET old == inner[f].payments[c]
         rest == IF requested > Held(f, c) THEN requested - Held(f, c) ELSE 0
     IN  /\ Settled(old) => inner[f].payed_count > 0
         /\ inner' = [inner EXCEPT ![f].payments[c] =
                        IF rest > 0 THEN [requested |-> rest, paid |-> 0] ELSE None]
         /\ ledger' = [ledger EXCEPT ![f].released[c] = @ + Held(f, c),
                                     ![f].drift = @ + Counted(old)]
  /\ UNCHANGED <<object, signed>>

\* Anyone may pay, at any stage of the finding.
pay(f, c, amount) ==
  /\ f \in Live
  /\ amount > 0
  /\ ledger[f].received[c] + amount <= MaxReceived   \* bound
  /\ LET p == inner[f].payments[c]
     IN  IF p # None
         THEN /\ p.paid + amount <= MAX_U64
              /\ Recount(f, c, [p EXCEPT !.paid = @ + amount])
         ELSE Recount(f, c, [requested |-> 0, paid |-> amount])
  /\ Receive(f, c, amount)
  /\ UNCHANGED <<object, signed>>

\* Variants of withdraw: the entry is put back whether it was settled or not,
\* less what was paid (perhaps more than requested), or not even that.
withdraw_putting_back(cap, f, c) ==
  /\ assert_owner_cap(cap, f)
  /\ LET p == inner[f].payments[c]
     IN  p # None /\ Recount(f, c, [requested |-> p.requested - p.paid, paid |-> 0])
  /\ Release(f, c, Held(f, c))
  /\ UNCHANGED <<object, signed>>

withdraw_keeping(cap, f, c) ==
  /\ assert_owner_cap(cap, f)
  /\ LET p == inner[f].payments[c]
     IN  p # None /\ Recount(f, c, [p EXCEPT !.paid = 0])
  /\ Release(f, c, Held(f, c))
  /\ UNCHANGED <<object, signed>>

withdraw(cap, f, c) ==
  /\ assert_owner_cap(cap, f)
  /\ LET p == inner[f].payments[c]
     IN  /\ p # None
         /\ Recount(f, c, IF Settled(p) THEN None
                          ELSE [requested |-> p.requested - p.paid, paid |-> 0])
  /\ Release(f, c, Held(f, c))
  /\ UNCHANGED <<object, signed>>

-----------------------------------------------------------------------------
(* Life cycle *)

create_v1(f, b, h) ==
  /\ object[f] = "free"
  /\ IsActive(b)
  /\ object' = [object EXCEPT ![f] = "live"]
  /\ inner' = [inner EXCEPT ![f] = [NoFinding EXCEPT !.bug_bounty_id = b,
                                                     !.submission_hash = h]]
  /\ UNCHANGED <<signed, ledger>>

\* External: the executor enclave signs the outcome of a run.
EnclaveSigns(m) ==
  /\ Cardinality(signed) < MaxSigned   \* bound
  /\ m.error_blob_id = None <=> m.public_blob_id # None
  /\ m.private_blob_id # None => m.public_blob_id # None
  /\ signed' = signed \cup {m}
  /\ UNCHANGED <<object, inner, ledger>>

\* Variant: the submission is not part of the message.
verify_any_submission(f, pub, priv, err) ==
  \E m \in signed : /\ m.finding_id = f
                    /\ m.public_blob_id = pub
                    /\ m.private_blob_id = priv
                    /\ m.error_blob_id = err

\* External: verify_signature over the message that the contract rebuilds
\* from the finding and the blobs it was handed.
verify_signature(f, pub, priv, err) ==
  \E m \in signed : /\ m.finding_id = f
                    /\ m.submission_hash = inner[f].submission_hash
                    /\ m.public_blob_id = pub
                    /\ m.private_blob_id = priv
                    /\ m.error_blob_id = err

\* External: the blob is certified, and not beyond its end epoch.
Stored(blob) == blob.certified /\ blob.alive

FillReports(f, pub, priv) ==
  inner' = [inner EXCEPT ![f].public_report_blob = pub, ![f].private_report_blob = priv]

MarkTesting(f) == ledger' = [ledger EXCEPT ![f].testing = TRUE]

commit(f, public, private) ==
  LET priv == IF private = None THEN None ELSE private.blob_id
  IN  /\ f \in Live
      /\ is_draft(f)
      /\ Stored(public)
      /\ private # None => Stored(private)
      /\ verify_signature(f, public.blob_id, priv, None)
      /\ FillReports(f, public.blob_id, priv)
      /\ UNCHANGED <<object, signed, ledger>>

\* Neither the blobs nor any signature are checked here.
commit_for_testing(f, public, private) ==
  /\ f \in Live
  /\ is_draft(f)
  /\ FillReports(f, public.blob_id, IF private = None THEN None ELSE private.blob_id)
  /\ MarkTesting(f)
  /\ UNCHANGED <<object, signed>>

\* Variant: an error is accepted at any stage.
report_error_any_status(f, error) ==
  /\ f \in Live
  /\ Stored(error)
  /\ verify_signature(f, None, None, error.blob_id)
  /\ inner' = [inner EXCEPT ![f].error_message_blob = error.blob_id]
  /\ UNCHANGED <<object, signed, ledger>>

report_error(f, error) ==
  /\ f \in Live
  /\ is_draft(f)
  /\ Stored(error)
  /\ verify_signature(f, None, None, error.blob_id)
  /\ inner' = [inner EXCEPT ![f].error_message_blob = error.blob_id]
  /\ UNCHANGED <<object, signed, ledger>>

report_error_for_testing(f, error) ==
  /\ f \in Live
  /\ is_draft(f)
  /\ inner' = [inner EXCEPT ![f].error_message_blob = error.blob_id]
  /\ MarkTesting(f)
  /\ UNCHANGED <<object, signed>>

\* The ledger remembers the price: all that has to come in for each coin.
publish(cap, f) ==
  /\ assert_owner_cap(cap, f)
  /\ is_committed(f)
  /\ inner' = [inner EXCEPT ![f].is_published = TRUE]
  /\ ledger' = [ledger EXCEPT ![f].price =
                  [c \in Coins |-> ledger[f].received[c] + Owed(f, c)]]
  /\ UNCHANGED <<object, signed>>

\* The payments bag has to be empty; the blobs are burnt.
destroy_v1(cap, f) ==
  /\ assert_owner_cap(cap, f)
  /\ ~is_published(f)
  /\ Contained(f) = {}
  /\ object' = [object EXCEPT ![f] = "deleted"]
  /\ inner' = [inner EXCEPT ![f] = NoFinding]
  /\ UNCHANGED <<signed, ledger>>

-----------------------------------------------------------------------------
Init ==
  /\ object = [f \in Findings |-> "free"]
  /\ inner = [f \in Findings |-> NoFinding]
  /\ signed = {}
  /\ ledger = [f \in Findings |-> NewLedger]

OwnerCalls(cap, f) ==
  \/ publish(cap, f)
  \/ destroy_v1(cap, f)
  \/ \E c \in Coins :
       \/ withdraw(cap, f, c)
       \/ \E requested \in 0 .. MAX_U64 :
            add_payment(cap, f, c, requested) \/ set_payment_v1(cap, f, c, requested)

AnyoneCalls(f) ==
  \/ \E b \in Bounties, h \in Hashes : create_v1(f, b, h)
  \/ \E c \in Coins : \E amount \in 0 .. MAX_U64 : pay(f, c, amount)
  \/ \E public \in Blob : \E private \in Option(Blob) :
       commit(f, public, private) \/ commit_for_testing(f, public, private)
  \/ \E error \in Blob : report_error(f, error) \/ report_error_for_testing(f, error)

Next ==
  \/ \E f \in Findings : AnyoneCalls(f) \/ \E cap \in Findings : OwnerCalls(cap, f)
  \/ \E m \in Message : EnclaveSigns(m)

Spec == Init /\ [][Next]_vars

-----------------------------------------------------------------------------
(* Properties *)

\* The state stays well typed: no request or payment leaves u64.
TypeOK ==
  /\ object \in [Findings -> {"free", "live", "deleted"}]
  /\ inner \in [Findings -> FindingV1]
  /\ signed \in SUBSET Message
  /\ ledger \in [Findings -> Ledger]

SettledCoins(f) == {c \in Coins : Settled(inner[f].payments[c])}

\* payed_count is the number of settled payments, plus one for every time
\* set_payment_v1 replaced a settled payment.  It is therefore never below the
\* number of settled payments, and no decrement of it can abort: the owner
\* can always take out what was paid.
PayedCountDrift ==
  \A f \in Live : inner[f].payed_count = Cardinality(SettledCoins(f)) + ledger[f].drift

\* Every coin paid into a finding is either still in its payments or has been
\* handed to the holder of the owner cap, also after the finding was destroyed.
CoinsConserved ==
  \A f \in Findings, c \in Coins :
    ledger[f].received[c] = ledger[f].released[c] + Held(f, c)

\* Once published, the price is fixed: whatever is withdrawn in between, and in
\* whatever instalments it is paid, what is owed is the price less what came in.
PriceHonoured ==
  \A f \in Live, c \in Coins :
    is_published(f) =>
      Owed(f, c) = IF ledger[f].price[c] > ledger[f].received[c]
                   THEN ledger[f].price[c] - ledger[f].received[c] ELSE 0

\* The bounty can open the private report only after the full price came in for
\* every coin -- provided set_payment_v1 never replaced a settled payment.
PrivateReportPaidFor ==
  \A f \in Findings, b \in Bounties :
    (BountyMayOpen(b, [id |-> f, field |-> "private"]) /\ ledger[f].drift = 0) =>
      \A c \in Coins : ledger[f].received[c] >= ledger[f].price[c]

\* The same without the proviso: what `assert!(finding.is_paid(), ENotPaid)`
\* in seal_approve_with_bug_bounty says it checks.
PrivateReportOnlyWhenPaid ==
  \A f \in Findings, b \in Bounties :
    BountyMayOpen(b, [id |-> f, field |-> "private"]) =>
      \A c \in Coins : Owed(f, c) = 0

\* Outside the calls meant for testing, the reports of a finding are the ones
\* the enclave signed for this finding and this submission, as one message.
ReportsSigned ==
  \A f \in Live : status_v1(f) = "Draft" \/ ledger[f].testing \/
    [finding_id |-> f, submission_hash |-> inner[f].submission_hash,
     public_blob_id |-> inner[f].public_report_blob,
     private_blob_id |-> inner[f].private_report_blob,
     error_blob_id |-> inner[f].error_message_blob] \in signed

\* What the bounty may open it may open ever after: neither the owner's
\* withdrawals nor anybody's payments close a report again.
BountyAccessNeverRevoked ==
  [][\A b \in Bounties, id \in SealId : BountyMayOpen(b, id) => BountyMayOpen(b, id)']_vars

-----------------------------------------------------------------------------
(* Refinement *)

stageOf(f) == CASE object[f] = "free" -> "absent"
                [] object[f] = "deleted" -> "destroyed"
                [] OTHER -> status_v1(f)

Sale == INSTANCE FindingSale WITH
          stage <- [f \in Findings |-> stageOf(f)],
          debt <- [f \in Findings |-> [c \in Coins |-> Owed(f, c)]]

\* The contract implements the abstract sale: the life cycle is never left or
\* run backwards, a published finding's debt only goes down, and a finding is
\* given up only unpublished and with nothing owed.
ImplementsSale == Sale!Spec
=============================================================================
