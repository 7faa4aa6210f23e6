------------------------- MODULE FindingSaleProofs -------------------------
(***************************************************************************)
(* The finding contract implements the abstract sale of FindingSale: every *)
(* call is one abstract step on the finding it is made on, or a stutter.   *)
(***************************************************************************)
EXTENDS FindingProofs

\* The abstract state of Finding.
stageMap == [f \in Findings |-> stageOf(f)]
debtMap == [f \in Findings |-> [c \in Coins |-> Owed(f, c)]]

\* A step that changes neither stage nor debt of any finding but f.
OnlyMoves(f, to) ==
  /\ stageOf(f)' = to
  /\ \A g \in Findings \ {f} : stageOf(g)' = stageOf(g)
  /\ \A g \in Findings, c \in Coins : Owed(g, c)' = Owed(g, c)

LEMMA FrameMaps ==
  ASSUME NEW g \in Findings, object'[g] = object[g], inner'[g] = inner[g]
  PROVE  stageOf(g)' = stageOf(g) /\ \A c \in Coins : Owed(g, c)' = Owed(g, c)
  BY DEF stageOf, status_v1, Owed

LEMMA MoveMaps ==
  ASSUME NEW f \in Findings, NEW to, OnlyMoves(f, to)
  PROVE  stageMap' = [stageMap EXCEPT ![f] = to] /\ debtMap' = debtMap
<1>1. debtMap' = debtMap
  BY DEF OnlyMoves, debtMap
<1>2. stageMap' = [stageMap EXCEPT ![f] = to]
  BY DEF OnlyMoves, stageMap
<1> QED
  BY <1>1, <1>2

LEMMA CreateIsOpen ==
  ASSUME IInv, NEW f \in Findings, NEW b \in Bounties, NEW h \in Hashes, create_v1(f, b, h)
  PROVE  Sale!Open(f)
<1>1. TypeOK /\ object[f] = "free" /\ inner[f] = NoFinding
  BY DEF IInv, Books, create_v1
<1>2. /\ object'[f] = "live"
      /\ inner'[f] = [NoFinding EXCEPT !.bug_bounty_id = b, !.submission_hash = h]
      /\ \A g \in Findings \ {f} : object'[g] = object[g] /\ inner'[g] = inner[g]
  BY <1>1 DEF create_v1, TypeOK
<1>3. /\ inner'[f].error_message_blob = None /\ inner'[f].public_report_blob = None
      /\ inner'[f].payments = inner[f].payments
  BY <1>1, <1>2 DEF NoFinding
<1>4. stageOf(f) = "absent" /\ stageOf(f)' = "Draft"
  BY <1>1, <1>2, <1>3 DEF stageOf, status_v1
<1>5. \A c \in Coins : Owed(f, c)' = Owed(f, c)
  BY <1>3 DEF Owed
<1>6. OnlyMoves(f, "Draft")
  BY <1>2, <1>4, <1>5, FrameMaps DEF OnlyMoves
<1> QED
  BY <1>4, <1>6, MoveMaps DEF Sale!Open, Sale!Move, stageMap, debtMap

LEMMA CommitIsReport ==
  ASSUME IInv, NEW f \in Findings, NEW public \in Blob, NEW private \in Option(Blob),
         commit(f, public, private) \/ commit_for_testing(f, public, private)
  PROVE  Sale!Report(f)
<1>1. /\ SamePayments(f) /\ object' = object /\ is_draft(f)
      /\ \A g \in Findings \ {f} : inner'[g] = inner[g]
      /\ inner'[f].is_published = inner[f].is_published
  BY ReportCall DEF IInv
<1>2. inner[f] \in FindingV1 /\ inner \in [Findings -> FindingV1]
  BY DEF IInv, TypeOK
<1>3. /\ inner'[f].public_report_blob = public.blob_id
      /\ inner'[f].error_message_blob = inner[f].error_message_blob
  BY <1>2 DEF commit, commit_for_testing, FillReports, FindingV1
<1>4. public.blob_id # None
  BY FindingAssumption DEF Blob
<1>5. inner[f].is_published = FALSE
  BY <1>1, <1>2 DEF IInv, Books, is_draft, is_published, FindingV1
<1>6. stageOf(f) = "Draft" /\ stageOf(f)' = "Committed"
  BY <1>1, <1>3, <1>4, <1>5 DEF stageOf, status_v1, is_draft, SamePayments
<1>7. \A c \in Coins : Owed(f, c)' = Owed(f, c)
  BY <1>1 DEF Owed, SamePayments
<1>8. OnlyMoves(f, "Committed")
  BY <1>1, <1>6, <1>7, FrameMaps DEF OnlyMoves
<1> QED
  BY <1>6, <1>8, MoveMaps DEF Sale!Report, Sale!Move, stageMap, debtMap

LEMMA ErrorIsFail ==
  ASSUME IInv, NEW f \in Findings, NEW error \in Blob,
         report_error(f, error) \/ report_error_for_testing(f, error)
  PROVE  Sale!Fail(f)
<1>1. /\ SamePayments(f) /\ object' = object /\ is_draft(f)
      /\ \A g \in Findings \ {f} : inner'[g] = inner[g]
  BY ReportCall DEF IInv
<1>2. inner[f] \in FindingV1 /\ inner \in [Findings -> FindingV1]
  BY DEF IInv, TypeOK
<1>3. inner'[f].error_message_blob = error.blob_id
  BY <1>2 DEF report_error, report_error_for_testing, FindingV1
<1>4. error.blob_id # None
  BY FindingAssumption DEF Blob
<1>5. stageOf(f) = "Draft" /\ stageOf(f)' = "Error"
  BY <1>1, <1>3, <1>4 DEF stageOf, status_v1, is_draft, SamePayments
<1>6. \A c \in Coins : Owed(f, c)' = Owed(f, c)
  BY <1>1 DEF Owed, SamePayments
<1>7. OnlyMoves(f, "Error")
  BY <1>1, <1>5, <1>6, FrameMaps DEF OnlyMoves
<1> QED
  BY <1>5, <1>7, MoveMaps DEF Sale!Fail, Sale!Move, stageMap, debtMap

LEMMA PublishIsPublish ==
  ASSUME IInv, NEW f \in Findings, NEW cap \in Findings, publish(cap, f)
  PROVE  Sale!Publish(f)
<1>1. inner[f] \in FindingV1 /\ inner \in [Findings -> FindingV1]
  BY DEF IInv, TypeOK
<1>2. /\ object[f] = "live" /\ object' = object
      /\ inner'[f].is_published = TRUE
      /\ inner'[f].public_report_blob = inner[f].public_report_blob
      /\ inner'[f].error_message_blob = inner[f].error_message_blob
      /\ inner'[f].payments = inner[f].payments
      /\ \A g \in Findings \ {f} : inner'[g] = inner[g]
  BY <1>1 DEF publish, assert_owner_cap, Live, FindingV1
<1>3. stageOf(f) = "Committed" /\ stageOf(f)' = "Published"
  BY <1>2 DEF stageOf, status_v1, publish, is_committed
<1>4. \A c \in Coins : Owed(f, c)' = Owed(f, c)
  BY <1>2 DEF Owed
<1>5. OnlyMoves(f, "Published")
  BY <1>2, <1>3, <1>4, FrameMaps DEF OnlyMoves
<1> QED
  BY <1>3, <1>5, MoveMaps DEF Sale!Publish, Sale!Move, stageMap, debtMap

LEMMA DestroyIsGiveUp ==
  ASSUME IInv, NEW f \in Findings, NEW cap \in Findings, destroy_v1(cap, f)
  PROVE  Sale!GiveUp(f)
<1>1. /\ object[f] = "live" /\ object'[f] = "deleted" /\ inner'[f] = NoFinding
      /\ \A g \in Findings \ {f} : object'[g] = object[g] /\ inner'[g] = inner[g]
      /\ \A c \in Coins : inner[f].payments[c] = None
  BY DEF destroy_v1, assert_owner_cap, Live, Contained, IInv, TypeOK
<1>2. \A c \in Coins : Owed(f, c) = 0 /\ Owed(f, c)' = 0
  BY <1>1 DEF Owed, Due, NoFinding, NoPayments
<1>3. stageOf(f) \in Sale!Negotiable /\ stageOf(f)' = "destroyed"
  BY <1>1 DEF stageOf, status_v1, destroy_v1, is_published, Sale!Negotiable
<1>4. OnlyMoves(f, "destroyed")
  BY <1>1, <1>2, <1>3, FrameMaps DEF OnlyMoves
<1>5. debtMap[f] = Sale!NoDebt
  BY <1>2 DEF debtMap, Sale!NoDebt
<1> QED
  BY <1>3, <1>4, <1>5, MoveMaps DEF Sale!GiveUp, Sale!Move, stageMap, debtMap

LEMMA PaymentIsTermsOrPayOff ==
  ASSUME IInv, TypeOK', NEW f \in Findings, NEW c \in Coins, NEW p \in Option(PaymentV1),
         PaymentCall(f, c, p)
  PROVE  Sale!SetTerms(f, c) \/ Sale!PayOff(f, c) \/ UNCHANGED <<stageMap, debtMap>>
<1>1. /\ object[f] = "live" /\ object' = object
      /\ \A g \in Findings \ {f} : inner'[g] = inner[g]
      /\ SameReports(f)
  BY DEF PaymentCall
<1>2. /\ inner'[f].payments[c] = p
      /\ \A d \in Coins \ {c} : inner'[f].payments[d] = inner[f].payments[d]
  BY DEF PaymentCall, Puts, IInv, TypeOK, FindingV1
<1>3. /\ \A g \in Findings : stageOf(g)' = stageOf(g)
      /\ \A g \in Findings, d \in Coins : g # f \/ d # c => Owed(g, d)' = Owed(g, d)
  BY <1>1, <1>2, FrameMaps DEF stageOf, status_v1, SameReports, Owed
<1>4. Owed(f, c) \in Nat /\ Owed(f, c)' \in Nat
  BY HeldType, HeldTypePrimed DEF IInv
<1>5. stageMap' = stageMap
  BY <1>3 DEF stageMap
<1>6. debtMap[f][c] = Owed(f, c) /\ debtMap'[f][c] = Owed(f, c)'
  BY DEF debtMap
<1>7. debtMap' = [debtMap EXCEPT ![f][c] = debtMap'[f][c]]
  BY <1>3 DEF debtMap
<1>8. CASE is_published(f)
  <2>1. stageMap[f] = "Published"
    BY <1>1, <1>8 DEF stageMap, stageOf, is_published
  <2>2. Owed(f, c)' <= Owed(f, c)
    <3> DEFINE in == ledger'[f].received[c] - ledger[f].received[c]
    <3>1. /\ in \in Nat
          /\ Owed(f, c)' = IF Owed(f, c) > in THEN Owed(f, c) - in ELSE 0
      BY <1>2, <1>8 DEF PaymentCall, Owed
    <3> HIDE DEF in
    <3> QED
      BY <1>4, <3>1
  <2>3. CASE Owed(f, c)' = Owed(f, c)
    <3>1. debtMap' = debtMap
      BY <1>3, <2>3 DEF debtMap
    <3> QED
      BY <1>5, <3>1
  <2>4. CASE Owed(f, c)' # Owed(f, c)
    <3>1. debtMap'[f][c] \in 0 .. (debtMap[f][c] - 1)
      BY <1>4, <1>6, <2>2, <2>4
    <3> QED
      BY <1>5, <1>7, <2>1, <3>1 DEF Sale!PayOff, stageMap, debtMap
  <2> QED
    BY <2>3, <2>4
<1>9. CASE ~is_published(f)
  <2>1. stageMap[f] \in Sale!Negotiable
    BY <1>1, <1>9 DEF stageMap, stageOf, is_published, status_v1, Sale!Negotiable
  <2> QED
    BY <1>4, <1>5, <1>6, <1>7, <2>1 DEF Sale!SetTerms, stageMap, debtMap
<1> QED
  BY <1>8, <1>9

\* Every step of the contract is a step of the sale, or leaves it as it is.
LEMMA StepRefines == ASSUME IInv, Next PROVE [Sale!Next]_(Sale!vars)
<1>1. TypeOK /\ TypeOK'
  BY TypingStep DEF IInv
<1>2. ASSUME NEW f \in Findings, NEW c \in Coins, NEW p \in Option(PaymentV1),
             PaymentCall(f, c, p)
      PROVE  [Sale!Next]_(Sale!vars)
  BY <1>1, <1>2, PaymentIsTermsOrPayOff DEF Sale!Next, Sale!vars, stageMap, debtMap
<1>3. ASSUME NEW f \in Findings, AnyoneCalls(f) PROVE [Sale!Next]_(Sale!vars)
  <2>1. ASSUME NEW c \in Coins, NEW amount \in 0 .. MAX_U64, pay(f, c, amount)
        PROVE  [Sale!Next]_(Sale!vars)
    BY <1>1, <1>2, <2>1, PayCall
  <2>2. ASSUME NEW b \in Bounties, NEW h \in Hashes, create_v1(f, b, h) PROVE Sale!Next
    BY <2>2, CreateIsOpen DEF Sale!Next
  <2>3. ASSUME NEW public \in Blob, NEW private \in Option(Blob),
               commit(f, public, private) \/ commit_for_testing(f, public, private)
        PROVE  Sale!Next
    BY <2>3, CommitIsReport DEF Sale!Next
  <2>4. ASSUME NEW error \in Blob, report_error(f, error) \/ report_error_for_testing(f, error)
        PROVE  Sale!Next
    BY <2>4, ErrorIsFail DEF Sale!Next
  <2> QED
    BY <1>3, <2>1, <2>2, <2>3, <2>4 DEF AnyoneCalls
<1>4. ASSUME NEW f \in Findings, NEW cap \in Findings, OwnerCalls(cap, f)
      PROVE  [Sale!Next]_(Sale!vars)
  <2>1. ASSUME NEW c \in Coins, withdraw(cap, f, c) PROVE [Sale!Next]_(Sale!vars)
    BY <1>1, <1>2, <2>1, WithdrawCall
  <2>2. ASSUME NEW c \in Coins, NEW requested \in 0 .. MAX_U64,
               add_payment(cap, f, c, requested)
        PROVE  [Sale!Next]_(Sale!vars)
    BY <1>1, <1>2, <2>2, AddCall
  <2>3. ASSUME NEW c \in Coins, NEW requested \in 0 .. MAX_U64,
               set_payment_v1(cap, f, c, requested)
        PROVE  [Sale!Next]_(Sale!vars)
    BY <1>1, <1>2, <2>3, SetCall
  <2>4. ASSUME publish(cap, f) PROVE Sale!Next
    BY <2>4, PublishIsPublish DEF Sale!Next
  <2>5. ASSUME destroy_v1(cap, f) PROVE Sale!Next
    BY <2>5, DestroyIsGiveUp DEF Sale!Next
  <2> QED
    BY <1>4, <2>1, <2>2, <2>3, <2>4, <2>5 DEF OwnerCalls
<1>5. ASSUME NEW m \in Message, EnclaveSigns(m) PROVE [Sale!Next]_(Sale!vars)
  BY <1>5 DEF EnclaveSigns, Sale!vars, stageOf, status_v1, Owed
<1> QED
  BY <1>3, <1>4, <1>5 DEF Next

LEMMA InitRefines == ASSUME Init PROVE Sale!Init
<1>1. \A f \in Findings : stageOf(f) = "absent"
  BY DEF Init, stageOf
<1>2. \A f \in Findings, c \in Coins : Owed(f, c) = 0
  BY DEF Init, NoFinding, NoPayments, Owed, Due
<1> QED
  BY <1>1, <1>2 DEF Sale!Init, Sale!NoDebt

\* The contract keeps the promises of the abstract sale.
THEOREM Refinement == Spec => ImplementsSale
<1>1. ASSUME UNCHANGED vars PROVE UNCHANGED Sale!vars
  BY <1>1 DEF vars, Sale!vars, stageOf, status_v1, Owed
<1>2. IInv /\ [Next]_vars => [Sale!Next]_(Sale!vars)
  BY <1>1, StepRefines
<1> QED
  BY InitRefines, Invariance, <1>2, PTL DEF Spec, ImplementsSale, Sale!Spec
=============================================================================
