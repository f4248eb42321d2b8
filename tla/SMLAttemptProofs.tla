-------------------------- MODULE SMLAttemptProofs --------------------------
(***************************************************************************)
(* Safety of SMLAttempt for every set of bills and calls.                  *)
(***************************************************************************)
EXTENDS SMLAttempt, FiniteSetTheorems, TLAPS

-----------------------------------------------------------------------------
(* Type correctness.                                                       *)

\* Every initial state is well typed.
LEMMA InitType == Init => TypeOK
  <1>1. 1 \in Contents
    BY MaxRevAssumption DEF Contents
  <1>2. AbsentBill \in BillType
    BY <1>1 DEF AbsentBill, BillType, Sendable
  <1>3. NoAttempt \in AttemptType
    BY DEF NoAttempt, AttemptType, AttemptStates
  <1>4. IdleCall \in CallType
    BY <1>1 DEF IdleCall, CallType, Running, Answers, Results
  <1> QED
    BY <1>2, <1>3, <1>4 DEF Init, TypeOK, ReservationStates

\* The record of a call past its use of the snapshot is well typed.
LEMMA LeftType ==
  ASSUME TypeOK, NEW c \in Calls, NEW pc \in {"returning", "syncing", "done", "crashed"},
         NEW result \in Results
  PROVE  Left(c, pc, result) \in CallType
  <1>1. 1 \in Contents
    BY MaxRevAssumption DEF Contents
  <1>2. call[c].bill \in Bills \cup {NoBill}
    BY DEF TypeOK, CallType
  <1> QED
    BY <1>1, <1>2 DEF Left, IdleCall, CallType, Results, Answers, Running

\* The steps on the order keep every variable in its type.
LEMMA OrderType == TypeOK /\ OrderStep => TypeOK'
  <1> SUFFICES ASSUME TypeOK, OrderStep PROVE TypeOK'
    OBVIOUS
  <1>1. ASSUME NEW b \in Bills, NEW status \in {"pending", "needs_review"},
               NEW state \in {"active", "blocked_mapping"}, CreateBill(b, status, state)
        PROVE  TypeOK'
    BY <1>1 DEF TypeOK, CreateBill, BillType, Sendable, ReservationStates, ReservedAs
  <1>2. ASSUME NEW b \in Bills, NEW status \in Sendable, NEW docNo \in BOOLEAN,
               EditBill(b, status, docNo)
        PROVE  TypeOK'
    <2> DEFINE edited == [bill[b] EXCEPT !.rev = bill[b].rev + 1, !.content = bill[b].content + 1,
                                         !.status = status, !.docNo = docNo]
    <2>1. bill[b].rev + 1 \in Contents /\ bill[b].content + 1 \in Contents
      BY <1>2, MaxRevAssumption DEF TypeOK, EditBill, BillType, Contents
    <2>2. edited \in BillType
      <3>1. ASSUME NEW rev \in Contents, NEW content \in Contents
            PROVE  [bill[b] EXCEPT !.rev = rev, !.content = content,
                                   !.status = status, !.docNo = docNo] \in BillType
        <4>1. bill[b] \in BillType
          BY DEF TypeOK
        <4> QED
          BY <4>1 DEF BillType, Sendable
      <3> QED
        BY <2>1, <3>1
    <2> QED
      BY <1>2, <2>2 DEF TypeOK, EditBill
  <1>3. ASSUME NEW b \in Bills, ApplyNameMapping(b) PROVE TypeOK'
    <2>1. PICK promoted \in {bill[b].status, "pending"} :
            bill' = [bill EXCEPT ![b] = [@ EXCEPT !.content = bill[b].content + 1, !.status = promoted]]
      BY <1>3 DEF ApplyNameMapping
    <2>2. bill[b].content + 1 \in Contents
      BY <1>3, MaxRevAssumption DEF TypeOK, ApplyNameMapping, BillType, Contents
    <2>3. [bill[b] EXCEPT !.content = bill[b].content + 1, !.status = promoted] \in BillType
      <3>1. ASSUME NEW content \in Contents
            PROVE  [bill[b] EXCEPT !.content = content, !.status = promoted] \in BillType
        <4>1. bill[b] \in BillType
          BY DEF TypeOK
        <4> QED
          BY <4>1 DEF BillType, Sendable
      <3> QED
        BY <2>2, <3>1
    <2> QED
      BY <1>3, <2>1, <2>3 DEF TypeOK, ApplyNameMapping
  <1>4. ASSUME NEW b \in Bills, NEW archived \in BOOLEAN, SetArchived(b, archived) PROVE TypeOK'
    BY <1>4 DEF TypeOK, SetArchived, BillType
  <1>5. ASSUME NEW b \in Bills, Recreate(b) PROVE TypeOK'
    <2>1. bill' \in [Bills -> BillType]
      <3>1. [bill[b] EXCEPT !.archived = TRUE] \in BillType
        BY DEF TypeOK, BillType
      <3> QED
        BY <1>5, <3>1 DEF TypeOK, Recreate
    <2>2. order' \in [bill : Bills \cup {NoBill}, docNo : BOOLEAN, cancelled : BOOLEAN]
      BY <1>5 DEF TypeOK, Recreate
    <2> QED
      BY <1>5, <2>1, <2>2 DEF TypeOK, Recreate
  <1>6. ASSUME NEW state \in {"active", "blocked_mapping"}, ReconcileMapping(state) PROVE TypeOK'
    BY <1>6 DEF TypeOK, ReconcileMapping, ReservationStates
  <1>7. CASE CancelOrder
    <2>1. Cancelled(reservation.state) \in ReservationStates
      BY DEF TypeOK, Cancelled, ReservationStates
    <2> QED
      BY <1>7, <2>1 DEF TypeOK, CancelOrder
  <1>8. CASE SettleRecalc
    BY <1>8 DEF TypeOK, SettleRecalc, ReservationStates
  <1>9. ASSUME NEW b \in Bills, DeleteBill(b) PROVE TypeOK'
    <2>1. [AbsentBill EXCEPT !.status = "deleted"] \in BillType
      <3>1. 1 \in Contents
        BY MaxRevAssumption DEF Contents
      <3>2. AbsentBill \in BillType
        BY <3>1 DEF AbsentBill, BillType
      <3> QED
        BY <3>2 DEF BillType
    <2>2. bill' \in [Bills -> BillType]
      BY <1>9, <2>1 DEF TypeOK, DeleteBill
    <2>3. order' \in [bill : Bills \cup {NoBill}, docNo : BOOLEAN, cancelled : BOOLEAN]
      BY <1>9 DEF TypeOK, DeleteBill
    <2>4. reservation' \in [state : ReservationStates, bill : Bills \cup {NoBill}]
      BY <1>9 DEF TypeOK, DeleteBill
    <2> QED
      BY <1>9, <2>2, <2>3, <2>4 DEF TypeOK, DeleteBill
  <1> QED
    BY <1>1, <1>2, <1>3, <1>4, <1>5, <1>6, <1>7, <1>8, <1>9 DEF OrderStep

\* A call that returns keeps its record well typed.
LEMMA ReturningType ==
  ASSUME TypeOK, NEW c \in Calls, NEW result \in Results, Returning(c, result)
  PROVE  call' \in [Calls -> CallType]
  <1>1. Left(c, IF ShopeeRealtime THEN "returning" ELSE "done", result) \in CallType
    BY LeftType
  <1> QED
    BY <1>1 DEF TypeOK, Returning

\* A request goes out in a well-typed record.
LEMMA TransmitType ==
  ASSUME TypeOK, NEW c \in Calls, call[c].bill \in Bills, NEW payload \in Contents,
         Transmit(c, payload)
  PROVE  wire' \subseteq Request /\ call' \in [Calls -> CallType]
  <1>1. [call[c] EXCEPT !.pc = "waiting"] \in CallType
    <2>1. call[c] \in CallType
      BY DEF TypeOK
    <2> QED
      BY <2>1 DEF CallType, Running
  <1>2. wire' \subseteq Request
    BY DEF TypeOK, Transmit, Request
  <1> QED
    BY <1>1, <1>2 DEF TypeOK, Transmit

-----------------------------------------------------------------------------
(* The inductive invariant.  A call that has a request out, or an answer,  *)
(* works on a bill that has an attempt; whatever is on the wire or stored  *)
(* is that attempt's payload; and an answer of success, on which a send is *)
(* recorded, was given after the payload was stored.                       *)

CallInv(c) ==
  LET b == call[c].bill IN
  /\ call[c].pc # "idle" => b \in Bills
  /\ call[c].hasAttempt => attempt[b].state # "none"
  /\ call[c].pc \in {"waiting", "answered"} => attempt[b].state # "none"
  /\ call[c].pc = "answered" => call[c].answer # "none"
  /\ call[c].answer = "success" => attempt[b].state # "none" /\ smlDoc[b] = attempt[b].payload
  /\ call[c].pc = "idle" => ~call[c].hasAttempt /\ call[c].answer = "none"

WireInv == \A r \in wire : attempt[r.bill].state # "none" /\ r.payload = attempt[r.bill].payload

AttemptInv(b) ==
  /\ attempt[b].state = "none" <=> attempt[b].payload = NoDoc
  /\ smlDoc[b] \in {NoDoc, ForeignDoc, attempt[b].payload}
  /\ attempt[b].state = "sent" => smlDoc[b] = attempt[b].payload

(* A request belongs to the call that sent it and to that call's bill.     *)
SenderInv == \A r \in wire : call[r.call].pc # "idle" /\ call[r.call].bill = r.bill

Inv ==
  /\ TypeOK
  /\ WireInv
  /\ \A b \in Bills : AttemptInv(b)
  /\ \A c \in Calls : CallInv(c)

\* What no step takes back: an attempt stays, with its payload, and so does
\* that payload in SML.
Keeps ==
  \A b \in Bills : attempt[b].state # "none" =>
    /\ attempt'[b].state # "none"
    /\ attempt'[b].payload = attempt[b].payload
    /\ smlDoc[b] = attempt[b].payload => smlDoc'[b] = attempt[b].payload

\* The initial states satisfy the invariant.
LEMMA InitInv == Init => Inv
  <1> SUFFICES ASSUME Init PROVE Inv
    OBVIOUS
  <1>1. TypeOK
    BY InitType
  <1>2. WireInv
    BY DEF Init, WireInv
  <1>3. ASSUME NEW b \in Bills PROVE AttemptInv(b)
    BY DEF Init, AttemptInv, NoAttempt
  <1>4. ASSUME NEW c \in Calls PROVE CallInv(c)
    BY DEF Init, CallInv, IdleCall
  <1> QED
    BY <1>1, <1>2, <1>3, <1>4 DEF Inv

\* A step of one call that takes nothing back leaves the others correct.
LEMMA OtherCalls ==
  ASSUME Inv, Keeps, NEW c \in Calls, NEW d \in Calls, call'[d] = call[d]
  PROVE  CallInv(d)'
  <1>1. CallInv(d)
    BY DEF Inv
  <1>2. CASE call[d].pc = "idle"
    BY <1>1, <1>2 DEF CallInv
  <1>3. CASE call[d].pc # "idle"
    <2>1. call[d].bill \in Bills
      BY <1>1, <1>3 DEF CallInv
    <2> QED
      BY <1>1, <1>3, <2>1 DEF CallInv, Keeps
  <1> QED
    BY <1>2, <1>3

\* A step that touches only the order, its bill row and the call c.
LEMMA LocalStep ==
  ASSUME Inv, TypeOK', UNCHANGED <<attempt, wire, smlDoc>>,
         \A d \in Calls : call'[d] = call[d] \/ CallInv(d)'
  PROVE  Inv'
  <1>1. Keeps
    BY DEF Keeps
  <1>2. ASSUME NEW d \in Calls PROVE CallInv(d)'
    BY <1>1, OtherCalls
  <1>3. WireInv' /\ \A b \in Bills : AttemptInv(b)'
    BY DEF Inv, WireInv, AttemptInv
  <1> QED
    BY <1>2, <1>3 DEF Inv

\* The steps on the order keep the invariant.
LEMMA OrderInv == Inv /\ OrderStep => Inv'
  <1> SUFFICES ASSUME Inv, OrderStep PROVE Inv'
    OBVIOUS
  <1>1. TypeOK'
    BY OrderType DEF Inv
  <1>2. UNCHANGED <<attempt, wire, smlDoc, call>>
    BY DEF OrderStep, CreateBill, EditBill, ApplyNameMapping, SetArchived, DeleteBill, Recreate,
       ReconcileMapping, CancelOrder, SettleRecalc
  <1> QED
    BY <1>1, <1>2, LocalStep

\* Loading a bill keeps the invariant.
LEMMA LoadInv ==
  ASSUME Inv, NEW c \in Calls, NEW b \in Bills, Load(c, b)
  PROVE  Inv'
  <1> DEFINE loaded == [call[c] EXCEPT !.pc = IF ShopeeRealtime THEN "loaded" ELSE "ready",
                          !.bill = b, !.rev = bill[b].rev, !.content = bill[b].content,
                          !.hasAttempt = attempt[b].state # "none"]
  <1>1. call[c] \in CallType /\ bill[b].rev \in Contents /\ bill[b].content \in Contents
    BY DEF Inv, TypeOK, BillType
  <1>2. ASSUME NEW pc \in {"loaded", "ready"}, NEW rev \in Contents, NEW content \in Contents,
               NEW has \in BOOLEAN
        PROVE  [call[c] EXCEPT !.pc = pc, !.bill = b, !.rev = rev, !.content = content,
                               !.hasAttempt = has] \in CallType
    BY <1>1 DEF CallType, Running
  <1>3. loaded \in CallType
    <2> DEFINE has == attempt[b].state # "none"
    <2>1. has \in BOOLEAN
      OBVIOUS
    <2> HIDE DEF has
    <2> QED
      BY <1>1, <1>2, <2>1
  <1>4. call' = [call EXCEPT ![c] = loaded] /\ call[c].pc = "idle"
    BY DEF Load
  <1>5. TypeOK'
    BY <1>3, <1>4 DEF Inv, TypeOK, Load
  <1>6. CallInv(c)'
    <2>1. CallInv(c)
      BY DEF Inv
    <2>2. call'[c] = loaded
      BY <1>4 DEF Inv, TypeOK
    <2>3. /\ loaded.pc \in {"loaded", "ready"} /\ loaded.bill = b
          /\ loaded.hasAttempt = (attempt[b].state # "none")
          /\ loaded.answer = call[c].answer
      BY <1>1 DEF CallType
    <2>4. attempt' = attempt /\ smlDoc' = smlDoc
      BY DEF Load
    <2> HIDE DEF loaded
    <2> QED
      BY <1>4, <2>1, <2>2, <2>3, <2>4 DEF CallInv
  <1> QED
    BY <1>4, <1>5, <1>6, LocalStep DEF Load, Inv, TypeOK

\* A call that is past its use of the snapshot satisfies its invariant.
LEMMA LeftCall ==
  ASSUME Inv, NEW c \in Calls, call[c].pc # "idle",
         NEW pc \in {"returning", "syncing", "done", "crashed"}, NEW result \in Results,
         call' = [call EXCEPT ![c] = Left(c, pc, result)]
  PROVE  CallInv(c)' /\ call' \in [Calls -> CallType] /\ \A d \in Calls \ {c} : call'[d] = call[d]
  <1>1. Left(c, pc, result) \in CallType
    BY LeftType DEF Inv
  <1>2. call'[c] = Left(c, pc, result)
    BY DEF Inv, TypeOK
  <1>3. CallInv(c)'
    <2>1. call[c].bill \in Bills
      BY DEF Inv, CallInv
    <2>2. /\ Left(c, pc, result).pc = pc /\ Left(c, pc, result).bill = call[c].bill
          /\ Left(c, pc, result).answer = "none" /\ ~Left(c, pc, result).hasAttempt
      BY DEF Left, IdleCall
    <2>3. /\ call'[c].pc = pc /\ call'[c].bill = call[c].bill
          /\ call'[c].answer = "none" /\ ~call'[c].hasAttempt
      BY <1>2, <2>2
    <2> QED
      BY <2>1, <2>3 DEF CallInv
  <1> QED
    BY <1>1, <1>3 DEF Inv, TypeOK

\* So does one that is about to return.
LEMMA ReturningCall ==
  ASSUME Inv, NEW c \in Calls, call[c].pc # "idle", NEW result \in Results, Returning(c, result)
  PROVE  CallInv(c)' /\ call' \in [Calls -> CallType] /\ \A d \in Calls \ {c} : call'[d] = call[d]
  <1> DEFINE pc == IF ShopeeRealtime THEN "returning" ELSE "done"
  <1>1. pc \in {"returning", "syncing", "done", "crashed"}
    OBVIOUS
  <1>2. call' = [call EXCEPT ![c] = Left(c, pc, result)]
    BY DEF Returning
  <1> HIDE DEF pc
  <1> QED
    BY <1>1, <1>2, LeftCall

\* The steps of a call that change neither attempt, wire nor SML.
LEMMA QuietInv ==
  ASSUME Inv, NEW c \in Calls,
         \/ StartSend(c) \/ Refuse(c) \/ SendToReview(c) \/ NoAnswer(c)
         \/ GiveUp(c) \/ CompleteSend(c) \/ SyncSnapshot(c) \/ Crash(c)
  PROVE  Inv'
  <1>1. CASE StartSend(c)
    <2>1. CASE call' = [call EXCEPT ![c].pc = "ready"]
      <3>1. [call[c] EXCEPT !.pc = "ready"] \in CallType
        <4>1. call[c] \in CallType
          BY DEF Inv, TypeOK
        <4> QED
          BY <4>1 DEF CallType, Running
      <3>2. TypeOK'
        BY <1>1, <2>1, <3>1 DEF Inv, TypeOK, StartSend
      <3>3. CallInv(c)'
        BY <1>1, <2>1 DEF Inv, TypeOK, CallInv, StartSend, CallType
      <3> QED
        BY <1>1, <2>1, <3>2, <3>3, LocalStep DEF StartSend, Inv, TypeOK
    <2>2. ASSUME NEW pc \in {"syncing", "done"}, NEW result \in Results,
                 call' = [call EXCEPT ![c] = Left(c, pc, result)], erpSend' = erpSend
          PROVE  Inv'
      <3>1. CallInv(c)' /\ call' \in [Calls -> CallType] /\ \A d \in Calls \ {c} : call'[d] = call[d]
        BY <1>1, <2>2, LeftCall DEF StartSend
      <3>2. TypeOK'
        BY <1>1, <2>2, <3>1 DEF Inv, TypeOK, StartSend
      <3> QED
        BY <1>1, <3>1, <3>2, LocalStep DEF StartSend
    <2> QED
      BY <1>1, <2>1, <2>2 DEF StartSend, Results
  <1>2. CASE Refuse(c) \/ SendToReview(c) \/ GiveUp(c)
    <2>1. Returning(c, "not_sent") /\ call[c].pc # "idle" /\ "not_sent" \in Results
      BY <1>2 DEF Refuse, SendToReview, GiveUp, Results
    <2>2. CallInv(c)' /\ call' \in [Calls -> CallType] /\ \A d \in Calls \ {c} : call'[d] = call[d]
      BY <2>1, ReturningCall
    <2>3. bill' \in [Bills -> BillType]
      <3>1. CASE bill' = bill
        BY <3>1 DEF Inv, TypeOK
      <3>2. CASE SendToReview(c)
        <4>1. call[c].bill \in Bills
          BY <3>2 DEF Inv, CallInv, SendToReview
        <4>2. bill[call[c].bill] \in BillType
          BY <4>1 DEF Inv, TypeOK
        <4>3. [bill[call[c].bill] EXCEPT !.status = "needs_review", !.docNo = FALSE] \in BillType
          BY <4>2 DEF BillType, Sendable
        <4> QED
          BY <3>2, <4>1, <4>3 DEF Inv, TypeOK, SendToReview
      <3> QED
        BY <1>2, <3>1, <3>2 DEF Refuse, GiveUp
    <2>4. UNCHANGED <<attempt, order, reservation, recalc, erpSend, wire, smlDoc>>
      BY <1>2 DEF Refuse, SendToReview, GiveUp
    <2>5. TypeOK'
      BY <2>2, <2>3, <2>4 DEF Inv, TypeOK
    <2> QED
      BY <2>2, <2>4, <2>5, LocalStep
  <1>3. CASE NoAnswer(c)
    <2>1. call[c] \in CallType
      BY DEF Inv, TypeOK
    <2>2. [call[c] EXCEPT !.pc = "answered", !.answer = "transient"] \in CallType
      BY <2>1 DEF CallType, Running, Answers
    <2>3. TypeOK'
      BY <1>3, <2>2 DEF Inv, TypeOK, NoAnswer
    <2>4. CallInv(c)'
      BY <1>3, <2>1 DEF Inv, TypeOK, CallInv, NoAnswer, CallType
    <2> QED
      BY <1>3, <2>3, <2>4, LocalStep DEF NoAnswer, Inv, TypeOK
  <1>4. CASE CompleteSend(c) \/ SyncSnapshot(c)
    <2>1. PICK pc \in {"syncing", "done"} : call' = [call EXCEPT ![c].pc = pc]
      BY <1>4 DEF CompleteSend, SyncSnapshot
    <2>2. call[c] \in CallType
      BY DEF Inv, TypeOK
    <2>3. [call[c] EXCEPT !.pc = pc] \in CallType
      BY <2>2 DEF CallType, Running
    <2>4. TypeOK'
      <3>1. call' \in [Calls -> CallType]
        BY <2>1, <2>3 DEF Inv, TypeOK
      <3>2. CASE CompleteSend(c)
        BY <3>1, <3>2 DEF Inv, TypeOK, CompleteSend
      <3>3. CASE SyncSnapshot(c)
        BY <3>1, <3>3 DEF Inv, TypeOK, SyncSnapshot
      <3> QED
        BY <1>4, <3>2, <3>3
    <2>5. CallInv(c)'
      BY <1>4, <2>1, <2>2 DEF Inv, TypeOK, CallInv, CompleteSend, SyncSnapshot, CallType
    <2> QED
      BY <1>4, <2>1, <2>4, <2>5, LocalStep DEF CompleteSend, SyncSnapshot, Inv, TypeOK
  <1>5. CASE Crash(c)
    <2>1. call[c].pc # "idle" /\ call[c].result \in Results
      BY <1>5 DEF Crash, Inv, TypeOK, CallType
    <2>2. call' = [call EXCEPT ![c] = Left(c, "crashed", call[c].result)]
      BY <1>5 DEF Crash
    <2>3. CallInv(c)' /\ call' \in [Calls -> CallType] /\ \A d \in Calls \ {c} : call'[d] = call[d]
      BY <2>1, <2>2, LeftCall
    <2>4. TypeOK'
      BY <1>5, <2>3 DEF Inv, TypeOK, Crash
    <2> QED
      BY <1>5, <2>3, <2>4, LocalStep DEF Crash
  <1> QED
    BY <1>1, <1>2, <1>3, <1>4, <1>5

\* A request goes out with the payload of the bill's attempt.
LEMMA TransmitInv ==
  ASSUME Inv, Keeps, NEW c \in Calls, call[c].bill \in Bills, call[c].pc = "ready",
         attempt'[call[c].bill].state # "none",
         NEW payload \in Contents, attempt'[call[c].bill].payload = payload,
         Transmit(c, payload), smlDoc' = smlDoc
  PROVE  WireInv' /\ \A d \in Calls : CallInv(d)'
  <1>1. WireInv'
    <2> SUFFICES ASSUME NEW r \in wire'
                 PROVE  attempt'[r.bill].state # "none" /\ r.payload = attempt'[r.bill].payload
      BY DEF WireInv
    <2>1. CASE r \in wire
      <3>1. r.bill \in Bills
        BY <2>1 DEF Inv, TypeOK, Request
      <3> QED
        BY <2>1, <3>1 DEF Inv, WireInv, Keeps
    <2>2. CASE r \notin wire
      BY <2>2 DEF Transmit
    <2> QED
      BY <2>1, <2>2
  <1>2. call'[c] = [call[c] EXCEPT !.pc = "waiting"] /\ \A d \in Calls \ {c} : call'[d] = call[d]
    BY DEF Transmit, Inv, TypeOK
  <1>3. CallInv(c)'
    <2>1. CallInv(c) /\ call[c] \in CallType
      BY DEF Inv, TypeOK
    <2>2. /\ call'[c].pc = "waiting" /\ call'[c].bill = call[c].bill
          /\ call'[c].answer = call[c].answer
      BY <1>2, <2>1 DEF CallType
    <2> QED
      BY <2>1, <2>2 DEF CallInv, Keeps
  <1>4. ASSUME NEW d \in Calls, d # c PROVE CallInv(d)'
    BY <1>2, <1>4, OtherCalls
  <1> QED
    BY <1>1, <1>3, <1>4

\* A step that writes only the attempt of one bill, the wire, and the call's
\* record keeps what it must when it neither removes nor rewrites an attempt.
LEMMA AttemptStep ==
  ASSUME Inv, NEW b \in Bills, NEW a \in AttemptType,
         attempt' = [attempt EXCEPT ![b] = a], smlDoc' = smlDoc,
         a.state # "none",
         attempt[b].state # "none" => a.payload = attempt[b].payload,
         a.payload # NoDoc,
         a.state = "sent" => smlDoc[b] = a.payload
  PROVE  Keeps /\ \A d \in Bills : AttemptInv(d)'
  <1>1. attempt'[b] = a /\ \A d \in Bills \ {b} : attempt'[d] = attempt[d]
    BY DEF Inv, TypeOK
  <1>2. Keeps
    BY <1>1 DEF Keeps
  <1>3. ASSUME NEW d \in Bills PROVE AttemptInv(d)'
    <2>1. AttemptInv(d)
      BY DEF Inv
    <2>2. CASE d = b
      BY <1>1, <2>1, <2>2 DEF AttemptInv
    <2>3. CASE d # b
      BY <1>1, <2>1, <2>3 DEF AttemptInv
    <2> QED
      BY <2>2, <2>3
  <1> QED
    BY <1>2, <1>3

\* Creating the attempt, or refusing to.
LEMMA CreateInv ==
  ASSUME Inv, NEW c \in Calls, CreateSMLAttempt(c)
  PROVE  Inv'
  <1> DEFINE b == call[c].bill
  <1>1. /\ b \in Bills /\ call[c].pc = "ready" /\ call[c].content \in Contents
        /\ call[c] \in CallType /\ bill[b] \in BillType
    BY DEF Inv, CallInv, TypeOK, CallType, CreateSMLAttempt
  <1>2. CASE MayCreate(c)
    <2> DEFINE a == [state |-> "sending", owner |-> c, live |-> TRUE, payload |-> call[c].content]
    <2>1. a \in AttemptType
      BY <1>1 DEF AttemptType, AttemptStates
    <2>2. /\ attempt' = [attempt EXCEPT ![b] = a] /\ smlDoc' = smlDoc
          /\ Transmit(c, call[c].content) /\ bill' = [bill EXCEPT ![b].docNo = TRUE]
          /\ reservation' = IF reservation.bill = b /\ reservation.state = "active"
                            THEN [reservation EXCEPT !.state = "sending_sml"] ELSE reservation
          /\ UNCHANGED <<order, recalc, erpSend>>
      BY <1>2 DEF CreateSMLAttempt
    <2>3. attempt[b].state = "none"
      BY <1>2 DEF MayCreate
    <2>4. call[c].content # NoDoc
      BY <1>1, NullAssumption
    <2>5. a.state = "sending" /\ a.payload = call[c].content
      OBVIOUS
    <2> HIDE DEF a
    <2>6. Keeps /\ \A d \in Bills : AttemptInv(d)'
      BY <1>1, <2>1, <2>2, <2>3, <2>4, <2>5, AttemptStep
    <2>7. attempt'[b] = a
      BY <1>1, <2>2 DEF Inv, TypeOK
    <2>8. WireInv' /\ \A d \in Calls : CallInv(d)'
      BY <1>1, <2>2, <2>5, <2>6, <2>7, TransmitInv
    <2>9. TypeOK'
      <3>1. wire' \subseteq Request /\ call' \in [Calls -> CallType]
        BY <1>1, <2>2, TransmitType DEF Inv
      <3>2. bill' \in [Bills -> BillType]
        <4>1. [bill[b] EXCEPT !.docNo = TRUE] \in BillType
          BY <1>1 DEF BillType
        <4> QED
          BY <1>1, <2>2, <4>1 DEF Inv, TypeOK
      <3>3. attempt' \in [Bills -> AttemptType]
        BY <1>1, <2>1, <2>2 DEF Inv, TypeOK
      <3>4. reservation' \in [state : ReservationStates, bill : Bills \cup {NoBill}]
        BY <2>2 DEF Inv, TypeOK, ReservationStates
      <3> QED
        BY <2>2, <3>1, <3>2, <3>3, <3>4 DEF Inv, TypeOK
    <2> QED
      BY <2>6, <2>8, <2>9 DEF Inv
  <1>3. CASE ~MayCreate(c)
    <2>1. Returning(c, "not_sent") /\ UNCHANGED <<attempt, bill, reservation, wire, order, recalc, erpSend, smlDoc>>
      BY <1>3 DEF CreateSMLAttempt
    <2>2. CallInv(c)' /\ call' \in [Calls -> CallType] /\ \A d \in Calls \ {c} : call'[d] = call[d]
      BY <1>1, <2>1, ReturningCall DEF Results
    <2>3. TypeOK'
      BY <2>1, <2>2 DEF Inv, TypeOK
    <2> QED
      BY <2>1, <2>2, <2>3, LocalStep
  <1> QED
    BY <1>2, <1>3

\* Claiming the attempt to send it again, or finding it sent, stale or busy.
LEMMA ClaimInv ==
  ASSUME Inv, NEW c \in Calls, ClaimExistingSMLAttempt(c)
  PROVE  Inv'
  <1> DEFINE b == call[c].bill
  <1>1. /\ b \in Bills /\ call[c].pc = "ready" /\ attempt[b].state # "none"
        /\ attempt[b] \in AttemptType
    BY DEF Inv, CallInv, TypeOK, ClaimExistingSMLAttempt
  <1>2. attempt[b].payload \in Contents
    BY <1>1 DEF Inv, AttemptInv, AttemptType
  <1>3. CASE MayClaim(c)
    <2> DEFINE a == [attempt[b] EXCEPT !.state = "sending", !.owner = c, !.live = TRUE]
    <2>1. a \in AttemptType /\ a.state = "sending" /\ a.payload = attempt[b].payload
      BY <1>1 DEF AttemptType, AttemptStates
    <2>2. /\ attempt' = [attempt EXCEPT ![b] = a] /\ Transmit(c, attempt[b].payload)
          /\ UNCHANGED <<bill, order, reservation, recalc, erpSend, smlDoc>>
      BY <1>3 DEF ClaimExistingSMLAttempt
    <2> HIDE DEF a
    <2>3. attempt[b].payload # NoDoc
      BY <1>2, NullAssumption
    <2>4. Keeps /\ \A d \in Bills : AttemptInv(d)'
      BY <1>1, <2>1, <2>2, <2>3, AttemptStep
    <2>5. attempt'[b] = a
      BY <1>1, <2>2 DEF Inv, TypeOK
    <2>6. WireInv' /\ \A d \in Calls : CallInv(d)'
      BY <1>1, <1>2, <2>1, <2>2, <2>4, <2>5, TransmitInv
    <2>7. TypeOK'
      <3>1. wire' \subseteq Request /\ call' \in [Calls -> CallType]
        BY <1>1, <1>2, <2>2, TransmitType DEF Inv
      <3>2. attempt' \in [Bills -> AttemptType]
        BY <1>1, <2>1, <2>2 DEF Inv, TypeOK
      <3> QED
        BY <2>2, <3>1, <3>2 DEF Inv, TypeOK
    <2> QED
      BY <2>4, <2>6, <2>7 DEF Inv
  <1>4. CASE ~MayClaim(c)
    <2>1. PICK result \in {"already_sent", "not_sent"} : Returning(c, result)
      BY <1>4 DEF ClaimExistingSMLAttempt
    <2>2. UNCHANGED <<attempt, bill, reservation, wire, order, recalc, erpSend, smlDoc>>
      BY <1>4 DEF ClaimExistingSMLAttempt
    <2>3. CallInv(c)' /\ call' \in [Calls -> CallType] /\ \A d \in Calls \ {c} : call'[d] = call[d]
      BY <1>1, <2>1, ReturningCall DEF Results
    <2>4. TypeOK'
      BY <2>2, <2>3 DEF Inv, TypeOK
    <2> QED
      BY <2>2, <2>3, <2>4, LocalStep
  <1> QED
    BY <1>3, <1>4

\* Recording the outcome: a call that was answered with success makes the
\* attempt sent, and SML has held its payload since that answer.
LEMMA RecordInv ==
  ASSUME Inv, NEW c \in Calls, Record(c)
  PROVE  Inv'
  <1> DEFINE b == call[c].bill
             outcome == OutcomeOf(call[c].answer)
             a == [attempt[b] EXCEPT !.state = outcome, !.owner = NoCall, !.live = FALSE]
  <1>1. /\ b \in Bills /\ call[c].pc = "answered" /\ CallInv(c) /\ call[c] \in CallType
        /\ attempt[b] \in AttemptType /\ bill[b] \in BillType /\ attempt[b].state # "none"
    BY DEF Inv, CallInv, TypeOK, Record
  <1>2. /\ outcome \in {"sent", "failed_exact_retry", "unknown", "stale_requires_reconciliation"}
        /\ outcome = "sent" => call[c].answer = "success"
    BY <1>1 DEF CallInv, CallType, Answers, OutcomeOf
  <1>3. /\ attempt' = [attempt EXCEPT ![b] = a]
        /\ reservation' = IF reservation.bill = b
                          THEN [reservation EXCEPT !.state = ReservationAfter(outcome, @)]
                          ELSE reservation
        /\ recalc' = JobsAfter(outcome, b)
        /\ Returning(c, IF outcome = "sent" THEN "sent" ELSE "not_sent")
        /\ UNCHANGED <<order, erpSend, wire, smlDoc>>
    BY DEF Record
  <1>4. PICK status \in BillStatuses(outcome) :
          bill' = [bill EXCEPT ![b] = [@ EXCEPT !.status = status, !.docNo = TRUE]]
    BY DEF Record
  <1>5. call[c].answer = "success" => smlDoc[b] = attempt[b].payload
    BY <1>1 DEF CallInv
  <1> HIDE DEF outcome
  <1>6. a \in AttemptType /\ a.state = outcome /\ a.payload = attempt[b].payload
    BY <1>1, <1>2 DEF AttemptType, AttemptStates
  <1> HIDE DEF a
  <1>7. attempt[b].payload # NoDoc
    BY <1>1 DEF Inv, AttemptInv
  <1>8. Keeps /\ \A d \in Bills : AttemptInv(d)'
    BY <1>1, <1>2, <1>3, <1>5, <1>6, <1>7, AttemptStep
  <1>9. CallInv(c)' /\ call' \in [Calls -> CallType] /\ \A d \in Calls \ {c} : call'[d] = call[d]
    <2> DEFINE result == IF outcome = "sent" THEN "sent" ELSE "not_sent"
    <2>1. result \in Results /\ Returning(c, result)
      BY <1>3 DEF Results
    <2> HIDE DEF result
    <2>2. /\ call' \in [Calls -> CallType]
          /\ call'[c] = Left(c, IF ShopeeRealtime THEN "returning" ELSE "done", result)
          /\ \A d \in Calls \ {c} : call'[d] = call[d]
      BY <2>1, ReturningType DEF Inv, TypeOK, Returning
    <2> DEFINE pc == IF ShopeeRealtime THEN "returning" ELSE "done"
    <2>3. pc \in {"returning", "done"} /\ call'[c] = Left(c, pc, result)
      BY <2>2
    <2> HIDE DEF pc
    <2>4. /\ Left(c, pc, result).pc = pc /\ Left(c, pc, result).bill = call[c].bill
          /\ Left(c, pc, result).answer = "none" /\ ~Left(c, pc, result).hasAttempt
      BY DEF Left, IdleCall
    <2>5. /\ call'[c].pc = pc /\ call'[c].bill = call[c].bill
          /\ call'[c].answer = "none" /\ ~call'[c].hasAttempt
      BY <2>3, <2>4
    <2> QED
      BY <1>1, <2>2, <2>3, <2>5 DEF CallInv
  <1>10. \A d \in Calls : CallInv(d)'
    <2>1. ASSUME NEW d \in Calls, d # c PROVE CallInv(d)'
      BY <1>8, <1>9, <2>1, OtherCalls
    <2> QED
      BY <1>9, <2>1
  <1>11. WireInv'
    BY <1>3, <1>8 DEF Inv, WireInv, Keeps, TypeOK, Request
  <1>12. TypeOK'
    <2>1. bill' \in [Bills -> BillType]
      <3>1. status \in Sendable \cup {"sent"}
        BY <1>2, <1>4 DEF BillStatuses, Sendable
      <3>2. [bill[b] EXCEPT !.status = status, !.docNo = TRUE] \in BillType
        BY <1>1, <3>1 DEF BillType
      <3> QED
        BY <1>1, <1>4, <3>2 DEF Inv, TypeOK
    <2>2. attempt' \in [Bills -> AttemptType]
      BY <1>1, <1>3, <1>6 DEF Inv, TypeOK
    <2>3. reservation' \in [state : ReservationStates, bill : Bills \cup {NoBill}]
      <3>1. ReservationAfter(outcome, reservation.state) \in ReservationStates
        BY DEF Inv, TypeOK, ReservationAfter, ReservationStates
      <3> QED
        BY <1>3, <3>1 DEF Inv, TypeOK
    <2>4. recalc' \subseteq Bills
      BY <1>1, <1>3 DEF Inv, TypeOK, JobsAfter
    <2> QED
      BY <1>3, <1>9, <2>1, <2>2, <2>3, <2>4 DEF Inv, TypeOK
  <1> QED
    BY <1>8, <1>10, <1>11, <1>12 DEF Inv

\* A renewal, or a lease that runs out, touches nothing but the lease.
LEMMA LeaseInv ==
  ASSUME Inv, NEW b \in Bills, NEW live \in BOOLEAN,
         attempt' = [attempt EXCEPT ![b].live = live],
         UNCHANGED <<bill, order, reservation, recalc, erpSend, call, wire, smlDoc>>
  PROVE  Inv'
  <1>1. attempt[b] \in AttemptType
    BY DEF Inv, TypeOK
  <1>2. /\ [attempt[b] EXCEPT !.live = live] \in AttemptType
        /\ [attempt[b] EXCEPT !.live = live].state = attempt[b].state
        /\ [attempt[b] EXCEPT !.live = live].payload = attempt[b].payload
    BY <1>1 DEF AttemptType
  <1>3. /\ attempt' \in [Bills -> AttemptType]
        /\ \A d \in Bills : /\ attempt'[d].state = attempt[d].state
                            /\ attempt'[d].payload = attempt[d].payload
    BY <1>2 DEF Inv, TypeOK
  <1>4. Keeps
    BY <1>3 DEF Keeps
  <1>5. TypeOK'
    BY <1>3 DEF Inv, TypeOK
  <1>6. WireInv'
    BY <1>3 DEF Inv, WireInv, TypeOK, Request
  <1>7. ASSUME NEW d \in Bills PROVE AttemptInv(d)'
    BY <1>3 DEF Inv, AttemptInv
  <1>8. ASSUME NEW d \in Calls PROVE CallInv(d)'
    BY <1>4, OtherCalls
  <1> QED
    BY <1>5, <1>6, <1>7, <1>8 DEF Inv

\* SML handling a request: it stores nothing but the payload of the attempt,
\* and the answer goes to the call whose bill the request is for.
LEMMA ProcessInv ==
  ASSUME Inv, SenderInv, NEW r \in wire, SMLProcess(r)
  PROVE  Inv'
  <1>1. /\ r \in Request /\ r.bill \in Bills /\ r.call \in Calls /\ r.payload \in Contents
        /\ attempt[r.bill].state # "none" /\ r.payload = attempt[r.bill].payload
        /\ call[r.call].bill = r.bill
    BY DEF Inv, TypeOK, Request, WireInv, SenderInv
  <1>2. PICK verdict \in Verdicts(r), delivered \in BOOLEAN :
          /\ smlDoc' = IF verdict = "success" THEN [smlDoc EXCEPT ![r.bill] = r.payload] ELSE smlDoc
          /\ call' = IF delivered /\ call[r.call].pc = "waiting"
                     THEN [call EXCEPT ![r.call] = [@ EXCEPT !.pc = "answered", !.answer = verdict]]
                     ELSE call
    BY DEF SMLProcess
  <1>3. verdict \in {"success", "rejected", "mismatch"}
    BY DEF Verdicts
  <1>4. UNCHANGED <<bill, attempt, order, reservation, recalc, erpSend>> /\ wire' = wire \ {r}
    BY DEF SMLProcess
  <1>5. /\ smlDoc' \in [Bills -> Contents \cup {NoDoc, ForeignDoc}]
        /\ verdict = "success" => smlDoc'[r.bill] = r.payload
        /\ \A b \in Bills : smlDoc'[b] = smlDoc[b] \/ (b = r.bill /\ smlDoc'[b] = r.payload)
    BY <1>1, <1>2 DEF Inv, TypeOK
  <1>6. Keeps
    BY <1>1, <1>4, <1>5 DEF Keeps
  <1>7. WireInv'
    BY <1>4 DEF Inv, WireInv
  <1>8. ASSUME NEW b \in Bills PROVE AttemptInv(b)'
    <2>1. AttemptInv(b)
      BY DEF Inv
    <2> QED
      BY <1>1, <1>4, <1>5, <2>1 DEF AttemptInv
  <1>9. ASSUME NEW c \in Calls PROVE CallInv(c)' /\ call'[c] \in CallType
    <2>1. CallInv(c) /\ call[c] \in CallType
      BY DEF Inv, TypeOK
    <2>2. CASE call'[c] = call[c]
      BY <1>6, <2>1, <2>2, OtherCalls
    <2>3. CASE /\ c = r.call /\ call[c].pc = "waiting"
               /\ call'[c] = [call[c] EXCEPT !.pc = "answered", !.answer = verdict]
      <3>1. call'[c] \in CallType /\ call'[c].pc = "answered" /\ call'[c].answer = verdict
            /\ call'[c].bill = call[c].bill /\ call'[c].hasAttempt = call[c].hasAttempt
        BY <1>3, <2>1, <2>3 DEF CallType, Running, Answers
      <3> QED
        BY <1>1, <1>3, <1>4, <1>5, <2>1, <2>3, <3>1 DEF CallInv
    <2> QED
      BY <1>1, <1>2, <2>2, <2>3 DEF Inv, TypeOK
  <1>10. TypeOK'
    <2>1. call' \in [Calls -> CallType]
      <3>1. call' = [c \in Calls |-> call'[c]]
        BY <1>2 DEF Inv, TypeOK
      <3> QED
        BY <1>9, <3>1
    <2> QED
      BY <1>4, <1>5, <2>1 DEF Inv, TypeOK
  <1> QED
    BY <1>7, <1>8, <1>9, <1>10 DEF Inv

\* No step moves a call that has left idle to another bill, and a new request
\* carries the bill of its sender.
LEMMA SenderNext == Inv /\ SenderInv /\ [Next]_vars => SenderInv'
  <1> SUFFICES ASSUME Inv, SenderInv, [Next]_vars PROVE SenderInv'
    OBVIOUS
  <1>1. ASSUME NEW c \in Calls, NEW new, call' = [call EXCEPT ![c] = new],
               call[c].pc # "idle" => new.pc # "idle" /\ new.bill = call[c].bill,
               \A r \in wire' \ wire : r.call = c /\ new.pc # "idle" /\ r.bill = new.bill
        PROVE  SenderInv'
    <2> SUFFICES ASSUME NEW r \in wire' PROVE call'[r.call].pc # "idle" /\ call'[r.call].bill = r.bill
      BY DEF SenderInv
    <2>1. call'[c] = new /\ \A d \in Calls \ {c} : call'[d] = call[d]
      BY <1>1 DEF Inv, TypeOK
    <2>2. CASE r \in wire
      <3>1. r.call \in Calls /\ call[r.call].pc # "idle" /\ call[r.call].bill = r.bill
        BY <2>2 DEF SenderInv, Inv, TypeOK, Request
      <3> QED
        BY <1>1, <2>1, <3>1
    <2>3. CASE r \notin wire
      BY <1>1, <2>1, <2>3
    <2> QED
      BY <2>2, <2>3
  <1>2. ASSUME call' = call, wire' \subseteq wire PROVE SenderInv'
    BY <1>2 DEF SenderInv
  <1>3. ASSUME NEW c \in Calls, NEW pc \in {"returning", "syncing", "done", "crashed"}, NEW result,
               call' = [call EXCEPT ![c] = Left(c, pc, result)], wire' = wire
        PROVE  SenderInv'
    <2>1. Left(c, pc, result).pc = pc /\ Left(c, pc, result).bill = call[c].bill
      BY DEF Left, IdleCall
    <2> QED
      BY <1>1, <1>3, <2>1
  <1>4. ASSUME NEW c \in Calls, NEW result, Returning(c, result), wire' = wire PROVE SenderInv'
    <2> DEFINE pc == IF ShopeeRealtime THEN "returning" ELSE "done"
    <2>1. pc \in {"returning", "syncing", "done", "crashed"}
      OBVIOUS
    <2>2. call' = [call EXCEPT ![c] = Left(c, pc, result)]
      BY <1>4 DEF Returning
    <2> HIDE DEF pc
    <2> QED
      BY <1>3, <1>4, <2>1, <2>2
  <1>5. ASSUME NEW c \in Calls, NEW payload, call[c].pc = "ready", Transmit(c, payload) PROVE SenderInv'
    <2> DEFINE new == [call[c] EXCEPT !.pc = "waiting"]
    <2>1. new.pc = "waiting" /\ new.bill = call[c].bill /\ call' = [call EXCEPT ![c] = new]
      BY <1>5 DEF Inv, TypeOK, CallType, Transmit
    <2>2. \A r \in wire' \ wire : r.call = c /\ r.bill = call[c].bill
      BY <1>5 DEF Transmit
    <2> HIDE DEF new
    <2>3. \A r \in wire' \ wire : r.call = c /\ new.pc # "idle" /\ r.bill = new.bill
      BY <2>1, <2>2
    <2>4. call[c].pc # "idle" => new.pc # "idle" /\ new.bill = call[c].bill
      BY <2>1
    <2> QED
      BY <1>1, <2>1, <2>3, <2>4
  <1>6. ASSUME NEW c \in Calls, NEW new, call' = [call EXCEPT ![c] = new], wire' \subseteq wire,
               new.pc # "idle", call[c].pc = "idle" \/ new.bill = call[c].bill
        PROVE  SenderInv'
    BY <1>1, <1>6
  <1>7. CASE OrderStep
    BY <1>2, <1>7 DEF OrderStep, CreateBill, EditBill, ApplyNameMapping, SetArchived, DeleteBill, Recreate,
       ReconcileMapping, CancelOrder, SettleRecalc
  <1>8. ASSUME NEW c \in Calls, NEW b \in Bills, Load(c, b) PROVE SenderInv'
    <2> DEFINE loaded == [call[c] EXCEPT !.pc = IF ShopeeRealtime THEN "loaded" ELSE "ready",
                          !.bill = b, !.rev = bill[b].rev, !.content = bill[b].content,
                          !.hasAttempt = attempt[b].state # "none"]
    <2>1. call' = [call EXCEPT ![c] = loaded] /\ wire' = wire /\ call[c].pc = "idle"
      BY <1>8 DEF Load
    <2>2. loaded.pc # "idle"
      BY DEF Inv, TypeOK, CallType
    <2> HIDE DEF loaded
    <2> QED
      BY <1>6, <2>1, <2>2
  <1>9. ASSUME NEW c \in Calls, SenderStep(c) \/ Heartbeat(c) \/ Crash(c) PROVE SenderInv'
    <2>1. CASE StartSend(c)
      <3>1. CASE call' = [call EXCEPT ![c].pc = "ready"]
        <4>1. [call[c] EXCEPT !.pc = "ready"].pc = "ready"
              /\ [call[c] EXCEPT !.pc = "ready"].bill = call[c].bill
          BY DEF Inv, TypeOK, CallType
        <4> QED
          BY <1>6, <2>1, <3>1, <4>1 DEF StartSend
      <3> QED
        BY <1>3, <2>1, <3>1 DEF StartSend
    <2>2. CASE Refuse(c) \/ SendToReview(c) \/ GiveUp(c) \/ Record(c)
      BY <1>4, <2>2 DEF Refuse, SendToReview, GiveUp, Record
    <2>3. CASE CreateSMLAttempt(c)
      BY <1>4, <1>5, <2>3 DEF CreateSMLAttempt
    <2>4. CASE ClaimExistingSMLAttempt(c)
      BY <1>4, <1>5, <2>4 DEF ClaimExistingSMLAttempt
    <2>5. CASE NoAnswer(c)
      <3> DEFINE new == [call[c] EXCEPT !.pc = "answered", !.answer = "transient"]
      <3>1. new.pc = "answered" /\ new.bill = call[c].bill /\ call' = [call EXCEPT ![c] = new]
        BY <2>5 DEF NoAnswer, Inv, TypeOK, CallType
      <3> HIDE DEF new
      <3> QED
        BY <1>6, <2>5, <3>1 DEF NoAnswer
    <2>6. CASE CompleteSend(c) \/ SyncSnapshot(c)
      <3>1. PICK pc \in {"syncing", "done"} : call' = [call EXCEPT ![c].pc = pc]
        BY <2>6 DEF CompleteSend, SyncSnapshot
      <3>2. [call[c] EXCEPT !.pc = pc].pc = pc /\ [call[c] EXCEPT !.pc = pc].bill = call[c].bill
        BY DEF Inv, TypeOK, CallType
      <3> QED
        BY <1>6, <2>6, <3>1, <3>2 DEF CompleteSend, SyncSnapshot
    <2>7. CASE Heartbeat(c)
      <3>1. /\ [call[c] EXCEPT !.leaseLost = TRUE].pc = call[c].pc
            /\ [call[c] EXCEPT !.leaseLost = TRUE].bill = call[c].bill
        BY DEF Inv, TypeOK, CallType
      <3> QED
        BY <1>2, <1>6, <2>7, <3>1 DEF Heartbeat
    <2>8. CASE Crash(c)
      BY <1>3, <2>8 DEF Crash
    <2> QED
      BY <1>9, <2>1, <2>2, <2>3, <2>4, <2>5, <2>6, <2>7, <2>8 DEF SenderStep
  <1>10. ASSUME NEW r \in wire, SMLProcess(r) PROVE SenderInv'
    <2>1. PICK verdict \in Verdicts(r), delivered \in BOOLEAN :
            call' = IF delivered /\ call[r.call].pc = "waiting"
                    THEN [call EXCEPT ![r.call] = [@ EXCEPT !.pc = "answered", !.answer = verdict]]
                    ELSE call
      BY <1>10 DEF SMLProcess
    <2>2. r.call \in Calls /\ wire' \subseteq wire
      BY <1>10 DEF SMLProcess, Inv, TypeOK, Request
    <2> DEFINE new == [call[r.call] EXCEPT !.pc = "answered", !.answer = verdict]
    <2>3. new.pc = "answered" /\ new.bill = call[r.call].bill
      BY <2>2 DEF Inv, TypeOK, CallType
    <2>4. call' = call \/ call' = [call EXCEPT ![r.call] = new]
      BY <2>1
    <2> HIDE DEF new
    <2> QED
      BY <1>2, <1>6, <2>2, <2>3, <2>4
  <1>11. CASE (\E b \in Bills : LeaseExpires(b)) \/ UNCHANGED vars
    BY <1>2, <1>11 DEF LeaseExpires, vars
  <1> QED
    BY <1>7, <1>8, <1>9, <1>10, <1>11 DEF Next

\* Every step keeps the invariant.
LEMMA InvNext == Inv /\ SenderInv /\ [Next]_vars => Inv'
  <1> SUFFICES ASSUME Inv, SenderInv, [Next]_vars PROVE Inv'
    OBVIOUS
  <1>1. CASE OrderStep
    BY <1>1, OrderInv
  <1>2. ASSUME NEW c \in Calls, NEW b \in Bills, Load(c, b) PROVE Inv'
    BY <1>2, LoadInv
  <1>3. ASSUME NEW c \in Calls, SenderStep(c) \/ Crash(c) PROVE Inv'
    BY <1>3, QuietInv, CreateInv, ClaimInv, RecordInv DEF SenderStep
  <1>4. ASSUME NEW c \in Calls, Heartbeat(c) PROVE Inv'
    <2>1. call[c].bill \in Bills /\ call[c] \in CallType
      BY <1>4 DEF Heartbeat, Inv, CallInv, TypeOK
    <2>2. CASE call' = call /\ attempt' = [attempt EXCEPT ![call[c].bill].live = TRUE]
      <3>1. UNCHANGED <<bill, order, reservation, recalc, erpSend, call, wire, smlDoc>>
        BY <1>4, <2>2 DEF Heartbeat
      <3> QED
        BY <2>1, <2>2, <3>1, LeaseInv
    <2>3. CASE call' = [call EXCEPT ![c].leaseLost = TRUE] /\ attempt' = attempt
      <3> DEFINE new == [call[c] EXCEPT !.leaseLost = TRUE]
      <3>1. /\ new \in CallType /\ new.pc = call[c].pc /\ new.bill = call[c].bill
            /\ new.answer = call[c].answer /\ new.hasAttempt = call[c].hasAttempt
        BY <2>1 DEF CallType
      <3>2. call' = [call EXCEPT ![c] = new]
        BY <2>3
      <3> HIDE DEF new
      <3>3. call' \in [Calls -> CallType] /\ call'[c] = new /\ \A d \in Calls \ {c} : call'[d] = call[d]
        BY <3>1, <3>2 DEF Inv, TypeOK
      <3>4. UNCHANGED <<bill, attempt, order, reservation, recalc, erpSend, wire, smlDoc>>
        BY <1>4, <2>3 DEF Heartbeat
      <3>5. TypeOK'
        BY <3>3, <3>4 DEF Inv, TypeOK
      <3>6. CallInv(c)'
        <4>1. CallInv(c)
          BY DEF Inv
        <4> QED
          BY <3>1, <3>3, <3>4, <4>1 DEF CallInv
      <3> QED
        BY <3>3, <3>4, <3>5, <3>6, LocalStep
    <2> QED
      BY <1>4, <2>2, <2>3 DEF Heartbeat
  <1>5. ASSUME NEW r \in wire, SMLProcess(r) PROVE Inv'
    BY <1>5, ProcessInv
  <1>6. ASSUME NEW b \in Bills, LeaseExpires(b) PROVE Inv'
    BY <1>6, LeaseInv DEF LeaseExpires
  <1>7. CASE UNCHANGED vars
    <2>1. TypeOK'
      BY <1>7 DEF vars, Inv, TypeOK
    <2> QED
      BY <1>7, <2>1, LocalStep DEF vars
  <1> QED
    BY <1>1, <1>2, <1>3, <1>4, <1>5, <1>6, <1>7 DEF Next

-----------------------------------------------------------------------------
(* Theorems.                                                               *)

\* The invariant holds in every reachable state.
LEMMA Invariance == Spec => [](Inv /\ SenderInv)
  <1>1. Init => Inv /\ SenderInv
    BY InitInv DEF Init, SenderInv
  <1>2. (Inv /\ SenderInv) /\ [Next]_vars => (Inv /\ SenderInv)'
    BY InvNext, SenderNext
  <1> QED
    BY <1>1, <1>2, PTL DEF Spec

\* Every table and every call keeps its shape, for any number of bills, calls
\* and edits: no handler writes a state the schema does not know.
THEOREM TypeCorrect == Spec => []TypeOK
  <1>1. Inv => TypeOK
    BY DEF Inv
  <1> QED
    BY <1>1, Invariance, PTL

\* Whatever reaches SML for a bill, first send or replay, is the one payload
\* its attempt froze.
THEOREM PayloadImmutable == Spec => []OneImmutablePayload
  <1>1. Inv => OneImmutablePayload
    BY DEF Inv, WireInv, AttemptInv, OneImmutablePayload
  <1> QED
    BY <1>1, Invariance, PTL

\* FinishSMLAttempt marks a bill sent only when SML holds its payload.
THEOREM StoredWhenSent == Spec => []SentIsStored
  <1>1. Inv => SentIsStored
    BY DEF Inv, AttemptInv, SentIsStored
  <1> QED
    BY <1>1, Invariance, PTL

\* The lease is held on attempts being sent only: a recorded attempt is not
\* live, so neither a heartbeat nor the expiry of its lease can touch it.
LiveInv == \A b \in Bills : attempt[b].live => attempt[b].state = "sending"

SentStays == \A b \in Bills : attempt[b].state = "sent" => attempt'[b] = attempt[b]

\* A step that writes one attempt that is not sent keeps those that are.
LEMMA OneAttemptStep ==
  ASSUME Inv, LiveInv, NEW b \in Bills, attempt[b].state # "sent", NEW a,
         attempt' = [attempt EXCEPT ![b] = a], a.live => a.state = "sending"
  PROVE  LiveInv' /\ SentStays
  <1>1. attempt'[b] = a /\ \A d \in Bills \ {b} : attempt'[d] = attempt[d]
    BY DEF Inv, TypeOK
  <1> QED
    BY <1>1 DEF LiveInv, SentStays

\* Every step keeps the lease invariant and the attempts that are sent.
LEMMA LiveNext == Inv /\ LiveInv /\ [Next]_vars => LiveInv' /\ SentStays
  <1> SUFFICES ASSUME Inv, LiveInv, [Next]_vars PROVE LiveInv' /\ SentStays
    OBVIOUS
  <1>1. ASSUME attempt' = attempt PROVE LiveInv' /\ SentStays
    BY <1>1 DEF LiveInv, SentStays
  <1>2. ASSUME NEW c \in Calls, CreateSMLAttempt(c) PROVE LiveInv' /\ SentStays
    <2>1. CASE MayCreate(c)
      <3> DEFINE b == call[c].bill
                 a == [state |-> "sending", owner |-> c, live |-> TRUE, payload |-> call[c].content]
      <3>1. b \in Bills /\ attempt[b].state # "sent" /\ attempt' = [attempt EXCEPT ![b] = a]
        BY <1>2, <2>1 DEF CreateSMLAttempt, MayCreate, Inv, CallInv
      <3>2. a.state = "sending"
        OBVIOUS
      <3> HIDE DEF a
      <3> QED
        BY <3>1, <3>2, OneAttemptStep
    <2> QED
      BY <1>1, <1>2, <2>1 DEF CreateSMLAttempt
  <1>3. ASSUME NEW c \in Calls, ClaimExistingSMLAttempt(c) PROVE LiveInv' /\ SentStays
    <2>1. CASE MayClaim(c)
      <3> DEFINE b == call[c].bill
                 a == [attempt[b] EXCEPT !.state = "sending", !.owner = c, !.live = TRUE]
      <3>1. b \in Bills /\ attempt[b].state # "sent" /\ attempt' = [attempt EXCEPT ![b] = a]
        BY <1>3, <2>1 DEF ClaimExistingSMLAttempt, MayClaim, Inv, CallInv
      <3>2. a.state = "sending"
        BY <3>1 DEF Inv, TypeOK, AttemptType
      <3> HIDE DEF a
      <3> QED
        BY <3>1, <3>2, OneAttemptStep
    <2> QED
      BY <1>1, <1>3, <2>1 DEF ClaimExistingSMLAttempt
  <1>4. ASSUME NEW c \in Calls, Record(c) PROVE LiveInv' /\ SentStays
    <2> DEFINE b == call[c].bill
               a == [attempt[b] EXCEPT !.state = OutcomeOf(call[c].answer), !.owner = NoCall, !.live = FALSE]
    <2>1. b \in Bills /\ attempt[b].state # "sent" /\ attempt' = [attempt EXCEPT ![b] = a]
      BY <1>4 DEF Record, MayRecord, Holds, Inv, CallInv
    <2>2. a.live = FALSE
      BY <2>1 DEF Inv, TypeOK, AttemptType
    <2> HIDE DEF a
    <2> QED
      BY <2>1, <2>2, OneAttemptStep
  <1>5. ASSUME NEW b \in Bills, NEW live \in BOOLEAN, attempt[b].state = "sending",
               attempt' = [attempt EXCEPT ![b].live = live]
        PROVE  LiveInv' /\ SentStays
    <2> DEFINE a == [attempt[b] EXCEPT !.live = live]
    <2>1. a.state = "sending" /\ attempt' = [attempt EXCEPT ![b] = a]
      BY <1>5 DEF Inv, TypeOK, AttemptType
    <2> HIDE DEF a
    <2> QED
      BY <1>5, <2>1, OneAttemptStep
  <1>6. ASSUME NEW c \in Calls, Heartbeat(c) PROVE LiveInv' /\ SentStays
    <2>1. call[c].bill \in Bills
      BY <1>6 DEF Heartbeat, Inv, CallInv
    <2> QED
      BY <1>1, <1>5, <1>6, <2>1 DEF Heartbeat, Holds
  <1>7. ASSUME NEW b \in Bills, LeaseExpires(b) PROVE LiveInv' /\ SentStays
    BY <1>5, <1>7 DEF LeaseExpires, LiveInv
  <1>8. CASE OrderStep
    BY <1>1, <1>8 DEF OrderStep, CreateBill, EditBill, ApplyNameMapping, SetArchived, DeleteBill, Recreate,
       ReconcileMapping, CancelOrder, SettleRecalc
  <1>9. ASSUME NEW c \in Calls, (\E b \in Bills : Load(c, b)) \/ Crash(c) \/ SenderStep(c)
        PROVE  LiveInv' /\ SentStays
    BY <1>1, <1>2, <1>3, <1>4, <1>9 DEF Load, Crash, SenderStep, StartSend, Refuse, SendToReview,
       NoAnswer, GiveUp, CompleteSend, SyncSnapshot
  <1>10. CASE (\E r \in wire : SMLProcess(r)) \/ UNCHANGED vars
    BY <1>1, <1>10 DEF SMLProcess, vars
  <1> QED
    BY <1>6, <1>7, <1>8, <1>9, <1>10 DEF Next

\* A recorded send is final: no late sender, retry or lease changes it.
THEOREM SentForGood == Spec => SentIsFinal
  <1>1. Init => LiveInv
    BY DEF Init, LiveInv, NoAttempt
  <1>2. Inv /\ LiveInv /\ [Next]_vars => LiveInv' /\ [SentStays]_vars
    BY LiveNext
  <1> QED
    BY <1>1, <1>2, Invariance, PTL DEF Spec, SentIsFinal, SentStays

-----------------------------------------------------------------------------
(* Refinement of SendOnce.                                                 *)

Chosen == [b \in Bills |-> attempt[b].payload]
Stored == [b \in Bills |-> IF smlDoc[b] = ForeignDoc THEN NoDoc ELSE smlDoc[b]]
Acknowledged == {b \in Bills : attempt[b].state = "sent"}

\* A step that leaves SML alone and writes one attempt: the first payload is
\* chosen, the send is acknowledged, or nothing SendOnce sees happens.
LEMMA AttemptRefines ==
  ASSUME Inv, NEW b \in Bills, attempt[b].state # "sent", NEW a,
         attempt' = [attempt EXCEPT ![b] = a], smlDoc' = smlDoc,
         \/ attempt[b].state = "none" /\ a.payload \in Contents /\ a.state # "sent"
         \/ a.payload = attempt[b].payload /\ a.state # "sent"
         \/ a.payload = attempt[b].payload /\ smlDoc[b] = a.payload /\ a.payload \in Contents
  PROVE  Once!Next \/ UNCHANGED <<Chosen, Stored, Acknowledged>>
  <1>1. attempt'[b] = a /\ \A d \in Bills \ {b} : attempt'[d] = attempt[d]
    BY DEF Inv, TypeOK
  <1>2. Stored' = Stored
    BY DEF Stored
  <1>3. CASE attempt[b].state = "none" /\ a.payload \in Contents /\ a.state # "sent"
    <2>1. attempt[b].payload = NoDoc
      BY <1>3 DEF Inv, AttemptInv
    <2>2. Chosen' = [Chosen EXCEPT ![b] = a.payload] /\ Acknowledged' = Acknowledged
      <3>1. \A d \in Bills : attempt'[d].payload = IF d = b THEN a.payload ELSE attempt[d].payload
        BY <1>1
      <3>2. Chosen' = [Chosen EXCEPT ![b] = a.payload]
        BY <3>1 DEF Chosen
      <3>3. \A d \in Bills : attempt'[d].state = "sent" <=> attempt[d].state = "sent"
        BY <1>1, <1>3
      <3>4. Acknowledged' = Acknowledged
        BY <3>3 DEF Acknowledged
      <3> QED
        BY <3>2, <3>4
    <2>3. Once!Choose(b, a.payload)
      BY <1>2, <2>1, <2>2 DEF Once!Choose, Chosen, Stored, Acknowledged
    <2> QED
      BY <1>3, <2>3 DEF Once!Next
  <1>4. CASE a.payload = attempt[b].payload /\ a.state # "sent"
    BY <1>1, <1>2, <1>4 DEF Chosen, Acknowledged
  <1>5. CASE a.payload = attempt[b].payload /\ smlDoc[b] = a.payload /\ a.payload \in Contents /\ a.state = "sent"
    <2>1. Chosen' = Chosen
      BY <1>1, <1>5 DEF Chosen
    <2>2. Acknowledged' = Acknowledged \cup {b}
      BY <1>1, <1>5 DEF Acknowledged
    <2>3. Stored[b] # NoDoc
      BY <1>5, NullAssumption DEF Stored
    <2>4. Once!Acknowledge(b)
      BY <1>2, <2>1, <2>2, <2>3 DEF Once!Acknowledge, Chosen, Stored, Acknowledged
    <2> QED
      BY <2>4 DEF Once!Next
  <1> QED
    BY <1>3, <1>4, <1>5

\* Every step is one of SendOnce or one it does not see.
LEMMA NextRefines ==
  Inv /\ SenderInv /\ LiveInv /\ [Next]_vars => Once!Next \/ UNCHANGED <<Chosen, Stored, Acknowledged>>
  <1> SUFFICES ASSUME Inv, SenderInv, LiveInv, [Next]_vars
               PROVE  Once!Next \/ UNCHANGED <<Chosen, Stored, Acknowledged>>
    OBVIOUS
  <1> DEFINE Refines == Once!Next \/ UNCHANGED <<Chosen, Stored, Acknowledged>>
  <1>1. ASSUME attempt' = attempt, smlDoc' = smlDoc PROVE Refines
    BY <1>1 DEF Chosen, Stored, Acknowledged
  <1>2. ASSUME NEW c \in Calls, CreateSMLAttempt(c) PROVE Refines
    <2>1. CASE MayCreate(c)
      <3> DEFINE b == call[c].bill
                 a == [state |-> "sending", owner |-> c, live |-> TRUE, payload |-> call[c].content]
      <3>1. /\ b \in Bills /\ attempt[b].state = "none" /\ smlDoc' = smlDoc
            /\ attempt' = [attempt EXCEPT ![b] = a] /\ call[c].content \in Contents
        BY <1>2, <2>1 DEF CreateSMLAttempt, MayCreate, Inv, CallInv, TypeOK, CallType
      <3>2. a.payload \in Contents /\ a.state # "sent"
        BY <3>1
      <3> HIDE DEF a
      <3> QED
        BY <3>1, <3>2, AttemptRefines
    <2> QED
      BY <1>1, <1>2, <2>1 DEF CreateSMLAttempt
  <1>3. ASSUME NEW c \in Calls, ClaimExistingSMLAttempt(c) PROVE Refines
    <2>1. CASE MayClaim(c)
      <3> DEFINE b == call[c].bill
                 a == [attempt[b] EXCEPT !.state = "sending", !.owner = c, !.live = TRUE]
      <3>1. /\ b \in Bills /\ attempt[b].state # "sent" /\ smlDoc' = smlDoc
            /\ attempt' = [attempt EXCEPT ![b] = a]
        BY <1>3, <2>1 DEF ClaimExistingSMLAttempt, MayClaim, Inv, CallInv
      <3>2. a.payload = attempt[b].payload /\ a.state = "sending"
        BY <3>1 DEF Inv, TypeOK, AttemptType
      <3> HIDE DEF a
      <3> QED
        BY <3>1, <3>2, AttemptRefines
    <2> QED
      BY <1>1, <1>3, <2>1 DEF ClaimExistingSMLAttempt
  <1>4. ASSUME NEW c \in Calls, Record(c) PROVE Refines
    <2> DEFINE b == call[c].bill
               outcome == OutcomeOf(call[c].answer)
               a == [attempt[b] EXCEPT !.state = outcome, !.owner = NoCall, !.live = FALSE]
    <2>1. /\ b \in Bills /\ attempt[b].state = "sending" /\ smlDoc' = smlDoc
          /\ attempt' = [attempt EXCEPT ![b] = a] /\ CallInv(c) /\ call[c].pc = "answered"
          /\ call[c] \in CallType /\ attempt[b] \in AttemptType
      BY <1>4 DEF Record, MayRecord, Holds, Inv, TypeOK, CallInv
    <2>2. outcome = "sent" => smlDoc[b] = attempt[b].payload
      BY <2>1 DEF CallInv, OutcomeOf, CallType, Answers
    <2>3. a.payload = attempt[b].payload /\ a.state = outcome
      BY <2>1 DEF AttemptType
    <2>4. attempt[b].payload \in Contents
      BY <2>1 DEF Inv, AttemptInv, AttemptType
    <2> HIDE DEF a, outcome
    <2> QED
      BY <2>1, <2>2, <2>3, <2>4, AttemptRefines
  <1>5. ASSUME NEW b \in Bills, NEW live \in BOOLEAN, attempt[b].state = "sending", smlDoc' = smlDoc,
               attempt' = [attempt EXCEPT ![b].live = live]
        PROVE  Refines
    <2> DEFINE a == [attempt[b] EXCEPT !.live = live]
    <2>1. /\ a.state = "sending" /\ a.payload = attempt[b].payload
          /\ attempt' = [attempt EXCEPT ![b] = a]
      BY <1>5 DEF Inv, TypeOK, AttemptType
    <2> HIDE DEF a
    <2> QED
      BY <1>5, <2>1, AttemptRefines
  <1>6. ASSUME NEW c \in Calls, Heartbeat(c) PROVE Refines
    <2>1. call[c].bill \in Bills
      BY <1>6 DEF Heartbeat, Inv, CallInv
    <2> QED
      BY <1>1, <1>5, <1>6, <2>1 DEF Heartbeat, Holds
  <1>7. ASSUME NEW b \in Bills, LeaseExpires(b) PROVE Refines
    BY <1>5, <1>7 DEF LeaseExpires, LiveInv
  <1>8. CASE OrderStep
    BY <1>1, <1>8 DEF OrderStep, CreateBill, EditBill, ApplyNameMapping, SetArchived, DeleteBill, Recreate,
       ReconcileMapping, CancelOrder, SettleRecalc
  <1>9. ASSUME NEW c \in Calls, (\E b \in Bills : Load(c, b)) \/ Crash(c) \/ SenderStep(c)
        PROVE  Refines
    BY <1>1, <1>2, <1>3, <1>4, <1>9 DEF Load, Crash, SenderStep, StartSend, Refuse, SendToReview,
       NoAnswer, GiveUp, CompleteSend, SyncSnapshot
  <1>10. ASSUME NEW r \in wire, SMLProcess(r) PROVE Refines
    <2>1. /\ r.bill \in Bills /\ attempt' = attempt /\ r.payload \in Contents
          /\ r.payload = attempt[r.bill].payload
      BY <1>10 DEF SMLProcess, Inv, TypeOK, Request, WireInv
    <2>2. CASE smlDoc' = smlDoc
      BY <1>1, <2>1, <2>2
    <2>3. CASE smlDoc' = [smlDoc EXCEPT ![r.bill] = r.payload]
      <3>1. Chosen' = Chosen /\ Acknowledged' = Acknowledged
        BY <2>1 DEF Chosen, Acknowledged
      <3>2. Stored' = [Stored EXCEPT ![r.bill] = Chosen[r.bill]]
        BY <2>1, <2>3, NullAssumption DEF Stored, Chosen, Inv, TypeOK
      <3>3. Chosen[r.bill] # NoDoc
        BY <2>1, NullAssumption DEF Chosen
      <3>4. Once!Store(r.bill)
        BY <3>1, <3>2, <3>3 DEF Once!Store, Chosen, Stored, Acknowledged
      <3> QED
        BY <2>1, <3>4 DEF Once!Next
    <2> QED
      BY <1>10, <2>2, <2>3 DEF SMLProcess
  <1>11. CASE UNCHANGED vars
    BY <1>1, <1>11 DEF vars
  <1> QED
    BY <1>2, <1>3, <1>4, <1>6, <1>7, <1>8, <1>9, <1>10, <1>11 DEF Next

\* The sends of any number of calls, with their crashes, lost answers, stalls
\* and retries, implement SendOnce.
THEOREM SendOnceImplemented == Spec => SendsOnce
  <1>1. Init => Once!Init
    BY NullAssumption DEF Init, Once!Init, NoAttempt
  <1>2. Inv /\ SenderInv /\ LiveInv /\ [Next]_vars => [Once!Next]_<<Chosen, Stored, Acknowledged>>
    BY NextRefines
  <1>3. Init => LiveInv
    BY DEF Init, LiveInv, NoAttempt
  <1>4. Inv /\ LiveInv /\ [Next]_vars => LiveInv'
    BY LiveNext
  <1> QED
    BY <1>1, <1>2, <1>3, <1>4, Invariance, PTL
       DEF Spec, SendsOnce, Once!Spec, Chosen, Stored, Acknowledged

-----------------------------------------------------------------------------
(* The payload.  An edit moves the revision of a bill with its content, so *)
(* a snapshot whose revision is the bill's has the bill's content; a name  *)
(* mapping does not move the revision, which is why there must be none.    *)

SnapshotInv ==
  /\ \A b \in Bills : bill[b].rev = bill[b].content
  /\ \A c \in Calls : call[c].rev = call[c].content

\* A step that adds no attempt and leaves the content of attempted bills alone.
LEMMA ContentStep ==
  ASSUME PayloadIsCurrentContent,
         \A b \in Bills : attempt'[b].state # "none" =>
           /\ attempt[b].state # "none"
           /\ attempt'[b].payload = attempt[b].payload
           /\ bill'[b].content = bill[b].content
  PROVE  PayloadIsCurrentContent'
  BY DEF PayloadIsCurrentContent

\* A call that leaves the snapshot behind still has equal versions.
LEMMA LeftSnapshot ==
  ASSUME Inv, SnapshotInv, NEW c \in Calls, NEW pc, NEW result,
         call' = [call EXCEPT ![c] = Left(c, pc, result)]
  PROVE  \A d \in Calls : call'[d].rev = call'[d].content
  <1>1. Left(c, pc, result).rev = 1 /\ Left(c, pc, result).content = 1
    BY DEF Left, IdleCall
  <1> QED
    BY <1>1 DEF Inv, TypeOK, SnapshotInv

\* A call that only moves on keeps its snapshot.
LEMMA SameSnapshot ==
  ASSUME Inv, SnapshotInv, NEW c \in Calls, NEW new, call' = [call EXCEPT ![c] = new],
         new.rev = call[c].rev, new.content = call[c].content
  PROVE  \A d \in Calls : call'[d].rev = call'[d].content
  BY DEF Inv, TypeOK, SnapshotInv

\* Writing one bill's row with equal versions keeps them equal everywhere.
LEMMA OneBill ==
  ASSUME Inv, SnapshotInv, NEW b \in Bills, NEW new, bill' = [bill EXCEPT ![b] = new],
         new.rev = new.content
  PROVE  \A d \in Bills : bill'[d].rev = bill'[d].content
  BY DEF Inv, TypeOK, SnapshotInv

\* The steps on the order keep the snapshots and the frozen payloads current.
LEMMA OrderContent ==
  ASSUME Inv, SnapshotInv, PayloadIsCurrentContent, ~NameMapped, OrderStep
  PROVE  SnapshotInv' /\ PayloadIsCurrentContent'
  <1>1. attempt' = attempt /\ call' = call
    BY DEF OrderStep, CreateBill, EditBill, ApplyNameMapping, SetArchived, DeleteBill, Recreate,
       ReconcileMapping, CancelOrder, SettleRecalc
  <1>2. SUFFICES ASSUME bill' # bill PROVE SnapshotInv' /\ PayloadIsCurrentContent'
    BY <1>1 DEF SnapshotInv, PayloadIsCurrentContent
  <1>3. ASSUME NEW b \in Bills, NEW new, bill' = [bill EXCEPT ![b] = new], new.rev = new.content,
               attempt[b].state = "none" \/ new.content = bill[b].content
        PROVE  SnapshotInv' /\ PayloadIsCurrentContent'
    <2>1. SnapshotInv'
      BY <1>1, <1>3, OneBill DEF SnapshotInv
    <2>2. \A d \in Bills : attempt[d].state # "none" => bill'[d].content = bill[d].content
      BY <1>3 DEF Inv, TypeOK
    <2> QED
      BY <1>1, <2>1, <2>2, ContentStep
  <1>4. ASSUME NEW b \in Bills, NEW status, NEW state, CreateBill(b, status, state)
        PROVE  SnapshotInv' /\ PayloadIsCurrentContent'
    <2> DEFINE new == [bill[b] EXCEPT !.status = status]
    <2>1. bill' = [bill EXCEPT ![b] = new] /\ new.rev = new.content /\ new.content = bill[b].content
      BY <1>4 DEF CreateBill, Inv, TypeOK, BillType, SnapshotInv
    <2> HIDE DEF new
    <2> QED
      BY <1>3, <2>1
  <1>5. ASSUME NEW b \in Bills, NEW status, NEW docNo, EditBill(b, status, docNo)
        PROVE  SnapshotInv' /\ PayloadIsCurrentContent'
    <2> DEFINE new == [bill[b] EXCEPT !.rev = bill[b].rev + 1, !.content = bill[b].content + 1,
                                      !.status = status, !.docNo = docNo]
    <2>1. bill' = [bill EXCEPT ![b] = new] /\ attempt[b].state = "none"
      BY <1>5 DEF EditBill, Unattempted
    <2>2. bill[b] \in BillType /\ bill[b].rev = bill[b].content
      BY DEF Inv, TypeOK, SnapshotInv
    <2>3. new.rev = new.content
      BY <2>2 DEF BillType
    <2> HIDE DEF new
    <2> QED
      BY <1>3, <2>1, <2>3
  <1>6. ASSUME NEW b \in Bills, NEW archived, bill' = [bill EXCEPT ![b].archived = archived]
        PROVE  SnapshotInv' /\ PayloadIsCurrentContent'
    <2> DEFINE new == [bill[b] EXCEPT !.archived = archived]
    <2>1. bill' = [bill EXCEPT ![b] = new] /\ new.rev = new.content /\ new.content = bill[b].content
      BY <1>6 DEF Inv, TypeOK, BillType, SnapshotInv
    <2> HIDE DEF new
    <2> QED
      BY <1>3, <2>1
  <1>7. ASSUME NEW b \in Bills, DeleteBill(b) PROVE SnapshotInv' /\ PayloadIsCurrentContent'
    <2> DEFINE new == [AbsentBill EXCEPT !.status = "deleted"]
    <2>1. bill' = [bill EXCEPT ![b] = new] /\ new.rev = new.content /\ attempt[b].state = "none"
      BY <1>7 DEF DeleteBill, AbsentBill
    <2> HIDE DEF new
    <2> QED
      BY <1>3, <2>1
  <1> QED
    BY <1>2, <1>4, <1>5, <1>6, <1>7
    DEF OrderStep, ApplyNameMapping, SetArchived, Recreate, ReconcileMapping, CancelOrder, SettleRecalc

\* Writing one attempt that exists, with its payload, keeps payloads current.
LEMMA OneAttemptContent ==
  ASSUME Inv, PayloadIsCurrentContent, NEW b \in Bills, attempt[b].state # "none", NEW a,
         attempt' = [attempt EXCEPT ![b] = a], a.payload = attempt[b].payload,
         \A d \in Bills : bill'[d].content = bill[d].content
  PROVE  PayloadIsCurrentContent'
  BY DEF Inv, TypeOK, PayloadIsCurrentContent

\* A call that only loads, moves on, returns or dies keeps everything current.
LEMMA QuietContent ==
  ASSUME Inv, SnapshotInv, PayloadIsCurrentContent, NEW c \in Calls,
         \/ \E b \in Bills : Load(c, b)
         \/ StartSend(c) \/ Refuse(c) \/ SendToReview(c) \/ NoAnswer(c)
         \/ GiveUp(c) \/ CompleteSend(c) \/ SyncSnapshot(c) \/ Crash(c)
  PROVE  SnapshotInv' /\ PayloadIsCurrentContent'
  <1> DEFINE Snapshots == \A d \in Calls : call'[d].rev = call'[d].content
  <1>1. call[c] \in CallType /\ call[c].rev = call[c].content
    BY DEF Inv, TypeOK, SnapshotInv
  <1>2. ASSUME NEW pc, call' = [call EXCEPT ![c].pc = pc] PROVE Snapshots
    <2> DEFINE new == [call[c] EXCEPT !.pc = pc]
    <2>1. call' = [call EXCEPT ![c] = new] /\ new.rev = call[c].rev /\ new.content = call[c].content
      BY <1>1, <1>2 DEF CallType
    <2> HIDE DEF new
    <2> QED
      BY <2>1, SameSnapshot
  <1>3. ASSUME NEW b \in Bills, Load(c, b) PROVE Snapshots
    <2>1. bill[b].rev = bill[b].content
      BY DEF SnapshotInv
    <2>2. call'[c].rev = bill[b].rev /\ call'[c].content = bill[b].content
      BY <1>1, <1>3 DEF Load, Inv, TypeOK, CallType
    <2>3. \A d \in Calls \ {c} : call'[d] = call[d]
      BY <1>3 DEF Load, Inv, TypeOK
    <2> QED
      BY <2>1, <2>2, <2>3 DEF SnapshotInv
  <1>4. CASE NoAnswer(c)
    <2> DEFINE new == [call[c] EXCEPT !.pc = "answered", !.answer = "transient"]
    <2>1. call' = [call EXCEPT ![c] = new] /\ new.rev = call[c].rev /\ new.content = call[c].content
      BY <1>1, <1>4 DEF NoAnswer, CallType
    <2> HIDE DEF new
    <2>2. Snapshots
      BY <2>1, SameSnapshot
    <2> QED
      BY <1>4, <2>2 DEF NoAnswer, SnapshotInv, PayloadIsCurrentContent
  <1>5. CASE StartSend(c) \/ Refuse(c) \/ SendToReview(c) \/ GiveUp(c) \/ CompleteSend(c)
             \/ SyncSnapshot(c) \/ Crash(c)
    <2>1. Snapshots
      BY <1>2, <1>5, LeftSnapshot
      DEF StartSend, Refuse, SendToReview, GiveUp, CompleteSend, SyncSnapshot, Crash, Returning
    <2>2. attempt' = attempt
      BY <1>5 DEF StartSend, Refuse, SendToReview, GiveUp, CompleteSend, SyncSnapshot, Crash
    <2>3. CASE bill' = bill
      BY <2>1, <2>2, <2>3 DEF SnapshotInv, PayloadIsCurrentContent
    <2>4. CASE SendToReview(c) /\ bill' # bill
      <3> DEFINE b == call[c].bill
                 new == [bill[b] EXCEPT !.status = "needs_review", !.docNo = FALSE]
      <3>1. b \in Bills /\ bill' = [bill EXCEPT ![b] = new]
        BY <2>4 DEF SendToReview, Inv, CallInv
      <3>2. new.rev = bill[b].rev /\ new.content = bill[b].content /\ bill[b].rev = bill[b].content
        BY <3>1 DEF Inv, TypeOK, BillType, SnapshotInv
      <3> HIDE DEF new
      <3>3. \A d \in Bills : bill'[d].content = bill[d].content
        BY <3>1, <3>2 DEF Inv, TypeOK
      <3>4. \A d \in Bills : bill'[d].rev = bill'[d].content
        BY <3>1, <3>2, OneBill
      <3> QED
        BY <2>1, <2>2, <3>3, <3>4 DEF SnapshotInv, PayloadIsCurrentContent
    <2> QED
      BY <1>5, <2>3, <2>4 DEF StartSend, Refuse, GiveUp, CompleteSend, SyncSnapshot, Crash
  <1> QED
    BY <1>3, <1>4, <1>5 DEF Load, SnapshotInv, PayloadIsCurrentContent

\* Freezing, replaying and recording a payload keep everything current.
LEMMA SendContent ==
  ASSUME Inv, SnapshotInv, PayloadIsCurrentContent, NEW c \in Calls,
         CreateSMLAttempt(c) \/ ClaimExistingSMLAttempt(c) \/ Record(c)
  PROVE  SnapshotInv' /\ PayloadIsCurrentContent'
  <1> DEFINE Snapshots == \A d \in Calls : call'[d].rev = call'[d].content
             b == call[c].bill
  <1>1. /\ b \in Bills /\ call[c] \in CallType /\ call[c].rev = call[c].content
        /\ bill[b] \in BillType /\ bill[b].rev = bill[b].content /\ attempt[b] \in AttemptType
    BY DEF CreateSMLAttempt, ClaimExistingSMLAttempt, Record, Inv, TypeOK, CallInv, SnapshotInv
  <1>2. Snapshots
    <2>1. ASSUME NEW payload, Transmit(c, payload) PROVE Snapshots
      <3> DEFINE new == [call[c] EXCEPT !.pc = "waiting"]
      <3>1. call' = [call EXCEPT ![c] = new] /\ new.rev = call[c].rev /\ new.content = call[c].content
        BY <1>1, <2>1 DEF Transmit, CallType
      <3> HIDE DEF new
      <3> QED
        BY <3>1, SameSnapshot
    <2>2. ASSUME NEW result, Returning(c, result) PROVE Snapshots
      BY <2>2, LeftSnapshot DEF Returning
    <2> QED
      BY <2>1, <2>2 DEF CreateSMLAttempt, ClaimExistingSMLAttempt, Record
  <1>3. ASSUME NEW new, bill' = [bill EXCEPT ![b] = new], new.rev = bill[b].rev,
               new.content = bill[b].content
        PROVE  /\ \A d \in Bills : bill'[d].rev = bill'[d].content
               /\ \A d \in Bills : bill'[d].content = bill[d].content
    BY <1>1, <1>3 DEF Inv, TypeOK, SnapshotInv
  <1>4. CASE CreateSMLAttempt(c) /\ MayCreate(c)
    <2> DEFINE new == [bill[b] EXCEPT !.docNo = TRUE]
    <2>1. bill' = [bill EXCEPT ![b] = new] /\ new.rev = bill[b].rev /\ new.content = bill[b].content
      BY <1>1, <1>4 DEF CreateSMLAttempt, BillType
    <2>2. call[c].content = bill[b].content
      BY <1>1, <1>4 DEF MayCreate
    <2>3. attempt'[b].payload = call[c].content /\ \A d \in Bills \ {b} : attempt'[d] = attempt[d]
      BY <1>1, <1>4 DEF CreateSMLAttempt, Inv, TypeOK
    <2> HIDE DEF new
    <2>4. /\ \A d \in Bills : bill'[d].rev = bill'[d].content
          /\ \A d \in Bills : bill'[d].content = bill[d].content
      BY <1>3, <2>1
    <2> QED
      BY <1>1, <1>2, <2>2, <2>3, <2>4 DEF SnapshotInv, PayloadIsCurrentContent
  <1>5. CASE ClaimExistingSMLAttempt(c) /\ MayClaim(c)
    <2> DEFINE a == [attempt[b] EXCEPT !.state = "sending", !.owner = c, !.live = TRUE]
    <2>1. attempt' = [attempt EXCEPT ![b] = a] /\ a.payload = attempt[b].payload /\ bill' = bill
      BY <1>1, <1>5 DEF ClaimExistingSMLAttempt, AttemptType
    <2>2. attempt[b].state # "none"
      BY <1>5 DEF ClaimExistingSMLAttempt, Inv, CallInv
    <2> HIDE DEF a
    <2>3. PayloadIsCurrentContent'
      BY <1>1, <2>1, <2>2, OneAttemptContent
    <2> QED
      BY <1>2, <2>1, <2>3 DEF SnapshotInv
  <1>6. CASE Record(c)
    <2> DEFINE a == [attempt[b] EXCEPT !.state = OutcomeOf(call[c].answer), !.owner = NoCall, !.live = FALSE]
    <2>1. attempt' = [attempt EXCEPT ![b] = a] /\ a.payload = attempt[b].payload
      BY <1>1, <1>6 DEF Record, AttemptType
    <2>2. attempt[b].state # "none"
      BY <1>6 DEF Record, MayRecord, Holds
    <2>3. PICK status : bill' = [bill EXCEPT ![b] = [@ EXCEPT !.status = status, !.docNo = TRUE]]
      BY <1>6 DEF Record
    <2> DEFINE new == [bill[b] EXCEPT !.status = status, !.docNo = TRUE]
    <2>4. bill' = [bill EXCEPT ![b] = new] /\ new.rev = bill[b].rev /\ new.content = bill[b].content
      BY <1>1, <2>3 DEF BillType
    <2> HIDE DEF a, new
    <2>5. /\ \A d \in Bills : bill'[d].rev = bill'[d].content
          /\ \A d \in Bills : bill'[d].content = bill[d].content
      BY <1>3, <2>4
    <2>6. PayloadIsCurrentContent'
      BY <1>1, <2>1, <2>2, <2>5, OneAttemptContent
    <2> QED
      BY <1>2, <2>5, <2>6 DEF SnapshotInv
  <1> QED
    BY <1>2, <1>4, <1>5, <1>6
    DEF CreateSMLAttempt, ClaimExistingSMLAttempt, SnapshotInv, PayloadIsCurrentContent

\* So does every step, when no name mapping rewrites open bills.
LEMMA ContentNext ==
  ASSUME ~NameMapped
  PROVE  Inv /\ LiveInv /\ SnapshotInv /\ PayloadIsCurrentContent /\ [Next]_vars
           => SnapshotInv' /\ PayloadIsCurrentContent'
  <1> SUFFICES ASSUME Inv, LiveInv, SnapshotInv, PayloadIsCurrentContent, [Next]_vars
               PROVE  SnapshotInv' /\ PayloadIsCurrentContent'
    OBVIOUS
  <1> DEFINE Current == SnapshotInv' /\ PayloadIsCurrentContent'
  <1>1. CASE OrderStep
    BY <1>1, OrderContent
  <1>2. ASSUME NEW c \in Calls, (\E b \in Bills : Load(c, b)) \/ Crash(c) \/ SenderStep(c)
        PROVE  Current
    BY <1>2, QuietContent, SendContent DEF SenderStep
  <1>3. ASSUME NEW b \in Bills, NEW live, attempt[b].state = "sending", UNCHANGED <<bill, call>>,
               attempt' = [attempt EXCEPT ![b].live = live]
        PROVE  Current
    <2> DEFINE a == [attempt[b] EXCEPT !.live = live]
    <2>1. attempt' = [attempt EXCEPT ![b] = a] /\ a.payload = attempt[b].payload
      BY <1>3 DEF Inv, TypeOK, AttemptType
    <2> HIDE DEF a
    <2>2. PayloadIsCurrentContent'
      BY <1>3, <2>1, OneAttemptContent
    <2> QED
      BY <1>3, <2>2 DEF SnapshotInv
  <1>4. ASSUME NEW c \in Calls, Heartbeat(c) PROVE Current
    <2>1. CASE UNCHANGED attempt
      <3> DEFINE new == [call[c] EXCEPT !.leaseLost = TRUE]
      <3>1. bill' = bill /\ (call' = call \/ call' = [call EXCEPT ![c] = new])
        BY <1>4 DEF Heartbeat
      <3>2. new.rev = call[c].rev /\ new.content = call[c].content
        BY DEF Inv, TypeOK, CallType
      <3> HIDE DEF new
      <3>3. \A d \in Calls : call'[d].rev = call'[d].content
        BY <3>1, <3>2, SameSnapshot DEF SnapshotInv
      <3> QED
        BY <2>1, <3>1, <3>3 DEF SnapshotInv, PayloadIsCurrentContent
    <2>2. CASE attempt' # attempt
      <3>1. call[c].bill \in Bills
        BY <1>4 DEF Heartbeat, Inv, CallInv
      <3> QED
        BY <1>3, <1>4, <2>2, <3>1 DEF Heartbeat, Holds
    <2> QED
      BY <2>1, <2>2
  <1>5. ASSUME NEW r \in wire, SMLProcess(r) PROVE Current
    <2>1. PICK verdict \in Verdicts(r), delivered \in BOOLEAN :
            call' = IF delivered /\ call[r.call].pc = "waiting"
                    THEN [call EXCEPT ![r.call] = [@ EXCEPT !.pc = "answered", !.answer = verdict]]
                    ELSE call
      BY <1>5 DEF SMLProcess
    <2> DEFINE new == [call[r.call] EXCEPT !.pc = "answered", !.answer = verdict]
    <2>2. r.call \in Calls
      BY DEF Inv, TypeOK, Request
    <2>3. new.rev = call[r.call].rev /\ new.content = call[r.call].content
      BY <2>2 DEF Inv, TypeOK, CallType
    <2>4. call' = call \/ call' = [call EXCEPT ![r.call] = new]
      BY <2>1
    <2> HIDE DEF new
    <2>5. \A d \in Calls : call'[d].rev = call'[d].content
      BY <2>2, <2>3, <2>4, SameSnapshot DEF SnapshotInv
    <2> QED
      BY <1>5, <2>5 DEF SMLProcess, SnapshotInv, PayloadIsCurrentContent
  <1>6. ASSUME NEW b \in Bills, LeaseExpires(b) PROVE Current
    BY <1>3, <1>6 DEF LeaseExpires, LiveInv
  <1>7. CASE UNCHANGED vars
    BY <1>7 DEF vars, SnapshotInv, PayloadIsCurrentContent
  <1> QED
    BY <1>1, <1>2, <1>4, <1>5, <1>6, <1>7 DEF Next

\* The lease invariant holds in every reachable state.
LEMMA LiveInvariance == Spec => []LiveInv
  <1>1. Init => LiveInv
    BY DEF Init, LiveInv, NoAttempt
  <1>2. Inv /\ LiveInv /\ [Next]_vars => LiveInv'
    BY LiveNext
  <1> QED
    BY <1>1, <1>2, Invariance, PTL DEF Spec

\* Without name mappings CreateSMLAttempt never freezes content that an edit
\* has overtaken, and no edit overtakes what it froze: the check of the
\* revision under the row lock is enough, whatever the snapshot's age.
THEOREM PayloadStaysCurrent ==
  ASSUME ~NameMapped
  PROVE  Spec => []PayloadIsCurrentContent
  <1>1. Init => SnapshotInv /\ PayloadIsCurrentContent
    BY DEF Init, SnapshotInv, PayloadIsCurrentContent, AbsentBill, IdleCall, NoAttempt
  <1>2. Inv /\ LiveInv /\ SnapshotInv /\ PayloadIsCurrentContent /\ [Next]_vars
          => SnapshotInv' /\ PayloadIsCurrentContent'
    BY ContentNext
  <1> QED
    BY <1>1, <1>2, Invariance, LiveInvariance, PTL DEF Spec

-----------------------------------------------------------------------------
(* Who reports a send, and what becomes of its demand and its erp_send row. *)

(* A call that reports a send as its own has recorded it, and is the only  *)
(* one to have recorded that bill; a call that has not started reports     *)
(* nothing.                                                                *)
CreditInv ==
  /\ \A c \in Calls : call[c].pc = "idle" => call[c].result = "none"
  /\ \A c \in Calls : call[c].result = "sent" =>
       call[c].bill \in Bills /\ attempt[call[c].bill].state = "sent"
  /\ \A c, d \in Calls :
       call[c].result = "sent" /\ call[d].result = "sent" /\ call[c].bill = call[d].bill => c = d

SomeSent == \E b \in Bills : attempt[b].state = "sent"

(* A call says that the order was sent only when one of its bills was.     *)
ReportInv ==
  /\ \A c \in Calls : call[c].result \in {"sent", "already_sent"} => SomeSent
  /\ DoneMeansSent

(* What a step can make of a call's report.                                *)
KeepsReport(c) ==
  /\ call'[c].result = call[c].result
  /\ call'[c].bill = call[c].bill \/ call[c].pc = "idle"
  /\ call'[c].pc = "idle" => call[c].pc = "idle"

ReportsNothing(c) == call'[c].result = "not_sent" /\ call'[c].pc # "idle"

ReportsEarlierSend(c) ==
  /\ call'[c].result = "already_sent" /\ call'[c].pc # "idle"
  /\ SomeSent \/ erpSend.status = "done"

ReportsOwnSend(c) ==
  /\ call'[c].result = "sent" /\ call'[c].pc # "idle"
  /\ call'[c].bill = call[c].bill /\ call[c].bill \in Bills
  /\ attempt[call[c].bill].state # "sent" /\ attempt'[call[c].bill].state = "sent"
  /\ \A d \in Calls \ {c} : call'[d] = call[d]

Reports ==
  \A c \in Calls : KeepsReport(c) \/ ReportsNothing(c) \/ ReportsEarlierSend(c) \/ ReportsOwnSend(c)

\* A step of one call says what that call comes to report.
LEMMA OneReport ==
  ASSUME Inv, NEW c \in Calls, NEW new, call' = [call EXCEPT ![c] = new],
         KeepsReport(c) \/ ReportsNothing(c) \/ ReportsEarlierSend(c) \/ ReportsOwnSend(c)
  PROVE  Reports
  BY DEF Inv, TypeOK, Reports, KeepsReport

\* A call that moves on keeps its report.
LEMMA SameReport ==
  ASSUME Inv, NEW c \in Calls, NEW new, call' = [call EXCEPT ![c] = new],
         new.result = call[c].result, new.bill = call[c].bill, new.pc # "idle"
  PROVE  Reports
  <1>1. KeepsReport(c)
    BY DEF Inv, TypeOK, KeepsReport
  <1> QED
    BY <1>1, OneReport

\* A call that leaves its snapshot behind reports the result it is given.
LEMMA LeftReport ==
  ASSUME Inv, NEW c \in Calls, NEW pc \in {"returning", "syncing", "done", "crashed"}, NEW result,
         call' = [call EXCEPT ![c] = Left(c, pc, result)]
  PROVE  call'[c].result = result /\ call'[c].pc # "idle" /\ call'[c].bill = call[c].bill
  <1>1. /\ Left(c, pc, result).result = result /\ Left(c, pc, result).pc = pc
        /\ Left(c, pc, result).bill = call[c].bill
    BY DEF Left, IdleCall
  <1> QED
    BY <1>1 DEF Inv, TypeOK

\* So does one that is about to return.
LEMMA ReturningReport ==
  ASSUME Inv, NEW c \in Calls, NEW result, Returning(c, result)
  PROVE  call'[c].result = result /\ call'[c].pc # "idle" /\ call'[c].bill = call[c].bill
  <1>1. CASE call' = [call EXCEPT ![c] = Left(c, "returning", result)]
    BY <1>1, LeftReport
  <1>2. CASE call' = [call EXCEPT ![c] = Left(c, "done", result)]
    BY <1>2, LeftReport
  <1> QED
    BY <1>1, <1>2 DEF Returning

\* No step lets a call claim a send that is not recorded, or one that another
\* call has recorded.
LEMMA NextReports ==
  ASSUME Inv, [Next]_vars
  PROVE  Reports
  <1>1. ASSUME call' = call PROVE Reports
    BY <1>1 DEF Reports, KeepsReport
  <1>2. ASSUME NEW c \in Calls, NEW pc, pc # "idle", call' = [call EXCEPT ![c].pc = pc]
        PROVE  Reports
    <2> DEFINE new == [call[c] EXCEPT !.pc = pc]
    <2>1. /\ call' = [call EXCEPT ![c] = new] /\ new.pc # "idle"
          /\ new.result = call[c].result /\ new.bill = call[c].bill
      BY <1>2 DEF Inv, TypeOK, CallType
    <2> HIDE DEF new
    <2> QED
      BY <2>1, SameReport
  <1>3. ASSUME NEW c \in Calls, Returning(c, "not_sent") PROVE Reports
    <2>1. ReportsNothing(c)
      BY <1>3, ReturningReport DEF ReportsNothing
    <2> QED
      BY <1>3, <2>1, OneReport DEF Returning
  <1>4. ASSUME NEW c \in Calls, Returning(c, "already_sent"), SomeSent PROVE Reports
    <2>1. ReportsEarlierSend(c)
      BY <1>4, ReturningReport DEF ReportsEarlierSend
    <2> QED
      BY <1>4, <2>1, OneReport DEF Returning
  <1>5. ASSUME NEW c \in Calls, NEW b \in Bills, Load(c, b) PROVE Reports
    <2>1. KeepsReport(c)
      BY <1>5 DEF Load, KeepsReport, Inv, TypeOK, CallType
    <2> QED
      BY <1>5, <2>1, OneReport DEF Load
  <1>6. ASSUME NEW c \in Calls, StartSend(c) PROVE Reports
    <2>1. CASE call' = [call EXCEPT ![c].pc = "ready"]
      BY <1>2, <2>1
    <2>2. CASE call' = [call EXCEPT ![c] = Left(c, "syncing", "already_sent")] /\ erpSend.status = "done"
      <3>1. ReportsEarlierSend(c)
        BY <2>2, LeftReport DEF ReportsEarlierSend
      <3> QED
        BY <2>2, <3>1, OneReport
    <2>3. CASE call' = [call EXCEPT ![c] = Left(c, "done", "not_sent")]
      <3>1. ReportsNothing(c)
        BY <2>3, LeftReport DEF ReportsNothing
      <3> QED
        BY <2>3, <3>1, OneReport
    <2> QED
      BY <1>6, <2>1, <2>2, <2>3 DEF StartSend
  <1>7. ASSUME NEW c \in Calls, CreateSMLAttempt(c) PROVE Reports
    BY <1>2, <1>3, <1>7 DEF CreateSMLAttempt, Transmit
  <1>8. ASSUME NEW c \in Calls, ClaimExistingSMLAttempt(c) PROVE Reports
    <2>1. call[c].bill \in Bills
      BY <1>8 DEF ClaimExistingSMLAttempt, Inv, CallInv
    <2> QED
      BY <1>2, <1>3, <1>4, <1>8, <2>1 DEF ClaimExistingSMLAttempt, Transmit, SomeSent
  <1>9. ASSUME NEW c \in Calls, Record(c) PROVE Reports
    <2> DEFINE b == call[c].bill
    <2>1. /\ b \in Bills /\ attempt[b].state = "sending"
          /\ attempt'[b].state = OutcomeOf(call[c].answer)
      BY <1>9 DEF Record, MayRecord, Holds, Inv, TypeOK, CallInv, AttemptType
    <2>2. CASE OutcomeOf(call[c].answer) = "sent"
      <3>1. Returning(c, "sent")
        BY <1>9, <2>2 DEF Record
      <3>2. \A d \in Calls \ {c} : call'[d] = call[d]
        BY <3>1 DEF Returning, Inv, TypeOK
      <3>3. ReportsOwnSend(c)
        BY <2>1, <2>2, <3>1, <3>2, ReturningReport DEF ReportsOwnSend
      <3> QED
        BY <3>1, <3>3, OneReport DEF Returning
    <2> QED
      BY <1>3, <1>9, <2>2 DEF Record
  <1>10. ASSUME NEW c \in Calls, NoAnswer(c) PROVE Reports
    <2> DEFINE new == [call[c] EXCEPT !.pc = "answered", !.answer = "transient"]
    <2>1. /\ call' = [call EXCEPT ![c] = new] /\ new.pc # "idle"
          /\ new.result = call[c].result /\ new.bill = call[c].bill
      BY <1>10 DEF NoAnswer, Inv, TypeOK, CallType
    <2> HIDE DEF new
    <2> QED
      BY <2>1, SameReport
  <1>11. ASSUME NEW c \in Calls, Heartbeat(c) PROVE Reports
    <2> DEFINE new == [call[c] EXCEPT !.leaseLost = TRUE]
    <2>1. /\ call' = call \/ call' = [call EXCEPT ![c] = new]
          /\ new.result = call[c].result /\ new.bill = call[c].bill /\ new.pc # "idle"
      BY <1>11 DEF Heartbeat, Inv, TypeOK, CallType
    <2> HIDE DEF new
    <2> QED
      BY <1>1, <2>1, SameReport
  <1>12. ASSUME NEW c \in Calls, Crash(c) PROVE Reports
    <2>1. call' = [call EXCEPT ![c] = Left(c, "crashed", call[c].result)]
      BY <1>12 DEF Crash, Inv, TypeOK
    <2>2. KeepsReport(c)
      BY <2>1, LeftReport DEF KeepsReport
    <2> QED
      BY <2>1, <2>2, OneReport
  <1>13. ASSUME NEW r \in wire, SMLProcess(r) PROVE Reports
    <2>1. PICK verdict \in Verdicts(r), delivered \in BOOLEAN :
            call' = IF delivered /\ call[r.call].pc = "waiting"
                    THEN [call EXCEPT ![r.call] = [@ EXCEPT !.pc = "answered", !.answer = verdict]]
                    ELSE call
      BY <1>13 DEF SMLProcess
    <2> DEFINE new == [call[r.call] EXCEPT !.pc = "answered", !.answer = verdict]
    <2>2. r.call \in Calls
      BY DEF Inv, TypeOK, Request
    <2>3. /\ call' = call \/ call' = [call EXCEPT ![r.call] = new]
          /\ new.result = call[r.call].result /\ new.bill = call[r.call].bill /\ new.pc # "idle"
      BY <2>1, <2>2 DEF Inv, TypeOK, CallType
    <2> HIDE DEF new
    <2> QED
      BY <1>1, <2>2, <2>3, SameReport
  <1>14. ASSUME NEW c \in Calls, CompleteSend(c) \/ SyncSnapshot(c) PROVE Reports
    BY <1>2, <1>14 DEF CompleteSend, SyncSnapshot
  <1>15. CASE OrderStep \/ UNCHANGED vars \/ \E b \in Bills : LeaseExpires(b)
    BY <1>1, <1>15 DEF OrderStep, CreateBill, EditBill, ApplyNameMapping, SetArchived, DeleteBill,
       Recreate, ReconcileMapping, CancelOrder, SettleRecalc, vars, LeaseExpires
  <1>16. ASSUME NEW c \in Calls, SenderStep(c) PROVE Reports
    BY <1>3, <1>6, <1>7, <1>8, <1>9, <1>10, <1>14, <1>16
    DEF SenderStep, Refuse, SendToReview, GiveUp
  <1> QED
    BY <1>5, <1>11, <1>12, <1>13, <1>15, <1>16 DEF Next

\* A step keeps the credits: a recorded send stays recorded, and a new credit
\* is for a bill nobody had sent.
LEMMA CreditNext ==
  ASSUME Inv, CreditInv, SentStays, Reports
  PROVE  CreditInv'
  <1>1. ASSUME NEW c \in Calls, call'[c].pc = "idle" PROVE call'[c].result = "none"
    BY <1>1 DEF CreditInv, Reports, KeepsReport, ReportsNothing, ReportsEarlierSend, ReportsOwnSend
  <1>2. ASSUME NEW c \in Calls, call'[c].result = "sent"
        PROVE  \/ ReportsOwnSend(c)
               \/ call[c].result = "sent" /\ call'[c].bill = call[c].bill
    BY <1>2 DEF CreditInv, Reports, KeepsReport, ReportsNothing, ReportsEarlierSend
  <1>3. ASSUME NEW c \in Calls, call'[c].result = "sent"
        PROVE  call'[c].bill \in Bills /\ attempt'[call'[c].bill].state = "sent"
    BY <1>2, <1>3 DEF CreditInv, ReportsOwnSend, SentStays
  <1>4. ASSUME NEW c \in Calls, NEW d \in Calls, call'[c].result = "sent", call'[d].result = "sent",
               call'[c].bill = call'[d].bill
        PROVE  c = d
    <2>1. ASSUME NEW x \in Calls, NEW y \in Calls, ReportsOwnSend(x), call'[y].result = "sent",
                 call'[x].bill = call'[y].bill
          PROVE  x = y
      BY <2>1 DEF CreditInv, ReportsOwnSend
    <2>2. CASE /\ call[c].result = "sent" /\ call'[c].bill = call[c].bill
               /\ call[d].result = "sent" /\ call'[d].bill = call[d].bill
      BY <1>4, <2>2 DEF CreditInv
    <2>3. CASE ReportsOwnSend(c)
      BY <1>4, <2>1, <2>3
    <2>4. CASE ReportsOwnSend(d)
      BY <1>4, <2>1, <2>4
    <2> QED
      BY <1>2, <1>4, <2>2, <2>3, <2>4
  <1> QED
    BY <1>1, <1>3, <1>4 DEF CreditInv

\* The erp_send row becomes done only on the word of a call.
LEMMA DoneByReport ==
  ASSUME [Next]_vars, erpSend'.status = "done"
  PROVE  \/ erpSend.status = "done"
         \/ \E c \in Calls : call[c].result \in {"sent", "already_sent"}
  <1>1. CASE UNCHANGED erpSend
    BY <1>1
  <1>2. ASSUME NEW c \in Calls, StartSend(c) PROVE erpSend.status = "done"
    BY <1>2 DEF StartSend
  <1>3. ASSUME NEW c \in Calls, CompleteSend(c) PROVE call[c].result \in {"sent", "already_sent"}
    BY <1>3 DEF CompleteSend
  <1>4. CASE ~UNCHANGED erpSend
    BY <1>2, <1>3, <1>4
    DEF Next, OrderStep, CreateBill, EditBill, ApplyNameMapping, SetArchived, DeleteBill, Recreate,
        ReconcileMapping, CancelOrder, SettleRecalc, Load, SenderStep, Refuse, SendToReview,
        CreateSMLAttempt, ClaimExistingSMLAttempt, NoAnswer, Record, GiveUp, SyncSnapshot,
        Heartbeat, Crash, SMLProcess, LeaseExpires, vars
  <1> QED
    BY <1>1, <1>4

\* A step keeps the reports true: what is sent stays sent.
LEMMA ReportNext ==
  ASSUME ReportInv, SentStays, Reports, [Next]_vars
  PROVE  ReportInv'
  <1>1. SomeSent => SomeSent'
    BY DEF SomeSent, SentStays
  <1>2. erpSend.status = "done" => SomeSent
    BY DEF ReportInv, DoneMeansSent, SomeSent
  <1>3. ASSUME NEW c \in Calls, call'[c].result \in {"sent", "already_sent"} PROVE SomeSent'
    <2>1. CASE ReportsOwnSend(c)
      BY <2>1 DEF ReportsOwnSend, SomeSent
    <2>2. CASE KeepsReport(c) \/ ReportsEarlierSend(c)
      BY <1>1, <1>2, <1>3, <2>2 DEF KeepsReport, ReportsEarlierSend, ReportInv
    <2> QED
      BY <1>3, <2>1, <2>2 DEF Reports, ReportsNothing
  <1>4. erpSend'.status = "done" => SomeSent'
    BY <1>1, <1>2, DoneByReport DEF ReportInv
  <1> QED
    BY <1>3, <1>4 DEF ReportInv, DoneMeansSent, SomeSent

\* Both hold in every reachable state.
LEMMA CreditInvariance == Spec => [](CreditInv /\ ReportInv)
  <1>1. Init => CreditInv /\ ReportInv
    BY DEF Init, CreditInv, ReportInv, DoneMeansSent, IdleCall
  <1>2. Inv /\ LiveInv /\ CreditInv /\ ReportInv /\ [Next]_vars => (CreditInv /\ ReportInv)'
    BY LiveNext, NextReports, CreditNext, ReportNext
  <1> QED
    BY <1>1, <1>2, Invariance, LiveInvariance, PTL DEF Spec

\* However many calls race to send a bill, lose their leases and crash, one at
\* most reports the send as its own.
THEOREM OneCredit == Spec => []OneCallRecordsTheSend
  <1>1. ASSUME CreditInv, NEW b \in Bills
        PROVE  Cardinality({c \in Calls : call[c].bill = b /\ call[c].result = "sent"}) <= 1
    <2> DEFINE S == {c \in Calls : call[c].bill = b /\ call[c].result = "sent"}
    <2>1. \A c, d \in S : c = d
      BY <1>1 DEF CreditInv
    <2> HIDE DEF S
    <2>2. ASSUME NEW c \in S PROVE Cardinality(S) <= 1
      <3>1. S = {c}
        BY <2>1, <2>2
      <3>2. Cardinality(S) = 1
        BY <3>1, FS_Singleton
      <3> QED
        BY <3>2
    <2>3. Cardinality(S) <= 1
      <3>1. Cardinality({}) = 0
        BY FS_EmptySet
      <3> QED
        BY <2>2, <3>1
    <2> QED
      BY <2>3 DEF S
  <1>2. CreditInv => OneCallRecordsTheSend
    BY <1>1 DEF OneCallRecordsTheSend
  <1> QED
    BY <1>2, CreditInvariance, PTL

\* The erp_send row of an order, written without a fence, is nevertheless done
\* only when one of the order's bills was sent: every later send it refuses
\* would have been a second one.
THEOREM DoneOnlyWhenSent == Spec => []DoneMeansSent
  <1>1. ReportInv => DoneMeansSent
    BY DEF ReportInv
  <1> QED
    BY <1>1, CreditInvariance, PTL

\* A step that leaves the reservation's bill and the jobs in place can only
\* disturb the invariant by making the demand wait.
LEMMA JobStays ==
  ASSUME Inv, AwaitingDemandHasJob, SentStays, recalc \subseteq recalc',
         reservation'.state = "awaiting_stock_recalc" =>
           reservation.state = "awaiting_stock_recalc" /\ reservation'.bill = reservation.bill
  PROVE  AwaitingDemandHasJob'
  BY DEF Inv, TypeOK, AwaitingDemandHasJob, SentStays

\* No step leaves demand waiting without a job.
LEMMA JobNext ==
  ASSUME Inv, AwaitingDemandHasJob, SentStays, [Next]_vars
  PROVE  AwaitingDemandHasJob'
  <1>0. /\ recalc \subseteq Bills
        /\ reservation \in [state : ReservationStates, bill : Bills \cup {NoBill}]
        /\ reservation.state = "awaiting_stock_recalc" => reservation.bill # NoBill
    BY NullAssumption DEF Inv, TypeOK, AwaitingDemandHasJob
  <1>1. ASSUME reservation' = reservation, recalc' = recalc PROVE AwaitingDemandHasJob'
    BY <1>1, JobStays
  <1>2. ASSUME NEW b \in Bills, NEW status, NEW state \in {"active", "blocked_mapping"},
               CreateBill(b, status, state)
        PROVE  AwaitingDemandHasJob'
    <2>1. /\ recalc' = recalc
          /\ reservation'.state = "awaiting_stock_recalc" => reservation.state = "awaiting_stock_recalc"
      BY <1>2 DEF CreateBill, ReservedAs
    <2>2. reservation.bill # NoBill => reservation'.bill = reservation.bill
      BY <1>2 DEF CreateBill
    <2> QED
      BY <1>0, <2>1, <2>2, JobStays
  <1>3. ASSUME NEW b \in Bills, DeleteBill(b) PROVE AwaitingDemandHasJob'
    <2>1. reservation.state = "awaiting_stock_recalc" => reservation.bill # b
      BY <1>3 DEF DeleteBill, AwaitingDemandHasJob
    <2>2. reservation'.state = reservation.state
          /\ (reservation.bill # b => reservation'.bill = reservation.bill)
      BY <1>0, <1>3 DEF DeleteBill
    <2> QED
      BY <1>3, <2>1, <2>2, JobStays DEF DeleteBill
  <1>4. ASSUME NEW state, state # "awaiting_stock_recalc", recalc' = recalc,
               reservation' = [reservation EXCEPT !.state = state]
        PROVE  AwaitingDemandHasJob'
    BY <1>0, <1>4, JobStays
  <1>5. CASE CancelOrder
    <2>1. Cancelled(reservation.state) # "awaiting_stock_recalc"
      BY <1>0 DEF Cancelled
    <2>2. reservation' = [reservation EXCEPT !.state = Cancelled(reservation.state)] /\ recalc' = recalc
      BY <1>5 DEF CancelOrder
    <2> QED
      BY <1>4, <2>1, <2>2
  <1>6. CASE OrderStep
    BY <1>1, <1>2, <1>3, <1>4, <1>5, <1>6
    DEF OrderStep, EditBill, ApplyNameMapping, SetArchived, Recreate, ReconcileMapping, SettleRecalc
  <1>7. ASSUME NEW c \in Calls, CreateSMLAttempt(c) PROVE AwaitingDemandHasJob'
    BY <1>1, <1>4, <1>7 DEF CreateSMLAttempt
  <1>8. ASSUME NEW c \in Calls, Record(c) PROVE AwaitingDemandHasJob'
    <2> DEFINE b == call[c].bill
               outcome == OutcomeOf(call[c].answer)
    <2>1. recalc' = IF outcome = "sent" THEN recalc \cup {b} ELSE recalc
      BY <1>8 DEF Record, JobsAfter
    <2>2. b \in Bills /\ attempt'[b].state = outcome
      BY <1>8 DEF Record, Inv, TypeOK, CallInv, AttemptType
    <2>3. CASE reservation.bill # b
      <3>1. reservation' = reservation
        BY <1>8, <2>3 DEF Record
      <3> HIDE DEF outcome
      <3> QED
        BY <2>1, <3>1, JobStays
    <2>4. CASE reservation.bill = b
      <3>1. reservation' = [reservation EXCEPT !.state = ReservationAfter(outcome, reservation.state)]
        BY <1>8, <2>4 DEF Record
      <3>2. /\ reservation'.bill = b
            /\ reservation'.state = ReservationAfter(outcome, reservation.state)
        BY <1>0, <2>4, <3>1
      <3>3. CASE outcome = "sent"
        BY <2>1, <2>2, <3>2, <3>3 DEF AwaitingDemandHasJob
      <3>4. CASE outcome # "sent"
        <4>1. reservation'.state = "awaiting_stock_recalc" =>
                reservation.state = "awaiting_stock_recalc"
          BY <3>2, <3>4 DEF ReservationAfter
        <4> HIDE DEF outcome
        <4> QED
          BY <2>1, <2>4, <3>2, <4>1, JobStays
      <3> QED
        BY <3>3, <3>4
    <2> QED
      BY <2>3, <2>4
  <1>9. ASSUME NEW c \in Calls,
               SenderStep(c) \/ Heartbeat(c) \/ Crash(c) \/ \E b \in Bills : Load(c, b)
        PROVE  AwaitingDemandHasJob'
    BY <1>1, <1>7, <1>8, <1>9
    DEF SenderStep, StartSend, Refuse, SendToReview, ClaimExistingSMLAttempt, NoAnswer, GiveUp,
        CompleteSend, SyncSnapshot, Heartbeat, Crash, Load
  <1>10. CASE (\E r \in wire : SMLProcess(r)) \/ (\E b \in Bills : LeaseExpires(b)) \/ UNCHANGED vars
    BY <1>1, <1>10 DEF SMLProcess, LeaseExpires, vars
  <1> QED
    BY <1>6, <1>9, <1>10 DEF Next

\* Stock held back for a recalculation has a job for a document that SML has
\* taken, whatever became of the bill, its order and its sender.
THEOREM AwaitingHasJob == Spec => []AwaitingDemandHasJob
  <1>1. Init => AwaitingDemandHasJob
    BY DEF Init, AwaitingDemandHasJob
  <1>2. Inv /\ LiveInv /\ AwaitingDemandHasJob /\ [Next]_vars => AwaitingDemandHasJob'
    BY LiveNext, JobNext
  <1> QED
    BY <1>1, <1>2, Invariance, LiveInvariance, PTL DEF Spec

-----------------------------------------------------------------------------
(* The course of the order's demand.  A bill that does not exist yet has   *)
(* no attempt, so that the demand of an order is never given to a bill     *)
(* that was sent before.                                                   *)

FreshInv == \A b \in Bills : bill[b].status = "absent" => attempt[b].state = "none"

\* A step that makes no bill absent and gives no attempt to an absent bill.
LEMMA FreshStep ==
  ASSUME FreshInv,
         \A b \in Bills :
           /\ bill'[b].status = "absent" => bill[b].status = "absent"
           /\ attempt[b].state = "none" => attempt'[b].state = "none" \/ bill[b].status # "absent"
  PROVE  FreshInv'
  BY DEF FreshInv

\* Only CreateSMLAttempt makes an attempt, for a bill that may be sent.
LEMMA FreshNext ==
  ASSUME Inv, LiveInv, FreshInv, [Next]_vars
  PROVE  FreshInv'
  <1>0. bill \in [Bills -> BillType] /\ attempt \in [Bills -> AttemptType]
    BY DEF Inv, TypeOK
  <1>1. ASSUME bill' = bill, attempt' = attempt PROVE FreshInv'
    BY <1>1 DEF FreshInv
  <1>2. ASSUME attempt' = attempt, NEW b \in Bills, NEW row, row.status # "absent",
               bill' = [bill EXCEPT ![b] = row]
        PROVE  FreshInv'
    <2>1. \A d \in Bills : bill'[d].status = "absent" => bill[d].status = "absent"
      BY <1>0, <1>2
    <2> QED
      BY <1>2, <2>1, FreshStep
  <1>3. CASE OrderStep
    <2>1. ASSUME NEW b \in Bills, NEW status \in {"pending", "needs_review"}, NEW state,
                 CreateBill(b, status, state)
          PROVE  FreshInv'
      <3> DEFINE row == [bill[b] EXCEPT !.status = status]
      <3>1. row.status # "absent" /\ bill' = [bill EXCEPT ![b] = row] /\ attempt' = attempt
        BY <1>0, <2>1 DEF CreateBill, BillType
      <3> HIDE DEF row
      <3> QED
        BY <1>2, <3>1
    <2>2. ASSUME NEW b \in Bills, NEW status \in Sendable, NEW docNo, EditBill(b, status, docNo)
          PROVE  FreshInv'
      <3> DEFINE row == [bill[b] EXCEPT !.rev = bill[b].rev + 1, !.content = bill[b].content + 1,
                                        !.status = status, !.docNo = docNo]
      <3>1. row.status # "absent" /\ bill' = [bill EXCEPT ![b] = row] /\ attempt' = attempt
        BY <1>0, <2>2 DEF EditBill, BillType, Sendable
      <3> HIDE DEF row
      <3> QED
        BY <1>2, <3>1
    <2>3. ASSUME NEW b \in Bills, ApplyNameMapping(b) PROVE FreshInv'
      <3>1. PICK promoted \in {bill[b].status, "pending"} :
              bill' = [bill EXCEPT ![b] = [@ EXCEPT !.content = bill[b].content + 1, !.status = promoted]]
        BY <2>3 DEF ApplyNameMapping
      <3> DEFINE row == [bill[b] EXCEPT !.content = bill[b].content + 1, !.status = promoted]
      <3>2. row.status # "absent" /\ bill' = [bill EXCEPT ![b] = row] /\ attempt' = attempt
        BY <1>0, <2>3, <3>1 DEF ApplyNameMapping, BillType
      <3> HIDE DEF row
      <3> QED
        BY <1>2, <3>2
    <2>4. ASSUME NEW b \in Bills, NEW archived \in BOOLEAN, bill[b].status # "absent", attempt' = attempt,
                 bill' = [bill EXCEPT ![b].archived = archived]
          PROVE  FreshInv'
      <3> DEFINE row == [bill[b] EXCEPT !.archived = archived]
      <3>1. row.status # "absent" /\ bill' = [bill EXCEPT ![b] = row]
        BY <1>0, <2>4 DEF BillType
      <3> HIDE DEF row
      <3> QED
        BY <1>2, <2>4, <3>1
    <2>5. ASSUME NEW b \in Bills, Recreate(b) PROVE FreshInv'
      <3>1. \A d \in Bills : bill'[d].status = bill[d].status
        BY <1>0, <2>5 DEF Recreate, BillType
      <3> QED
        BY <2>5, <3>1, FreshStep DEF Recreate
    <2>6. ASSUME NEW b \in Bills, DeleteBill(b) PROVE FreshInv'
      <3> DEFINE row == [AbsentBill EXCEPT !.status = "deleted"]
      <3>1. row.status # "absent" /\ bill' = [bill EXCEPT ![b] = row] /\ attempt' = attempt
        BY <2>6 DEF DeleteBill, AbsentBill
      <3> HIDE DEF row
      <3> QED
        BY <1>2, <3>1
    <2> QED
      BY <1>1, <1>3, <2>1, <2>2, <2>3, <2>4, <2>5, <2>6
      DEF OrderStep, SetArchived, ReconcileMapping, CancelOrder, SettleRecalc
  <1>4. ASSUME NEW c \in Calls, CreateSMLAttempt(c) PROVE FreshInv'
    <2> DEFINE b == call[c].bill
    <2>1. CASE MayCreate(c)
      <3>1. b \in Bills /\ bill[b].status # "absent"
        BY <1>4, <2>1 DEF CreateSMLAttempt, MayCreate, Inv, CallInv, Sendable
      <3>2. \A d \in Bills : bill'[d].status = bill[d].status /\ (d # b => attempt'[d] = attempt[d])
        BY <1>0, <1>4, <2>1 DEF CreateSMLAttempt, BillType
      <3> QED
        BY <3>1, <3>2, FreshStep
    <2> QED
      BY <1>1, <1>4, <2>1 DEF CreateSMLAttempt
  <1>5. ASSUME NEW c \in Calls, SendToReview(c) PROVE FreshInv'
    <2>1. \A d \in Bills : bill'[d].status = "absent" => bill[d].status = "absent"
      BY <1>0, <1>5 DEF SendToReview, BillType
    <2> QED
      BY <1>5, <2>1, FreshStep DEF SendToReview
  <1>6. ASSUME NEW b \in Bills, attempt[b].state # "none", bill' = bill,
               \A d \in Bills \ {b} : attempt'[d] = attempt[d]
        PROVE  FreshInv'
    BY <1>6, FreshStep
  <1>7. ASSUME NEW c \in Calls, ClaimExistingSMLAttempt(c) PROVE FreshInv'
    BY <1>0, <1>1, <1>6, <1>7 DEF ClaimExistingSMLAttempt, Inv, CallInv
  <1>8. ASSUME NEW c \in Calls, Record(c) PROVE FreshInv'
    <2> DEFINE b == call[c].bill
    <2>1. b \in Bills /\ attempt[b].state # "none"
      BY <1>8 DEF Record, MayRecord, Holds, Inv, CallInv
    <2>2. /\ \A d \in Bills : bill'[d].status = "absent" => bill[d].status = "absent"
          /\ \A d \in Bills \ {b} : attempt'[d] = attempt[d]
      BY <1>0, <1>8, <2>1 DEF Record, BillStatuses, BillType
    <2> QED
      BY <2>1, <2>2, FreshStep
  <1>9. ASSUME NEW c \in Calls, Heartbeat(c) PROVE FreshInv'
    BY <1>0, <1>1, <1>6, <1>9 DEF Heartbeat, Holds, Inv, CallInv
  <1>10. ASSUME NEW b \in Bills, LeaseExpires(b) PROVE FreshInv'
    BY <1>0, <1>6, <1>10 DEF LeaseExpires, LiveInv
  <1>11. ASSUME NEW c \in Calls, SenderStep(c) \/ Crash(c) \/ \E b \in Bills : Load(c, b)
         PROVE  FreshInv'
    BY <1>1, <1>4, <1>5, <1>7, <1>8, <1>11
    DEF SenderStep, StartSend, Refuse, NoAnswer, GiveUp, CompleteSend, SyncSnapshot, Crash, Load
  <1>12. CASE (\E r \in wire : SMLProcess(r)) \/ UNCHANGED vars
    BY <1>1, <1>12 DEF SMLProcess, vars
  <1> QED
    BY <1>3, <1>9, <1>10, <1>11, <1>12 DEF Next

(* The demand and the taken document as DemandLife sees them.              *)
BillSent == \E b \in Bills : reservation.bill = b /\ attempt[b].state = "sent"
Demands == [o \in {"order"} |-> Life(reservation.state)]
Taken == {o \in {"order"} : BillSent}

(* How the demand may move while its bill is sent before and after or not. *)
Course(from, to, before, after) ==
  \/ /\ before <=> after
     /\ \/ to = from
        \/ from = "none" /\ to = "open"
        \/ from = "open" /\ to = "released"
        \/ from \in {"open", "sending", "waiting"} /\ to = "operator"
        \/ ~before /\ {from, to} = {"open", "sending"}
        \/ before /\ from = "waiting" /\ to = "counted"
  \/ /\ ~before /\ after
     /\ \/ from \in {"open", "sending"} /\ to = "waiting"
        \/ from # "sending" /\ to = from

\* A step that moves the demand along its course is one of DemandLife, or one
\* it does not see.
LEMMA CourseRefines ==
  ASSUME NEW from, NEW to, NEW before \in BOOLEAN, NEW after \in BOOLEAN,
         from = Life(reservation.state), to = Life(reservation'.state),
         before <=> BillSent, after <=> BillSent',
         Course(from, to, before, after)
  PROVE  Demand!Next \/ UNCHANGED <<Demands, Taken>>
  <1>1. /\ Demands["order"] = from
        /\ Demands' = [Demands EXCEPT !["order"] = to]
        /\ to = from => Demands' = Demands
    BY DEF Demands
  <1>2. /\ before <=> "order" \in Taken
        /\ (before <=> after) => Taken' = Taken
        /\ after => Taken' = Taken \cup {"order"}
    BY DEF Taken
  <1>3. CASE before <=> after
    <2>1. CASE to = from
      BY <1>1, <1>2, <1>3, <2>1
    <2>2. CASE to # from
      <3>1. \/ Demand!Reserve("order") \/ Demand!Release("order") \/ Demand!Claim("order")
            \/ Demand!GiveBack("order") \/ Demand!Count("order") \/ Demand!HandOver("order")
        <4>1. \/ from = "none" /\ to = "open"
              \/ from = "open" /\ to = "released"
              \/ from \in {"open", "sending", "waiting"} /\ to = "operator"
              \/ "order" \notin Taken /\ from = "open" /\ to = "sending"
              \/ "order" \notin Taken /\ from = "sending" /\ to = "open"
              \/ "order" \in Taken /\ from = "waiting" /\ to = "counted"
          BY <1>2, <1>3, <2>2 DEF Course
        <4> QED
          BY <1>1, <1>2, <1>3, <4>1
          DEF Demand!Move, Demand!Reserve, Demand!Release, Demand!Claim, Demand!GiveBack,
              Demand!Count, Demand!HandOver, Demands, Taken, BillSent
      <3> QED
        BY <3>1 DEF Demand!Next
    <2> QED
      BY <2>1, <2>2
  <1>4. CASE ~before /\ after
    <2>1. \/ from \in {"open", "sending"} /\ to = "waiting"
          \/ from # "sending" /\ to = from
      BY <1>4 DEF Course
    <2>2. Demand!Take("order")
      BY <1>1, <1>2, <1>4, <2>1 DEF Demand!Take, Demand!Move, Demands, Taken, BillSent
    <2> QED
      BY <2>2 DEF Demand!Next
  <1> QED
    BY <1>3, <1>4 DEF Course

\* Every step moves the demand along its course.
LEMMA NextCourse ==
  ASSUME Inv, LiveInv, FreshInv, AwaitingDemandHasJob, [Next]_vars
  PROVE  Demand!Next \/ UNCHANGED <<Demands, Taken>>
  <1> DEFINE Refines == Demand!Next \/ UNCHANGED <<Demands, Taken>>
  <1>0. /\ reservation \in [state : ReservationStates, bill : Bills \cup {NoBill}]
        /\ attempt \in [Bills -> AttemptType]
        /\ recalc \subseteq Bills
        /\ NoBill \notin Bills
    BY NullAssumption DEF Inv, TypeOK
  <1>1. ASSUME NEW before \in BOOLEAN, NEW after \in BOOLEAN, before <=> BillSent, after <=> BillSent',
               Course(Life(reservation.state), Life(reservation'.state), before, after)
        PROVE  Refines
    BY <1>1, CourseRefines
  <1>2. ASSUME BillSent' <=> BillSent,
               \A sent \in BOOLEAN : (sent <=> BillSent) =>
                 Course(Life(reservation.state), Life(reservation'.state), sent, sent)
        PROVE  Refines
    <2>1. PICK sent \in BOOLEAN : sent <=> BillSent
      OBVIOUS
    <2> QED
      BY <1>1, <1>2, <2>1
  <1>3. ASSUME reservation'.bill = reservation.bill,
               \A b \in Bills : attempt'[b].state = "sent" <=> attempt[b].state = "sent"
        PROVE  BillSent' <=> BillSent
    BY <1>3 DEF BillSent
  <1>4. ASSUME reservation' = reservation,
               \A b \in Bills : attempt'[b].state = "sent" <=> attempt[b].state = "sent"
        PROVE  Refines
    BY <1>3, <1>4 DEF Demands, Taken
  <1>5. ASSUME NEW b \in Bills, NEW a, attempt' = [attempt EXCEPT ![b] = a], reservation' = reservation,
               a.state # "sent", attempt[b].state # "sent"
        PROVE  Refines
    BY <1>0, <1>4, <1>5
  <1>6. CASE OrderStep
    <2>0. attempt' = attempt
      BY <1>6 DEF OrderStep, CreateBill, EditBill, ApplyNameMapping, SetArchived, DeleteBill, Recreate,
         ReconcileMapping, CancelOrder, SettleRecalc
    <2>1. ASSUME NEW b \in Bills, NEW status, NEW state \in {"active", "blocked_mapping"},
                 CreateBill(b, status, state)
          PROVE  Refines
      <3>1. BillSent' <=> BillSent
        BY <1>0, <2>0, <2>1 DEF CreateBill, BillSent, FreshInv
      <3>2. PICK reserved \in ReservedAs(reservation.state, state) : reservation'.state = reserved
        BY <2>1 DEF CreateBill
      <3>3. \A sent \in BOOLEAN : Course(Life(reservation.state), Life(reserved), sent, sent)
        BY <1>0, <3>2 DEF ReservedAs, Course, Life, Unclaimed
      <3> QED
        BY <1>2, <3>1, <3>2, <3>3
    <2>2. ASSUME NEW b \in Bills, DeleteBill(b) PROVE Refines
      <3>1. BillSent' <=> BillSent
        BY <1>0, <2>0, <2>2 DEF DeleteBill, BillSent
      <3>2. reservation'.state = reservation.state
        BY <1>0, <2>2 DEF DeleteBill
      <3> QED
        BY <3>1, <3>2 DEF Demands, Taken
    <2>3. ASSUME NEW state, reservation' = [reservation EXCEPT !.state = state],
                 \A sent \in BOOLEAN : (sent <=> BillSent) =>
                   Course(Life(reservation.state), Life(state), sent, sent)
          PROVE  Refines
      <3>1. reservation'.state = state /\ reservation'.bill = reservation.bill
        BY <1>0, <2>3
      <3>2. BillSent' <=> BillSent
        BY <1>3, <2>0, <3>1
      <3> QED
        BY <1>2, <2>3, <3>1, <3>2
    <2>4. ASSUME NEW state \in {"active", "blocked_mapping"}, ReconcileMapping(state) PROVE Refines
      <3>1. \A sent \in BOOLEAN : Course(Life(reservation.state), Life(state), sent, sent)
        BY <2>4 DEF ReconcileMapping, Course, Life, Unclaimed
      <3> QED
        BY <2>3, <2>4, <3>1 DEF ReconcileMapping
    <2>5. CASE CancelOrder
      <3>1. \A sent \in BOOLEAN :
              Course(Life(reservation.state), Life(Cancelled(reservation.state)), sent, sent)
        BY <1>0 DEF Cancelled, Course, Life, Unclaimed, ReservationStates
      <3> QED
        BY <2>3, <2>5, <3>1 DEF CancelOrder
    <2>6. CASE SettleRecalc
      <3>1. PICK state \in {"incorporated_in_sml", "manual_reconciliation"} :
              reservation' = [reservation EXCEPT !.state = state]
        BY <2>6 DEF SettleRecalc
      <3>2. BillSent
        BY <1>0, <2>6 DEF SettleRecalc, AwaitingDemandHasJob, BillSent
      <3>3. Course(Life(reservation.state), Life(state), TRUE, TRUE)
        BY <2>6 DEF SettleRecalc, Course, Life, Unclaimed
      <3> QED
        BY <2>3, <3>1, <3>2, <3>3
    <2> QED
      BY <1>4, <1>6, <2>0, <2>1, <2>2, <2>4, <2>5, <2>6
      DEF OrderStep, EditBill, ApplyNameMapping, SetArchived, Recreate
  <1>7. ASSUME NEW c \in Calls, CreateSMLAttempt(c) PROVE Refines
    <2> DEFINE b == call[c].bill
               a == [state |-> "sending", owner |-> c, live |-> TRUE, payload |-> call[c].content]
    <2>1. CASE MayCreate(c)
      <3>1. /\ b \in Bills /\ attempt[b].state = "none"
            /\ attempt' = [attempt EXCEPT ![b] = a]
        BY <1>7, <2>1 DEF CreateSMLAttempt, MayCreate, Inv, CallInv
      <3>2. a.state = "sending"
        OBVIOUS
      <3> HIDE DEF a
      <3>3. CASE reservation.bill = b /\ reservation.state = "active"
        <4>1. reservation'.state = "sending_sml" /\ reservation'.bill = b
          BY <1>0, <1>7, <2>1, <3>3 DEF CreateSMLAttempt
        <4>2. ~BillSent /\ ~BillSent'
          BY <1>0, <3>1, <3>2, <3>3, <4>1 DEF BillSent
        <4>3. Course(Life(reservation.state), Life(reservation'.state), FALSE, FALSE)
          BY <3>3, <4>1 DEF Course, Life, Unclaimed
        <4> QED
          BY <1>1, <4>2, <4>3
      <3>4. CASE ~(reservation.bill = b /\ reservation.state = "active")
        BY <1>5, <1>7, <2>1, <3>1, <3>2, <3>4 DEF CreateSMLAttempt
      <3> QED
        BY <3>3, <3>4
    <2> QED
      BY <1>4, <1>7, <2>1 DEF CreateSMLAttempt
  <1>8. ASSUME NEW c \in Calls, ClaimExistingSMLAttempt(c) PROVE Refines
    <2>1. CASE MayClaim(c)
      <3> DEFINE b == call[c].bill
                 a == [attempt[b] EXCEPT !.state = "sending", !.owner = c, !.live = TRUE]
      <3>1. /\ b \in Bills /\ attempt[b].state # "sent" /\ reservation' = reservation
            /\ attempt' = [attempt EXCEPT ![b] = a]
        BY <1>8, <2>1 DEF ClaimExistingSMLAttempt, MayClaim, Inv, CallInv
      <3>2. a.state = "sending"
        BY <1>0, <3>1 DEF AttemptType
      <3> HIDE DEF a
      <3> QED
        BY <1>5, <3>1, <3>2
    <2> QED
      BY <1>4, <1>8, <2>1 DEF ClaimExistingSMLAttempt
  <1>9. ASSUME NEW c \in Calls, Record(c) PROVE Refines
    <2> DEFINE b == call[c].bill
               outcome == OutcomeOf(call[c].answer)
               a == [attempt[b] EXCEPT !.state = outcome, !.owner = NoCall, !.live = FALSE]
               state == ReservationAfter(outcome, reservation.state)
    <2>1. /\ b \in Bills /\ attempt[b].state = "sending"
          /\ attempt' = [attempt EXCEPT ![b] = a]
      BY <1>9 DEF Record, MayRecord, Holds, Inv, CallInv
    <2>2. attempt'[b].state = outcome /\ \A d \in Bills \ {b} : attempt'[d] = attempt[d]
      BY <1>0, <2>1 DEF AttemptType
    <2>3. outcome \in AttemptStates
      <3>1. call[c] \in CallType /\ call[c].answer # "none"
        BY <1>9 DEF Record, Inv, TypeOK, CallInv
      <3> QED
        BY <3>1 DEF OutcomeOf, CallType, Answers, AttemptStates
    <2>4. reservation' = IF reservation.bill = b THEN [reservation EXCEPT !.state = state] ELSE reservation
      BY <1>9 DEF Record
    <2>5. /\ ~(outcome = "sent") => Course(Life(reservation.state), Life(state), FALSE, FALSE)
          /\ outcome = "sent" => Course(Life(reservation.state), Life(state), FALSE, TRUE)
      BY <1>0, <2>3 DEF ReservationAfter, Course, Life, ReservationStates, Unclaimed
    <2> HIDE DEF a, state, outcome
    <2>6. CASE reservation.bill = b
      <3>1. reservation'.bill = b /\ reservation'.state = state
        BY <1>0, <2>4, <2>6
      <3>2. ~BillSent /\ (BillSent' <=> outcome = "sent")
        BY <2>1, <2>2, <2>6, <3>1 DEF BillSent
      <3>3. CASE outcome = "sent"
        BY <1>1, <2>5, <3>1, <3>2, <3>3
      <3>4. CASE outcome # "sent"
        BY <1>1, <2>5, <3>1, <3>2, <3>4
      <3> QED
        BY <3>3, <3>4
    <2>7. CASE reservation.bill # b
      <3>1. reservation' = reservation
        BY <2>4, <2>7
      <3>2. BillSent' <=> BillSent
        BY <2>2, <2>7, <3>1 DEF BillSent
      <3> QED
        BY <3>1, <3>2 DEF Demands, Taken
    <2> QED
      BY <2>6, <2>7
  <1>10. ASSUME NEW b \in Bills, NEW live \in BOOLEAN, reservation' = reservation,
                attempt' = [attempt EXCEPT ![b].live = live]
         PROVE  Refines
    <2>1. \A d \in Bills : attempt'[d].state = attempt[d].state
      BY <1>0, <1>10 DEF AttemptType
    <2> QED
      BY <1>4, <1>10, <2>1
  <1>11. ASSUME NEW c \in Calls, Heartbeat(c) PROVE Refines
    <2>1. call[c].bill \in Bills
      BY <1>11 DEF Heartbeat, Inv, CallInv
    <2> QED
      BY <1>4, <1>10, <1>11, <2>1 DEF Heartbeat
  <1>12. ASSUME NEW b \in Bills, LeaseExpires(b) PROVE Refines
    BY <1>10, <1>12 DEF LeaseExpires
  <1>13. ASSUME NEW c \in Calls, SenderStep(c) \/ Crash(c) \/ \E b \in Bills : Load(c, b)
         PROVE  Refines
    BY <1>4, <1>7, <1>8, <1>9, <1>13
    DEF SenderStep, StartSend, Refuse, SendToReview, NoAnswer, GiveUp, CompleteSend, SyncSnapshot,
        Crash, Load
  <1>14. CASE (\E r \in wire : SMLProcess(r)) \/ UNCHANGED vars
    BY <1>4, <1>14 DEF SMLProcess, vars
  <1> QED
    BY <1>6, <1>11, <1>12, <1>13, <1>14 DEF Next

\* The order and the sends of its bills implement DemandLife: whatever is
\* archived, recreated, retried, late or cancelled, the order's demand ends
\* once, and is counted only when the bill it belongs to was taken by SML.
THEOREM DemandImplemented == Spec => DemandRunsItsCourse
  <1>1. Init => FreshInv
    BY DEF Init, FreshInv, NoAttempt
  <1>2. Init => Demand!Init
    <2>1. Life("none") = "none"
      BY DEF Life, Unclaimed
    <2>2. Init => Demands = [o \in {"order"} |-> "none"] /\ Taken = {}
      BY <2>1 DEF Init, NoAttempt, Demands, Taken, BillSent
    <2> QED
      BY <2>2 DEF Demand!Init, Demands, Taken, BillSent
  <1>3. Inv /\ LiveInv /\ FreshInv /\ [Next]_vars => FreshInv'
    BY FreshNext
  <1>4. Inv /\ LiveInv /\ FreshInv /\ AwaitingDemandHasJob /\ [Next]_vars
          => [Demand!Next]_<<Demands, Taken>>
    BY NextCourse
  <1> QED
    BY <1>1, <1>2, <1>3, <1>4, Invariance, LiveInvariance, AwaitingHasJob, PTL
       DEF Spec, DemandRunsItsCourse, Demand!Spec, Demands, Taken, BillSent

-----------------------------------------------------------------------------
(* The reservation of a sent bill.  It leaves the states before the send   *)
(* with the recording, also when an exact retry sends demand that is       *)
(* active again; and it is the reservation of the order's bill unless that *)
(* bill was given to the order in place of another.                        *)

FollowsInv ==
  /\ reservation.bill # NoBill => reservation.state # "none"
  /\ \A b \in Bills : reservation.bill = b /\ attempt[b].state = "sent" =>
       reservation.state \notin {"active", "sending_sml"}

\* No step takes the reservation of a sent bill back to a state before.
LEMMA FollowsNext ==
  ASSUME Inv, LiveInv, FreshInv, FollowsInv, [Next]_vars
  PROVE  FollowsInv'
  <1>0. /\ reservation \in [state : ReservationStates, bill : Bills \cup {NoBill}]
        /\ attempt \in [Bills -> AttemptType]
        /\ NoBill \notin Bills
    BY NullAssumption DEF Inv, TypeOK
  <1>1. ASSUME reservation' = reservation,
               \A b \in Bills : attempt'[b].state = "sent" => attempt[b].state = "sent"
        PROVE  FollowsInv'
    BY <1>1 DEF FollowsInv
  <1>2. ASSUME NEW b \in Bills, NEW a, attempt' = [attempt EXCEPT ![b] = a], a.state # "sent",
               reservation' = reservation
        PROVE  FollowsInv'
    BY <1>0, <1>1, <1>2
  <1>3. CASE OrderStep
    <2>0. attempt' = attempt
      BY <1>3 DEF OrderStep, CreateBill, EditBill, ApplyNameMapping, SetArchived, DeleteBill, Recreate,
         ReconcileMapping, CancelOrder, SettleRecalc
    <2>1. ASSUME NEW b \in Bills, NEW status, NEW state \in {"active", "blocked_mapping"},
                 CreateBill(b, status, state)
          PROVE  FollowsInv'
      <3>1. PICK reserved \in ReservedAs(reservation.state, state) :
              /\ reservation'.state = reserved
              /\ reservation'.bill = IF reservation.bill = NoBill THEN b ELSE reservation.bill
        BY <2>1 DEF CreateBill
      <3>2. /\ reserved # "none"
            /\ reservation.state \notin {"none", "active"} => reserved = reservation.state
        BY <3>1 DEF ReservedAs
      <3>3. attempt[b].state # "sent"
        BY <2>1 DEF CreateBill, FreshInv
      <3> QED
        BY <1>0, <2>0, <3>1, <3>2, <3>3 DEF FollowsInv
    <2>2. ASSUME NEW b \in Bills, DeleteBill(b) PROVE FollowsInv'
      <3>1. /\ reservation'.state = reservation.state
            /\ reservation'.bill = IF reservation.bill = b THEN NoBill ELSE reservation.bill
        BY <1>0, <2>2 DEF DeleteBill
      <3> QED
        BY <1>0, <2>0, <3>1 DEF FollowsInv
    <2>3. ASSUME NEW state \in {"active", "blocked_mapping"}, ReconcileMapping(state) PROVE FollowsInv'
      <3>1. reservation'.state = state /\ reservation'.bill = reservation.bill
        BY <1>0, <2>3 DEF ReconcileMapping
      <3>2. attempt[reservation.bill].state = "none"
        BY <2>3 DEF ReconcileMapping, Unattempted
      <3> QED
        BY <2>0, <3>1, <3>2 DEF FollowsInv
    <2>4. ASSUME NEW state, state \notin {"none", "active", "sending_sml"},
                 reservation' = [reservation EXCEPT !.state = state]
          PROVE  FollowsInv'
      BY <1>0, <2>4 DEF FollowsInv
    <2>5. CASE CancelOrder
      <3>1. Cancelled(reservation.state) = reservation.state
            \/ Cancelled(reservation.state) \in {"released_cancelled", "manual_reconciliation"}
        BY DEF Cancelled
      <3>2. reservation' = [reservation EXCEPT !.state = Cancelled(reservation.state)]
        BY <2>5 DEF CancelOrder
      <3>3. CASE Cancelled(reservation.state) = reservation.state
        BY <1>0, <1>1, <2>0, <3>2, <3>3
      <3> QED
        BY <2>4, <3>1, <3>2, <3>3
    <2>6. CASE SettleRecalc
      BY <2>4, <2>6 DEF SettleRecalc
    <2> QED
      BY <1>1, <1>3, <2>0, <2>1, <2>2, <2>3, <2>5, <2>6
      DEF OrderStep, EditBill, ApplyNameMapping, SetArchived, Recreate
  <1>4. ASSUME NEW c \in Calls, CreateSMLAttempt(c) PROVE FollowsInv'
    <2> DEFINE b == call[c].bill
               a == [state |-> "sending", owner |-> c, live |-> TRUE, payload |-> call[c].content]
    <2>1. CASE MayCreate(c)
      <3>1. b \in Bills /\ attempt' = [attempt EXCEPT ![b] = a]
        BY <1>4, <2>1 DEF CreateSMLAttempt, Inv, CallInv
      <3>2. a.state = "sending"
        OBVIOUS
      <3> HIDE DEF a
      <3>3. CASE reservation.bill = b /\ reservation.state = "active"
        <4>1. reservation'.state = "sending_sml" /\ reservation'.bill = b
          BY <1>0, <1>4, <2>1, <3>3 DEF CreateSMLAttempt
        <4>2. attempt'[b].state = "sending"
          BY <1>0, <3>1, <3>2
        <4> QED
          BY <4>1, <4>2 DEF FollowsInv
      <3>4. CASE ~(reservation.bill = b /\ reservation.state = "active")
        BY <1>2, <1>4, <2>1, <3>1, <3>2, <3>4 DEF CreateSMLAttempt
      <3> QED
        BY <3>3, <3>4
    <2> QED
      BY <1>1, <1>4, <2>1 DEF CreateSMLAttempt
  <1>5. ASSUME NEW c \in Calls, ClaimExistingSMLAttempt(c) PROVE FollowsInv'
    <2>1. CASE MayClaim(c)
      <3> DEFINE b == call[c].bill
                 a == [attempt[b] EXCEPT !.state = "sending", !.owner = c, !.live = TRUE]
      <3>1. b \in Bills /\ reservation' = reservation /\ attempt' = [attempt EXCEPT ![b] = a]
        BY <1>5, <2>1 DEF ClaimExistingSMLAttempt, Inv, CallInv
      <3>2. a.state = "sending"
        BY <1>0, <3>1 DEF AttemptType
      <3> HIDE DEF a
      <3> QED
        BY <1>2, <3>1, <3>2
    <2> QED
      BY <1>1, <1>5, <2>1 DEF ClaimExistingSMLAttempt
  <1>6. ASSUME NEW c \in Calls, Record(c) PROVE FollowsInv'
    <2> DEFINE b == call[c].bill
               outcome == OutcomeOf(call[c].answer)
               state == ReservationAfter(outcome, reservation.state)
    <2>1. /\ b \in Bills
          /\ reservation' = IF reservation.bill = b THEN [reservation EXCEPT !.state = state] ELSE reservation
          /\ attempt' = [attempt EXCEPT ![b] = [@ EXCEPT !.state = outcome, !.owner = NoCall, !.live = FALSE]]
      BY <1>6 DEF Record, Inv, CallInv
    <2>2. attempt'[b].state = outcome /\ \A d \in Bills \ {b} : attempt'[d] = attempt[d]
      BY <1>0, <2>1 DEF AttemptType
    <2>3. /\ reservation.state # "none" => state # "none"
          /\ outcome = "sent" => state \notin {"active", "sending_sml"}
      BY DEF ReservationAfter
    <2> HIDE DEF state, outcome
    <2>4. CASE reservation.bill = b
      <3>1. reservation'.bill = b /\ reservation'.state = state
        BY <1>0, <2>1, <2>4
      <3> QED
        BY <1>0, <2>1, <2>2, <2>3, <2>4, <3>1 DEF FollowsInv
    <2>5. CASE reservation.bill # b
      BY <2>1, <2>2, <2>5 DEF FollowsInv
    <2> QED
      BY <2>4, <2>5
  <1>7. ASSUME NEW b \in Bills, NEW live \in BOOLEAN, reservation' = reservation,
               attempt' = [attempt EXCEPT ![b].live = live]
        PROVE  FollowsInv'
    <2>1. \A d \in Bills : attempt'[d].state = attempt[d].state
      BY <1>0, <1>7 DEF AttemptType
    <2> QED
      BY <1>1, <1>7, <2>1
  <1>8. ASSUME NEW c \in Calls, Heartbeat(c) PROVE FollowsInv'
    <2>1. call[c].bill \in Bills
      BY <1>8 DEF Heartbeat, Inv, CallInv
    <2> QED
      BY <1>1, <1>7, <1>8, <2>1 DEF Heartbeat
  <1>9. ASSUME NEW b \in Bills, LeaseExpires(b) PROVE FollowsInv'
    BY <1>7, <1>9 DEF LeaseExpires
  <1>10. ASSUME NEW c \in Calls, SenderStep(c) \/ Crash(c) \/ \E b \in Bills : Load(c, b)
         PROVE  FollowsInv'
    BY <1>1, <1>4, <1>5, <1>6, <1>10
    DEF SenderStep, StartSend, Refuse, SendToReview, NoAnswer, GiveUp, CompleteSend, SyncSnapshot,
        Crash, Load
  <1>11. CASE (\E r \in wire : SMLProcess(r)) \/ UNCHANGED vars
    BY <1>1, <1>11 DEF SMLProcess, vars
  <1> QED
    BY <1>3, <1>8, <1>9, <1>10, <1>11 DEF Next

\* Without a recreation the order and its reservation have the same bill.
LinkInv == reservation.bill = order.bill

LEMMA LinkNext ==
  ASSUME ~ShopeeRealtime, Inv, LinkInv, [Next]_vars
  PROVE  LinkInv'
  <1>0. /\ reservation \in [state : ReservationStates, bill : Bills \cup {NoBill}]
        /\ order \in [bill : Bills \cup {NoBill}, docNo : BOOLEAN, cancelled : BOOLEAN]
    BY DEF Inv, TypeOK
  <1>1. ASSUME reservation'.bill = reservation.bill, order'.bill = order.bill PROVE LinkInv'
    BY <1>1 DEF LinkInv
  <1>2. CASE OrderStep
    <2>1. ASSUME NEW b \in Bills, NEW status, NEW state, CreateBill(b, status, state) PROVE LinkInv'
      <3>1. reservation'.bill = IF reservation.bill = NoBill THEN b ELSE reservation.bill
        BY <2>1 DEF CreateBill
      <3>2. order'.bill = b /\ order.bill = NoBill
        BY <1>0, <2>1 DEF CreateBill
      <3> QED
        BY <3>1, <3>2 DEF LinkInv
    <2>2. ASSUME NEW b \in Bills, DeleteBill(b) PROVE LinkInv'
      BY <1>0, <2>2 DEF DeleteBill, LinkInv
    <2>3. ASSUME NEW state, ReconcileMapping(state) PROVE LinkInv'
      BY <1>0, <1>1, <2>3 DEF ReconcileMapping
    <2>4. CASE CancelOrder \/ SettleRecalc
      BY <1>0, <1>1, <2>4 DEF CancelOrder, SettleRecalc
    <2> QED
      BY <1>1, <1>2, <2>1, <2>2, <2>3, <2>4
      DEF OrderStep, EditBill, ApplyNameMapping, SetArchived, Recreate
  <1>3. ASSUME NEW c \in Calls, CreateSMLAttempt(c) \/ Record(c) \/ SyncSnapshot(c) PROVE LinkInv'
    BY <1>0, <1>1, <1>3 DEF CreateSMLAttempt, Record, SyncSnapshot
  <1>4. ASSUME NEW c \in Calls,
               SenderStep(c) \/ Heartbeat(c) \/ Crash(c) \/ \E b \in Bills : Load(c, b)
        PROVE  LinkInv'
    BY <1>1, <1>3, <1>4
    DEF SenderStep, StartSend, Refuse, SendToReview, ClaimExistingSMLAttempt, NoAnswer, GiveUp,
        CompleteSend, Heartbeat, Crash, Load
  <1>5. CASE (\E r \in wire : SMLProcess(r)) \/ (\E b \in Bills : LeaseExpires(b)) \/ UNCHANGED vars
    BY <1>1, <1>5 DEF SMLProcess, LeaseExpires, vars
  <1> QED
    BY <1>2, <1>4, <1>5 DEF Next

\* The demand of an order whose bill was sent has left the states before the
\* send, also after exact retries, if bills are not recreated: with Shopee's
\* recreation it need not (see the comment on the property).
THEOREM SentHasMovedOn ==
  ASSUME ~ShopeeRealtime
  PROVE  Spec => []SentReservationAwaitsRecalc
  <1>1. Init => FreshInv /\ FollowsInv /\ LinkInv
    BY DEF Init, FreshInv, FollowsInv, LinkInv, NoAttempt
  <1>2. Inv /\ LiveInv /\ FreshInv /\ [Next]_vars => FreshInv'
    BY FreshNext
  <1>3. Inv /\ LiveInv /\ FreshInv /\ FollowsInv /\ [Next]_vars => FollowsInv'
    BY FollowsNext
  <1>4. Inv /\ LinkInv /\ [Next]_vars => LinkInv'
    BY LinkNext
  <1>5. Inv /\ FollowsInv /\ LinkInv => SentReservationAwaitsRecalc
    BY NullAssumption DEF Inv, TypeOK, FollowsInv, LinkInv, SentReservationAwaitsRecalc
  <1> QED
    BY <1>1, <1>2, <1>3, <1>4, <1>5, Invariance, LiveInvariance, PTL DEF Spec
=============================================================================
