----------------------- MODULE SMLCancellationProofs -----------------------
(***************************************************************************)
(* The safety properties of SMLCancellation, for any number of calls, rows *)
(* and attempts, and however often the process stops.                      *)
(***************************************************************************)
EXTENDS SMLCancellation, FiniteSetTheorems, TLAPS

RowShape ==
  [status : Statuses, docNo : Rows \cup {NoRow}, attempts : Nat, leased : BOOLEAN, recent : BOOLEAN,
   recalc : Recalcs, recalcs : Nat, recalcLeased : BOOLEAN]

Shape ==
  /\ row \in [Rows -> RowShape]
  /\ actor \in [Actors -> ActorType]
  /\ wire \subseteq Rows
  /\ cancellation \in Rows \cup {NoRow}

(* A row that was not inserted has no number.                              *)
NoneIsNew == \A r \in Rows : row[r].status = "none" => row[r].docNo = NoRow

(* A success was reported by SML, and is the only one.                     *)
SuccessesAgree ==
  /\ \A r \in Succeeded : cancellation # NoRow /\ row[r].docNo = cancellation
  /\ \A r, s \in Succeeded : r = s
CreatedIsKnown == \A a \in Actors : At(a, "created") => cancellation # NoRow

(* While an actor works on a row the row is in creation; only a call that  *)
(* has yet to take a failed attempt up again holds the lock instead.       *)
Holding == {"leased", "preparing", "waiting", "created", "retrying", "blocking", "covering",
            "superseding", "failing"}
ActorOK(a) ==
  /\ actor[a].row # NoRow <=> actor[a].pc \in Holding \cup {"resuming"}
  /\ actor[a].pc = "resuming" => row[actor[a].row].status \in {"failed", "blocked"}
  /\ actor[a].pc \in Holding => row[actor[a].row].status = "creating"
  /\ actor[a].pc # "idle" => up
  /\ a = Worker => actor[a].row \in {AutoRow, NoRow} /\ actor[a].pc \notin {"resuming", "inserting"}
OneHoldsLock ==
  \A c, d \in Actors :
    actor[c].pc \in {"resuming", "inserting"} /\ actor[d].pc \in {"resuming", "inserting"} => c = d

ActorsAgree == (\A a \in Actors : ActorOK(a)) /\ OneHoldsLock /\ OneActorPerAttempt
RowsAgree == NoneIsNew /\ SuccessesAgree /\ RequestIsStored

IInv == Shape /\ RowsAgree /\ CreatedIsKnown /\ ActorsAgree

LEMMA InitIInv == Init => IInv
<1> SUFFICES ASSUME Init PROVE IInv
  OBVIOUS
<1>1. NewRow \in RowShape /\ NewRow.status = "none" /\ NewRow.docNo = NoRow
  BY DEF NewRow, RowShape, Statuses, Recalcs
<1>2. Idle \in ActorType /\ Idle.pc = "idle" /\ Idle.row = NoRow
  BY DEF Idle, ActorType, Steps
<1>3. row \in [Rows -> RowShape] /\ \A r \in Rows : row[r].status = "none" /\ row[r].docNo = NoRow
  BY <1>1 DEF Init
<1>4. actor \in [Actors -> ActorType] /\ \A a \in Actors : actor[a].pc = "idle" /\ actor[a].row = NoRow
  BY <1>2 DEF Init
<1>5. wire = {} /\ cancellation = NoRow
  BY DEF Init
<1>6. Shape
  BY <1>3, <1>4, <1>5 DEF Shape
<1>7. RowsAgree
  BY <1>3, <1>5 DEF RowsAgree, NoneIsNew, SuccessesAgree, Succeeded, RequestIsStored
<1>8. CreatedIsKnown /\ ActorsAgree
  BY <1>4 DEF CreatedIsKnown, ActorsAgree, ActorOK, OneHoldsLock, OneActorPerAttempt, Holding, At
<1> QED
  BY <1>6, <1>7, <1>8 DEF IInv

-----------------------------------------------------------------------------
(* Rows.                                                                   *)

LEMMA WriteRow ==
  ASSUME Shape, NEW r \in Rows, NEW v \in RowShape, Write(r, v)
  PROVE  /\ row' \in [Rows -> RowShape]
         /\ row'[r].status = v.status /\ row'[r].docNo = v.docNo
         /\ \A s \in Rows \ {r} : row'[s] = row[s]
<1> DEFINE new == [v EXCEPT !.recent = TRUE]
<1>1. new \in RowShape /\ new.status = v.status /\ new.docNo = v.docNo
  BY DEF RowShape
<1>2. row' = [row EXCEPT ![r] = new]
  BY DEF Write
<1> HIDE DEF new
<1>3. row'[r] = new
  BY <1>2 DEF Shape
<1> QED
  BY <1>1, <1>2, <1>3 DEF Shape

LEMMA StatusRow ==
  ASSUME NEW v \in RowShape, NEW status \in Statuses, NEW leased \in BOOLEAN
  PROVE  /\ [v EXCEPT !.status = status, !.leased = leased] \in RowShape
         /\ [v EXCEPT !.status = status, !.leased = leased].status = status
         /\ [v EXCEPT !.status = status, !.leased = leased].docNo = v.docNo
BY DEF RowShape

LEMMA LeasedRow ==
  ASSUME NEW v \in RowShape
  PROVE  /\ [v EXCEPT !.status = "creating", !.attempts = @ + 1, !.leased = TRUE] \in RowShape
         /\ [v EXCEPT !.status = "creating", !.attempts = @ + 1, !.leased = TRUE].status = "creating"
         /\ [v EXCEPT !.status = "creating", !.attempts = @ + 1, !.leased = TRUE].docNo = v.docNo
<1>1. v.attempts \in Nat
  BY DEF RowShape
<1>2. v.attempts + 1 \in Nat
  BY <1>1
<1>3. "creating" \in Statuses
  BY DEF Statuses
<1> QED
  BY <1>2, <1>3 DEF RowShape

LEMMA InsertedRow ==
  ASSUME NEW status \in Statuses
  PROVE  /\ [NewRow EXCEPT !.status = status] \in RowShape
         /\ [NewRow EXCEPT !.status = status].status = status
         /\ [NewRow EXCEPT !.status = status].docNo = NoRow
BY DEF NewRow, RowShape, Recalcs

LEMMA PreparedRow ==
  ASSUME NEW v \in RowShape, NEW docNo \in Rows
  PROVE  /\ [v EXCEPT !.docNo = docNo] \in RowShape
         /\ [v EXCEPT !.docNo = docNo].status = v.status
         /\ [v EXCEPT !.docNo = docNo].docNo = docNo
BY DEF RowShape

LEMMA QueuedRow ==
  ASSUME NEW v \in RowShape, NEW recalc \in Recalcs
  PROVE  /\ [v EXCEPT !.recalc = recalc] \in RowShape
         /\ [v EXCEPT !.recalc = recalc].status = v.status
         /\ [v EXCEPT !.recalc = recalc].docNo = v.docNo
BY DEF RowShape

LEMMA RecalcRow ==
  ASSUME NEW v \in RowShape, NEW recalc \in Recalcs, NEW leased \in BOOLEAN
  PROVE  /\ [v EXCEPT !.recalc = recalc, !.recalcLeased = leased] \in RowShape
         /\ [v EXCEPT !.recalc = recalc, !.recalcLeased = leased].status = v.status
         /\ [v EXCEPT !.recalc = recalc, !.recalcLeased = leased].docNo = v.docNo
BY DEF RowShape

LEMMA ClaimedRow ==
  ASSUME NEW v \in RowShape
  PROVE  /\ [v EXCEPT !.recalc = "running", !.recalcs = @ + 1, !.recalcLeased = TRUE] \in RowShape
         /\ [v EXCEPT !.recalc = "running", !.recalcs = @ + 1, !.recalcLeased = TRUE].status = v.status
         /\ [v EXCEPT !.recalc = "running", !.recalcs = @ + 1, !.recalcLeased = TRUE].docNo = v.docNo
<1>1. v.recalcs \in Nat
  BY DEF RowShape
<1>2. v.recalcs + 1 \in Nat
  BY <1>1
<1>3. "running" \in Recalcs
  BY DEF Recalcs
<1> QED
  BY <1>2, <1>3 DEF RowShape

LEMMA TimedRow ==
  ASSUME NEW v \in RowShape
  PROVE  \A w \in {[v EXCEPT !.leased = FALSE], [v EXCEPT !.recent = FALSE], [v EXCEPT !.recalcLeased = FALSE]} :
           w \in RowShape /\ w.status = v.status /\ w.docNo = v.docNo
BY DEF RowShape

(* Numbers stay, and nothing becomes a success.                            *)
LEMMA RowsKept ==
  ASSUME Shape, RowsAgree, row' \in [Rows -> RowShape], cancellation' = cancellation,
         wire' \subseteq Rows, \A r \in wire' : r \in wire \/ row[r].docNo # NoRow,
         \A r \in Rows :
           /\ row[r].docNo # NoRow => row'[r].docNo # NoRow
           /\ row'[r].status = "none" => row'[r].docNo = NoRow
           /\ row'[r].status = "created" => row[r].status = "created" /\ row'[r].docNo = row[r].docNo
  PROVE  RowsAgree'
<1>1. NoneIsNew'
  BY DEF NoneIsNew
<1>2. SuccessesAgree'
  BY DEF RowsAgree, SuccessesAgree, Succeeded
<1>3. RequestIsStored'
  BY DEF Shape, RowsAgree, RequestIsStored
<1> QED
  BY <1>1, <1>2, <1>3 DEF RowsAgree

-----------------------------------------------------------------------------
(* Actors.                                                                 *)

LEMMA ActorMoves ==
  ASSUME Shape, ActorsAgree, CreatedIsKnown, NEW a \in Actors, NEW new \in ActorType,
         actor' = [actor EXCEPT ![a] = new], up' = up, cancellation' = cancellation,
         \A b \in Actors \ {a} : actor[b].row # NoRow => row'[actor[b].row].status = row[actor[b].row].status,
         new.row # NoRow <=> new.pc \in Holding \cup {"resuming"},
         new.pc = "resuming" => row'[new.row].status \in {"failed", "blocked"},
         new.pc \in Holding => row'[new.row].status = "creating",
         new.pc # "idle" => up,
         a = Worker => new.row \in {AutoRow, NoRow} /\ new.pc \notin {"resuming", "inserting"},
         new.pc \in {"resuming", "inserting"} =>
           \A b \in Actors \ {a} : actor[b].pc \notin {"resuming", "inserting"},
         new.row # NoRow => \A b \in Actors \ {a} : actor[b].row # new.row,
         new.pc = "created" => cancellation # NoRow
  PROVE  actor' \in [Actors -> ActorType] /\ ActorsAgree' /\ CreatedIsKnown'
<1>1. actor'[a] = new /\ \A b \in Actors \ {a} : actor'[b] = actor[b]
  BY DEF Shape
<1>2. actor' \in [Actors -> ActorType]
  BY DEF Shape
<1>3. ASSUME NEW b \in Actors \ {a} PROVE ActorOK(b)'
  BY <1>1, <1>3 DEF ActorsAgree, ActorOK
<1>4. ActorOK(a)'
  BY <1>1 DEF ActorOK
<1>5. OneHoldsLock'
  BY <1>1 DEF ActorsAgree, OneHoldsLock
<1>6. OneActorPerAttempt'
  BY <1>1 DEF ActorsAgree, OneActorPerAttempt
<1>7. CreatedIsKnown'
  BY <1>1 DEF CreatedIsKnown, At
<1> QED
  BY <1>2, <1>3, <1>4, <1>5, <1>6, <1>7 DEF ActorsAgree

LEMMA NoActorMoves ==
  ASSUME ActorsAgree, CreatedIsKnown, UNCHANGED <<actor, up, cancellation>>,
         \A b \in Actors : actor[b].row # NoRow => row'[actor[b].row].status = row[actor[b].row].status
  PROVE  ActorsAgree' /\ CreatedIsKnown'
<1>1. \A b \in Actors : ActorOK(b)'
  BY DEF ActorsAgree, ActorOK
<1>2. OneHoldsLock' /\ OneActorPerAttempt' /\ CreatedIsKnown'
  BY DEF ActorsAgree, OneHoldsLock, OneActorPerAttempt, CreatedIsKnown, At
<1> QED
  BY <1>1, <1>2 DEF ActorsAgree

LEMMA ActorRows ==
  ASSUME Shape, NEW a \in Actors, NEW pc \in Steps
  PROVE  /\ actor[a] \in ActorType
         /\ [actor[a] EXCEPT !.pc = pc] \in ActorType
         /\ [actor[a] EXCEPT !.pc = pc].pc = pc
         /\ [actor[a] EXCEPT !.pc = pc].row = actor[a].row
<1>1. actor[a] \in ActorType
  BY DEF Shape
<1> QED
  BY <1>1 DEF ActorType

LEMMA IdleRow == Idle \in ActorType /\ Idle.pc = "idle" /\ Idle.row = NoRow
BY DEF Idle, ActorType, Steps

(* An actor ends its work: nobody else worked on its row.                  *)
LEMMA ActorRests ==
  ASSUME Shape, ActorsAgree, CreatedIsKnown, NEW a \in Actors, Rest(a), up' = up,
         cancellation' = cancellation,
         \A s \in Rows : row'[s] = row[s] \/ s = actor[a].row \/ row'[s].status = row[s].status
  PROVE  actor' \in [Actors -> ActorType] /\ ActorsAgree' /\ CreatedIsKnown'
<1>1. \A b \in Actors \ {a} : actor[b].row # NoRow => row'[actor[b].row].status = row[actor[b].row].status
  <2> SUFFICES ASSUME NEW b \in Actors \ {a}, actor[b].row # NoRow
               PROVE  row'[actor[b].row].status = row[actor[b].row].status
    OBVIOUS
  <2>1. actor[b].row \in Rows
    BY DEF Shape, ActorType
  <2>2. actor[b].row # actor[a].row
    BY DEF ActorsAgree, OneActorPerAttempt
  <2> QED
    BY <2>1, <2>2
<1>2. actor' = [actor EXCEPT ![a] = Idle]
  BY DEF Rest
<1> QED
  BY <1>1, <1>2, IdleRow, ActorMoves DEF Holding

(* An actor goes on with its row.                                          *)
LEMMA ActorGoesOn ==
  ASSUME Shape, ActorsAgree, CreatedIsKnown, NEW a \in Actors, NEW pc \in Holding, Goto(a, pc),
         actor[a].pc \in Holding, up' = up, cancellation' = cancellation,
         \A s \in Rows : row'[s].status = row[s].status,
         pc = "created" => cancellation # NoRow
  PROVE  actor' \in [Actors -> ActorType] /\ ActorsAgree' /\ CreatedIsKnown'
<1> DEFINE new == [actor[a] EXCEPT !.pc = pc]
<1>1. pc \in Steps
  BY DEF Holding, Steps
<1>2. new \in ActorType /\ new.pc = pc /\ new.row = actor[a].row
  BY <1>1, ActorRows
<1>3. \A b \in Actors : actor[b].row # NoRow => actor[b].row \in Rows
  BY DEF Shape, ActorType
<1>4. actor[a].row # NoRow /\ row[actor[a].row].status = "creating" /\ up
  BY DEF ActorsAgree, ActorOK, Holding
<1>5. \A b \in Actors \ {a} : actor[b].row # actor[a].row
  BY <1>4 DEF ActorsAgree, OneActorPerAttempt
<1>6. a = Worker => actor[a].row \in {AutoRow, NoRow}
  BY DEF ActorsAgree, ActorOK
<1>7. actor' = [actor EXCEPT ![a] = new]
  BY DEF Goto, Shape
<1>8. pc # "resuming" /\ pc # "inserting" /\ pc # "idle"
  BY DEF Holding
<1> HIDE DEF new
<1> QED
  BY <1>2, <1>3, <1>4, <1>5, <1>6, <1>7, <1>8, ActorMoves

-----------------------------------------------------------------------------
LEMMA NextIInv == IInv /\ [Next]_vars => IInv'
<1> SUFFICES ASSUME IInv, [Next]_vars PROVE IInv'
  OBVIOUS
<1>i. Shape /\ RowsAgree /\ CreatedIsKnown /\ ActorsAgree
  BY DEF IInv
<1>t. /\ row \in [Rows -> RowShape] /\ actor \in [Actors -> ActorType]
      /\ wire \subseteq Rows /\ cancellation \in Rows \cup {NoRow}
      /\ AutoRow \in Rows /\ NoRow \notin Rows /\ Worker \in Actors /\ Worker \notin Calls
  BY <1>i, CancellationAssumption DEF Shape, Rows, Actors
<1>r. \A s \in Rows : row[s] \in RowShape /\ row[s].recalc \in Recalcs
  <2>1. \A s \in Rows : row[s] \in RowShape
    BY <1>t
  <2> QED
    BY <2>1 DEF RowShape
<1>a. \A a \in Actors : /\ actor[a] \in ActorType
                        /\ actor[a].row \in Rows \cup {NoRow}
                        /\ actor[a].pc \in Holding => actor[a].row \in Rows /\ row[actor[a].row].status = "creating"
  BY <1>i, <1>t DEF ActorType, ActorsAgree, ActorOK
<1>w. actor[Worker].pc \in Holding => actor[Worker].row = AutoRow /\ row[AutoRow].status = "creating"
  BY <1>i, <1>a, <1>t DEF ActorsAgree, ActorOK
<1>c. \A q \in Recalcs : RecalcAfter(q) \in Recalcs
  BY DEF RecalcAfter, Recalcs
\* A row is written and nothing is sent to SML or answered.
<1>1. ASSUME NEW r \in Rows, NEW v \in RowShape, Write(r, v), UNCHANGED <<wire, cancellation, up>>,
             row[r].docNo # NoRow => v.docNo # NoRow,
             v.status = "none" => v.docNo = NoRow,
             v.status = "created" => row[r].status = "created" /\ v.docNo = row[r].docNo
      PROVE  /\ row' \in [Rows -> RowShape] /\ wire' \subseteq Rows
             /\ cancellation' \in Rows \cup {NoRow} /\ RowsAgree'
             /\ row'[r].status = v.status /\ \A s \in Rows \ {r} : row'[s] = row[s]
  <2>1. /\ row' \in [Rows -> RowShape] /\ row'[r].status = v.status /\ row'[r].docNo = v.docNo
        /\ \A s \in Rows \ {r} : row'[s] = row[s]
    BY <1>1, <1>i, WriteRow
  <2>2. NoneIsNew
    BY <1>i DEF RowsAgree
  <2>3. ASSUME NEW s \in Rows
        PROVE  /\ row[s].docNo # NoRow => row'[s].docNo # NoRow
               /\ row'[s].status = "none" => row'[s].docNo = NoRow
               /\ row'[s].status = "created" => row[s].status = "created" /\ row'[s].docNo = row[s].docNo
    BY <1>1, <2>1, <2>2 DEF NoneIsNew
  <2> QED
    BY <1>1, <1>i, <1>t, <2>1, <2>3, RowsKept
\* ... and no actor moves.
<1>2. ASSUME NEW r \in Rows, NEW v \in RowShape, Write(r, v), UNCHANGED <<wire, cancellation, up, actor>>,
             v.docNo = row[r].docNo, v.status = row[r].status
      PROVE  IInv'
  <2>1. v.status = "none" => v.docNo = NoRow
    BY <1>2, <1>i DEF RowsAgree, NoneIsNew
  <2>2. /\ row' \in [Rows -> RowShape] /\ wire' \subseteq Rows
        /\ cancellation' \in Rows \cup {NoRow} /\ RowsAgree'
        /\ row'[r].status = v.status /\ \A s \in Rows \ {r} : row'[s] = row[s]
    BY <1>2, <2>1, <1>1
  <2>3. \A b \in Actors : actor[b].row # NoRow => row'[actor[b].row].status = row[actor[b].row].status
    BY <1>2, <1>a, <2>2
  <2>4. ActorsAgree' /\ CreatedIsKnown'
    BY <1>2, <1>i, <2>3, NoActorMoves
  <2> QED
    BY <1>2, <1>t, <2>2, <2>4 DEF IInv, Shape
\* ... and an actor ends its work on the row.
<1>3. ASSUME NEW a \in Actors, actor[a].row \in Rows, NEW v \in RowShape, Write(actor[a].row, v), Rest(a),
             UNCHANGED <<wire, cancellation, up>>,
             v.docNo = row[actor[a].row].docNo, v.status \notin {"none", "created"}
      PROVE  IInv'
  <2>1. PICK r \in Rows : r = actor[a].row
    BY <1>3
  <2>2. /\ row' \in [Rows -> RowShape] /\ wire' \subseteq Rows
        /\ cancellation' \in Rows \cup {NoRow} /\ RowsAgree'
        /\ \A s \in Rows \ {r} : row'[s] = row[s]
    BY <1>3, <2>1, <1>1
  <2>3. actor' \in [Actors -> ActorType] /\ ActorsAgree' /\ CreatedIsKnown'
    BY <1>3, <1>i, <2>1, <2>2, ActorRests
  <2> QED
    BY <2>2, <2>3 DEF IInv, Shape
\* The rows stay.
<1>4. ASSUME UNCHANGED <<row, wire, cancellation, up>>,
             actor' \in [Actors -> ActorType] /\ ActorsAgree' /\ CreatedIsKnown'
      PROVE  IInv'
  <2>1. RowsAgree'
    BY <1>4, <1>i DEF RowsAgree, NoneIsNew, SuccessesAgree, Succeeded, RequestIsStored
  <2> QED
    BY <1>4, <1>t, <2>1 DEF IInv, Shape
<1>5. ASSUME NEW a \in Actors, Rest(a), UNCHANGED <<row, wire, cancellation, up>> PROVE IInv'
  BY <1>5, <1>i, <1>4, ActorRests
<1>6. ASSUME NEW a \in Actors, NEW pc \in Holding, Goto(a, pc), actor[a].pc \in Holding,
             UNCHANGED <<row, wire, cancellation, up>>, pc = "created" => cancellation # NoRow
      PROVE  IInv'
  BY <1>6, <1>i, <1>4, ActorGoesOn
\* The automatic job.
<1>7. CASE EnqueueAutoSMLCancellation
  <2> DEFINE v == [NewRow EXCEPT !.status = "pending"]
  <2>1. Write(AutoRow, v) /\ row[AutoRow].status = "none" /\ UNCHANGED <<wire, cancellation, up, actor>>
    BY <1>7 DEF EnqueueAutoSMLCancellation, sml, process
  <2>2. v \in RowShape /\ v.status = "pending" /\ v.docNo = NoRow
    BY InsertedRow DEF Statuses
  <2> HIDE DEF v
  <2>3. row[AutoRow].docNo = NoRow
    BY <1>i, <1>t, <2>1 DEF RowsAgree, NoneIsNew
  <2>4. /\ row' \in [Rows -> RowShape] /\ wire' \subseteq Rows
        /\ cancellation' \in Rows \cup {NoRow} /\ RowsAgree'
        /\ \A s \in Rows \ {AutoRow} : row'[s] = row[s]
    BY <1>t, <2>1, <2>2, <2>3, <1>1
  <2>5. \A b \in Actors : actor[b].row # NoRow => actor[b].row # AutoRow
    BY <1>i, <2>1 DEF ActorsAgree, ActorOK
  <2>6. \A b \in Actors : actor[b].row # NoRow => row'[actor[b].row].status = row[actor[b].row].status
    BY <1>a, <2>4, <2>5
  <2>7. ActorsAgree' /\ CreatedIsKnown'
    BY <1>i, <2>1, <2>6, NoActorMoves
  <2> QED
    BY <1>t, <2>1, <2>4, <2>7 DEF IInv, Shape
<1>8. CASE LeaseAutoSMLCancellation
  <2> DEFINE v == [row[AutoRow] EXCEPT !.status = "creating", !.attempts = @ + 1, !.leased = TRUE]
             new == [pc |-> "leased", row |-> AutoRow]
  <2>1. /\ up /\ row[AutoRow].status = "pending" /\ Write(AutoRow, v)
        /\ actor' = [actor EXCEPT ![Worker] = new] /\ UNCHANGED <<wire, cancellation, up>>
    BY <1>8 DEF LeaseAutoSMLCancellation, sml, process
  <2>2. v \in RowShape /\ v.status = "creating" /\ v.docNo = row[AutoRow].docNo
    BY <1>r, <1>t, LeasedRow
  <2>3. new \in ActorType /\ new.pc = "leased" /\ new.row = AutoRow
    BY <1>t DEF ActorType, Steps
  <2> HIDE DEF v, new
  <2>4. /\ row' \in [Rows -> RowShape] /\ wire' \subseteq Rows
        /\ cancellation' \in Rows \cup {NoRow} /\ RowsAgree'
        /\ row'[AutoRow].status = "creating" /\ \A s \in Rows \ {AutoRow} : row'[s] = row[s]
    BY <1>t, <2>1, <2>2, <1>1
  <2>5. \A b \in Actors : actor[b].row # NoRow => actor[b].row # AutoRow
    BY <1>i, <2>1 DEF ActorsAgree, ActorOK
  <2>6. \A b \in Actors : actor[b].row # NoRow => row'[actor[b].row].status = row[actor[b].row].status
    BY <1>a, <2>4, <2>5
  <2>7. \A b \in Actors : actor[b].row # AutoRow
    BY <1>t, <2>5
  <2>8. actor' \in [Actors -> ActorType] /\ ActorsAgree' /\ CreatedIsKnown'
    BY <1>i, <1>t, <2>1, <2>3, <2>4, <2>6, <2>7, ActorMoves DEF Holding
  <2> QED
    BY <2>4, <2>8 DEF IInv, Shape
<1>9. CASE Preflight
  <2>1. Verdict \in {"covering", "retrying", "blocking", "preparing"}
    BY DEF Verdict
  <2>2. PICK pc \in {Verdict, "retrying", "blocking"} : Goto(Worker, pc)
    BY <1>9 DEF Preflight
  <2>3. pc \in Holding /\ pc # "created" /\ actor[Worker].pc \in Holding
    BY <1>9, <2>1 DEF Preflight, At, Holding
  <2>4. UNCHANGED <<row, wire, cancellation, up>>
    BY <1>9 DEF Preflight, sml, process
  <2> QED
    BY <1>t, <2>2, <2>3, <2>4, <1>6
<1>10. CASE CompleteExisting
  <2> DEFINE r == Existing
             v == [row[r] EXCEPT !.recalc = RecalcAfter(@)]
  <2>1. Write(r, v) /\ Goto(Worker, "superseding") /\ actor[Worker].pc \in Holding /\ UNCHANGED <<wire, cancellation, up>>
    BY <1>10 DEF CompleteExisting, At, Holding, sml, process
  <2>2. CASE r \in Rows
    <3>1. v \in RowShape /\ v.status = row[r].status /\ v.docNo = row[r].docNo
      BY <1>r, <1>c, <1>t, <2>2, QueuedRow
    <3>2. v.status = "none" => v.docNo = NoRow
      BY <1>i, <2>2, <3>1 DEF RowsAgree, NoneIsNew
    <3>3. PICK q \in Rows : q = r
      BY <2>2
    <3>4. PICK u \in RowShape : u = v
      BY <3>1
    <3> HIDE DEF r, v
    <3>5. /\ row' \in [Rows -> RowShape] /\ wire' \subseteq Rows
          /\ cancellation' \in Rows \cup {NoRow} /\ RowsAgree'
          /\ row'[q].status = row[q].status /\ \A s \in Rows \ {q} : row'[s] = row[s]
      BY <2>1, <3>1, <3>2, <3>3, <3>4, <1>1
    <3>6. actor' \in [Actors -> ActorType] /\ ActorsAgree' /\ CreatedIsKnown'
      BY <1>i, <1>t, <2>1, <3>5, ActorGoesOn DEF Holding
    <3> QED
      BY <3>5, <3>6 DEF IInv, Shape
  <2>3. CASE r \notin Rows
    <3>1. row' = row
      BY <1>t, <2>1, <2>3 DEF Write
    <3> QED
      BY <1>t, <2>1, <3>1, <1>6 DEF Holding
  <2> QED
    BY <2>2, <2>3
<1>11. ASSUME SupersedeAutoSMLCancellation \/ MarkAutoSMLCancellationRetry \/ BlockAutoSMLCancellation
       PROVE  IInv'
  <2>1. StatusAfterRetry \in {"failed", "pending"}
    BY DEF StatusAfterRetry
  <2>2. PICK status \in {"superseded", "failed", "pending", "blocked"} :
          Write(AutoRow, [row[AutoRow] EXCEPT !.status = status, !.leased = FALSE])
    BY <1>11, <2>1 DEF SupersedeAutoSMLCancellation, MarkAutoSMLCancellationRetry, BlockAutoSMLCancellation
  <2>3. Rest(Worker) /\ actor[Worker].pc \in Holding /\ UNCHANGED <<wire, cancellation, up>>
    BY <1>11 DEF SupersedeAutoSMLCancellation, MarkAutoSMLCancellationRetry, BlockAutoSMLCancellation,
                 At, Holding, sml, process
  <2> DEFINE v == [row[AutoRow] EXCEPT !.status = status, !.leased = FALSE]
  <2>4. v \in RowShape /\ v.status = status /\ v.docNo = row[AutoRow].docNo
    <3>1. status \in Statuses /\ FALSE \in BOOLEAN /\ row[AutoRow] \in RowShape
      BY <1>r, <1>t DEF Statuses
    <3> QED
      BY <3>1, StatusRow
  <2> HIDE DEF v
  <2>5. Write(actor[Worker].row, v) /\ actor[Worker].row = AutoRow
    BY <1>w, <2>2, <2>3 DEF v
  <2> QED
    BY <1>t, <2>3, <2>4, <2>5, <1>3
<1>12. CASE CoverFails
  BY <1>12, <1>t, <1>6 DEF CoverFails, Holding, sml, process
\* The calls.
<1>13. ASSUME NEW c \in Calls, CancelSMLDocument(c) PROVE IInv'
  <2> DEFINE new == [actor[c] EXCEPT !.pc = "deciding"]
  <2>1. /\ c \in Actors /\ c # Worker /\ up /\ actor[c].pc = "idle"
        /\ UNCHANGED <<row, wire, cancellation, up>>
    BY <1>13, <1>t DEF CancelSMLDocument, Actors, At, sml, process
  <2>2. actor' = [actor EXCEPT ![c] = new]
    BY <1>13, <1>t, <2>1 DEF CancelSMLDocument, Goto
  <2>3. new \in ActorType /\ new.pc = "deciding" /\ new.row = actor[c].row
    BY <1>i, <2>1, ActorRows DEF Steps
  <2>4. new.row = NoRow
    BY <1>i, <2>1, <2>3 DEF ActorsAgree, ActorOK, Holding
  <2> HIDE DEF new
  <2>5. actor' \in [Actors -> ActorType] /\ ActorsAgree' /\ CreatedIsKnown'
    BY <1>i, <2>1, <2>2, <2>3, <2>4, ActorMoves DEF Holding
  <2> QED
    BY <2>1, <2>5, <1>4
<1>14. ASSUME NEW c \in Calls, DecideStart(c) PROVE IInv'
  <2>1. /\ c \in Actors /\ c # Worker /\ actor[c].pc = "deciding" /\ actor[c].row = NoRow /\ up
        /\ UNCHANGED <<row, wire, cancellation, up>>
    <3>1. /\ c \in Actors /\ c # Worker /\ actor[c].pc = "deciding"
          /\ UNCHANGED <<row, wire, cancellation, up>>
      BY <1>14, <1>t DEF DecideStart, Actors, At, sml, process
    <3> QED
      BY <3>1, <1>i DEF ActorsAgree, ActorOK, Holding
  <2>2. \A b \in Actors : actor[b].pc \notin {"resuming", "inserting"}
    BY <1>14, <1>i DEF DecideStart, Locked, ActorsAgree, ActorOK, Actors
  <2>3. CASE Goto(c, "inserting")
    <3> DEFINE new == [actor[c] EXCEPT !.pc = "inserting"]
    <3>1. actor' = [actor EXCEPT ![c] = new]
      BY <1>t, <2>1, <2>3 DEF Goto
    <3>2. new \in ActorType /\ new.pc = "inserting" /\ new.row = NoRow
      BY <1>i, <2>1, ActorRows DEF Steps
    <3> HIDE DEF new
    <3>3. actor' \in [Actors -> ActorType] /\ ActorsAgree' /\ CreatedIsKnown'
      BY <1>i, <2>1, <2>2, <3>1, <3>2, ActorMoves DEF Holding
    <3> QED
      BY <2>1, <3>3, <1>4
  <2>4. ASSUME NEW r \in Attempted, actor' = [actor EXCEPT ![c] = [pc |-> "resuming", row |-> r]]
        PROVE  IInv'
    <3> DEFINE new == [pc |-> "resuming", row |-> r]
    <3>1. r \in Rows /\ row[r].status \in {"failed", "blocked"} /\ r # NoRow
      BY <1>t DEF Attempted
    <3>2. new \in ActorType /\ new.pc = "resuming" /\ new.row = r
      BY <3>1 DEF ActorType, Steps
    <3>3. \A b \in Actors : actor[b].row # r
      BY <1>i, <2>2, <3>1 DEF ActorsAgree, ActorOK
    <3>4. actor' = [actor EXCEPT ![c] = new]
      BY <2>4
    <3> HIDE DEF new
    <3>5. actor' \in [Actors -> ActorType] /\ ActorsAgree' /\ CreatedIsKnown'
      BY <1>i, <2>1, <2>2, <3>1, <3>2, <3>3, <3>4, ActorMoves DEF Holding
    <3> QED
      BY <2>1, <3>5, <1>4
  <2> QED
    BY <1>14, <2>3, <2>4 DEF DecideStart
<1>15. ASSUME NEW c \in Calls, RefuseStart(c) PROVE IInv'
  BY <1>15, <1>5 DEF RefuseStart, sml, process, Actors
<1>16. ASSUME NEW c \in Calls, ResumeAttempt(c) PROVE IInv'
  <2>1. /\ c \in Actors /\ c # Worker /\ actor[c].pc = "resuming" /\ UNCHANGED <<wire, cancellation, up>>
        /\ Goto(c, "preparing")
    BY <1>16, <1>t DEF ResumeAttempt, Actors, At, sml, process
  <2>2. actor[c].row \in Rows /\ up
    BY <1>i, <1>a, <2>1 DEF ActorsAgree, ActorOK, Holding
  <2>3. PICK r \in Rows : r = actor[c].row
    BY <2>2
  <2> DEFINE v == [row[r] EXCEPT !.status = "creating", !.leased = (r = AutoRow)]
             new == [actor[c] EXCEPT !.pc = "preparing"]
  <2>4. v \in RowShape /\ v.status = "creating" /\ v.docNo = row[r].docNo
    <3>1. "creating" \in Statuses /\ (r = AutoRow) \in BOOLEAN /\ row[r] \in RowShape
      BY <1>r DEF Statuses
    <3> QED
      BY <3>1, StatusRow
  <2>5. new \in ActorType /\ new.pc = "preparing" /\ new.row = r
    BY <1>i, <2>1, <2>3, ActorRows DEF Steps
  <2>6. Write(r, v) /\ actor' = [actor EXCEPT ![c] = new]
    BY <1>16, <1>t, <2>1, <2>3 DEF ResumeAttempt, Goto
  <2> HIDE DEF v, new
  <2>7. /\ row' \in [Rows -> RowShape] /\ wire' \subseteq Rows
        /\ cancellation' \in Rows \cup {NoRow} /\ RowsAgree'
        /\ row'[r].status = "creating" /\ \A s \in Rows \ {r} : row'[s] = row[s]
    BY <2>1, <2>4, <2>6, <1>1
  <2>8. \A b \in Actors \ {c} : actor[b].row # r
    BY <1>i, <1>t, <2>1, <2>3 DEF ActorsAgree, OneActorPerAttempt
  <2>9. \A b \in Actors \ {c} : actor[b].row # NoRow => row'[actor[b].row].status = row[actor[b].row].status
    BY <1>a, <2>7, <2>8
  <2>10. actor' \in [Actors -> ActorType] /\ ActorsAgree' /\ CreatedIsKnown'
    BY <1>i, <1>t, <2>1, <2>2, <2>5, <2>6, <2>7, <2>8, <2>9, ActorMoves DEF Holding
  <2> QED
    BY <2>7, <2>10 DEF IInv, Shape
<1>17. ASSUME NEW c \in Calls, StartAttempt(c) PROVE IInv'
  <2>1. /\ c \in Actors /\ c # Worker /\ actor[c].pc = "inserting" /\ UNCHANGED <<wire, cancellation, up>>
    BY <1>17, <1>t DEF StartAttempt, Actors, At, sml, process
  <2>2. PICK r \in ManualRows : /\ row[r].status = "none"
                                /\ Write(r, [NewRow EXCEPT !.status = "creating"])
                                /\ actor' = [actor EXCEPT ![c] = [pc |-> "preparing", row |-> r]]
    BY <1>17 DEF StartAttempt
  <2> DEFINE v == [NewRow EXCEPT !.status = "creating"]
             new == [pc |-> "preparing", row |-> r]
  <2>3. r \in Rows /\ r # NoRow /\ row[r].docNo = NoRow /\ up
    <3>1. r \in Rows
      BY DEF Rows
    <3> QED
      BY <1>i, <1>t, <2>1, <2>2, <3>1 DEF RowsAgree, NoneIsNew, ActorsAgree, ActorOK
  <2>4. v \in RowShape /\ v.status = "creating" /\ v.docNo = NoRow
    BY InsertedRow DEF Statuses
  <2>5. new \in ActorType /\ new.pc = "preparing" /\ new.row = r
    BY <2>3 DEF ActorType, Steps
  <2>6. Write(r, v) /\ actor' = [actor EXCEPT ![c] = new]
    BY <2>2
  <2> HIDE DEF v, new
  <2>7. /\ row' \in [Rows -> RowShape] /\ wire' \subseteq Rows
        /\ cancellation' \in Rows \cup {NoRow} /\ RowsAgree'
        /\ row'[r].status = "creating" /\ \A s \in Rows \ {r} : row'[s] = row[s]
    BY <2>1, <2>3, <2>4, <2>6, <1>1
  <2>8. \A b \in Actors : actor[b].row # r
    BY <1>i, <2>2, <2>3 DEF ActorsAgree, ActorOK
  <2>9. \A b \in Actors \ {c} : actor[b].row # NoRow => row'[actor[b].row].status = row[actor[b].row].status
    BY <1>a, <2>7, <2>8
  <2>10. actor' \in [Actors -> ActorType] /\ ActorsAgree' /\ CreatedIsKnown'
    BY <1>i, <2>1, <2>3, <2>5, <2>6, <2>7, <2>8, <2>9, ActorMoves DEF Holding
  <2> QED
    BY <2>7, <2>10 DEF IInv, Shape
<1>18. ASSUME NEW c \in Calls, CallFails(c) PROVE IInv'
  <2>1. /\ c \in Actors /\ actor[c].pc \in Holding /\ Rest(c) /\ UNCHANGED <<wire, cancellation, up>>
    BY <1>18 DEF CallFails, Actors, At, Holding, sml, process
  <2>2. PICK r \in Rows : r = actor[c].row
    BY <1>a, <2>1
  <2> DEFINE v == [row[r] EXCEPT !.status = "failed", !.leased = FALSE]
  <2>3. v \in RowShape /\ v.status = "failed" /\ v.docNo = row[r].docNo
    BY <1>r, StatusRow DEF Statuses
  <2>4. Write(actor[c].row, v)
    BY <1>18, <2>2 DEF CallFails
  <2> HIDE DEF v
  <2> QED
    BY <2>1, <2>2, <2>3, <2>4, <1>3
\* The attempt.
<1>19. ASSUME NEW a \in Actors, PrepareSMLCancellationCreate(a) PROVE IInv'
  <2>1. actor[a].pc \in Holding /\ UNCHANGED <<actor, wire, cancellation, up>>
    BY <1>19 DEF PrepareSMLCancellationCreate, At, Holding, sml, process
  <2>2. PICK r \in Rows : r = actor[a].row
    BY <1>a, <2>1
  <2> DEFINE v == [row[r] EXCEPT !.docNo = r]
  <2>3. Write(r, v) /\ row[r].docNo = NoRow /\ row[r].status = "creating"
    BY <1>19, <2>2 DEF PrepareSMLCancellationCreate
  <2>4. v \in RowShape /\ v.status = "creating" /\ v.docNo = r
    BY <1>r, <2>3, PreparedRow
  <2> HIDE DEF v
  <2>5. /\ row' \in [Rows -> RowShape] /\ wire' \subseteq Rows
        /\ cancellation' \in Rows \cup {NoRow} /\ RowsAgree'
        /\ row'[r].status = "creating" /\ \A s \in Rows \ {r} : row'[s] = row[s]
    BY <2>1, <2>3, <2>4, <1>1
  <2>6. \A b \in Actors : actor[b].row # NoRow => row'[actor[b].row].status = row[actor[b].row].status
    BY <1>a, <2>3, <2>5
  <2>7. ActorsAgree' /\ CreatedIsKnown'
    BY <1>i, <2>1, <2>6, NoActorMoves
  <2> QED
    BY <1>t, <2>1, <2>5, <2>7 DEF IInv, Shape
<1>20. ASSUME NEW a \in Actors, PrepareFails(a) PROVE IInv'
  <2>1. actor[a].pc \in Holding /\ UNCHANGED <<row, wire, cancellation, up>>
    BY <1>20 DEF PrepareFails, At, Holding, sml, process
  <2>2. PICK pc \in {"blocking", "failing"} : Goto(a, pc)
    BY <1>20 DEF PrepareFails
  <2> QED
    BY <2>1, <2>2, <1>6 DEF Holding
<1>21. ASSUME NEW a \in Actors, Create(a) PROVE IInv'
  <2>1. actor[a].pc \in Holding /\ UNCHANGED <<row, cancellation, up>> /\ Goto(a, "waiting")
    BY <1>21 DEF Create, Ready, At, Holding, process
  <2>2. PICK r \in Rows : r = actor[a].row
    BY <1>a, <2>1
  <2>3. wire' = wire \cup {r} /\ row[r].docNo # NoRow
    BY <1>21, <2>2 DEF Create, Ready
  <2>4. RowsAgree'
    BY <1>i, <2>1, <2>3 DEF RowsAgree, NoneIsNew, SuccessesAgree, Succeeded, RequestIsStored
  <2>5. actor' \in [Actors -> ActorType] /\ ActorsAgree' /\ CreatedIsKnown'
    BY <1>i, <2>1, ActorGoesOn DEF Holding
  <2> QED
    BY <1>t, <2>1, <2>3, <2>4, <2>5 DEF IInv, Shape
<1>22. ASSUME NEW a \in Actors, NoAnswer(a) PROVE IInv'
  <2>1. actor[a].pc \in Holding /\ UNCHANGED <<row, wire, cancellation, up>>
    BY <1>22 DEF NoAnswer, At, Holding, sml, process
  <2>2. Outcome(a, "transient") \in {"failing", "retrying"}
    BY DEF Outcome
  <2>3. PICK pc \in {"failing", "retrying"} : Goto(a, pc)
    BY <1>22, <2>2 DEF NoAnswer
  <2> QED
    BY <2>1, <2>3, <1>6 DEF Holding
<1>23. ASSUME NEW a \in Actors, CompleteSMLCancellation(a) PROVE IInv'
  <2>1. actor[a].pc \in Holding /\ UNCHANGED <<wire, cancellation, up>> /\ Rest(a) /\ cancellation # NoRow
    BY <1>23, <1>i DEF CompleteSMLCancellation, CreatedIsKnown, At, Holding, sml, process
  <2>2. PICK r \in Rows : r = actor[a].row
    BY <1>a, <2>1
  <2> DEFINE v == [row[r] EXCEPT !.status = "created", !.docNo = cancellation, !.leased = FALSE,
                                 !.recalc = RecalcAfter(@)]
  <2>3. Write(r, v) /\ Succeeded \subseteq {r}
    BY <1>23, <2>2 DEF CompleteSMLCancellation, DocNoAfter
  <2>4. v \in RowShape /\ v.status = "created" /\ v.docNo = cancellation
    <3>1. row[r] \in RowShape /\ RecalcAfter(row[r].recalc) \in Recalcs
      BY <1>r, <1>c
    <3> QED
      BY <1>t, <3>1 DEF RowShape, Statuses
  <2> HIDE DEF v
  <2>5. /\ row' \in [Rows -> RowShape] /\ row'[r].status = "created" /\ row'[r].docNo = cancellation
        /\ \A s \in Rows \ {r} : row'[s] = row[s]
    BY <1>i, <2>3, <2>4, WriteRow
  <2>6. NoneIsNew'
    BY <1>i, <2>5 DEF RowsAgree, NoneIsNew
  <2>7. SuccessesAgree'
    BY <2>1, <2>3, <2>5 DEF SuccessesAgree, Succeeded
  <2>8. RequestIsStored'
    BY <1>i, <1>t, <2>1, <2>5 DEF RowsAgree, RequestIsStored
  <2>9. actor' \in [Actors -> ActorType] /\ ActorsAgree' /\ CreatedIsKnown'
    BY <1>i, <2>1, <2>2, <2>5, ActorRests
  <2> QED
    BY <1>t, <2>1, <2>5, <2>6, <2>7, <2>8, <2>9 DEF IInv, Shape, RowsAgree
<1>24. ASSUME NEW a \in Actors, CompleteFails(a) PROVE IInv'
  <2>1. actor[a].pc \in Holding /\ UNCHANGED <<row, wire, cancellation, up>>
    BY <1>24 DEF CompleteFails, At, Holding, sml, process
  <2>2. CASE Goto(a, "retrying")
    BY <2>1, <2>2, <1>6 DEF Holding
  <2>3. CASE Rest(a)
    BY <2>1, <2>3, <1>5
  <2> QED
    BY <1>24, <2>2, <2>3 DEF CompleteFails
<1>25. ASSUME NEW a \in Actors, ContextEnds(a) PROVE IInv'
  BY <1>25, <1>5 DEF ContextEnds, sml, process
\* SML and the recalculation.
<1>26. ASSUME NEW r \in wire, SMLProcess(r) PROVE IInv'
  <2>1. PICK answer \in {"created", "rejected", "transient"} :
          /\ cancellation' = IF answer = "created" /\ cancellation = NoRow THEN r ELSE cancellation
          /\ actor' = [a \in Actors |-> IF At(a, "waiting") /\ actor[a].row = r
                                        THEN [actor[a] EXCEPT !.pc = Outcome(a, answer)] ELSE actor[a]]
    BY <1>26 DEF SMLProcess
  <2>2. UNCHANGED <<row, up>> /\ wire' = wire \ {r} /\ r \in Rows
    BY <1>26, <1>t DEF SMLProcess, process
  <2>3. \A a \in Actors : /\ Outcome(a, answer) \in {"created", "failing", "retrying", "blocking"}
                          /\ Outcome(a, answer) = "created" => answer = "created"
    BY DEF Outcome
  <2>4. /\ cancellation' \in Rows \cup {NoRow} /\ row[r].docNo # NoRow
        /\ cancellation # NoRow => cancellation' = cancellation
        /\ cancellation' \in {cancellation, r}
        /\ answer = "created" => cancellation' # NoRow
    BY <1>i, <1>t, <1>26, <2>1, <2>2 DEF RowsAgree, RequestIsStored
  <2>5. ASSUME NEW a \in Actors
        PROVE  /\ actor'[a] \in ActorType /\ actor'[a].row = actor[a].row
               /\ \/ actor'[a].pc = actor[a].pc
                  \/ /\ actor[a].pc = "waiting"
                     /\ actor'[a].pc \in {"created", "failing", "retrying", "blocking"}
                     /\ actor'[a].pc = "created" => answer = "created"
    <3> DEFINE pc == Outcome(a, answer)
    <3>1. pc \in Steps
      BY <2>3 DEF Steps
    <3>2. [actor[a] EXCEPT !.pc = pc] \in ActorType /\ [actor[a] EXCEPT !.pc = pc].pc = pc
          /\ [actor[a] EXCEPT !.pc = pc].row = actor[a].row
      BY <1>i, <3>1, ActorRows
    <3>3. pc \in {"created", "failing", "retrying", "blocking"} /\ (pc = "created" => answer = "created")
      BY <2>3
    <3>4. actor'[a] = IF At(a, "waiting") /\ actor[a].row = r THEN [actor[a] EXCEPT !.pc = pc] ELSE actor[a]
      BY <2>1
    <3> HIDE DEF pc
    <3> QED
      BY <1>a, <3>2, <3>3, <3>4 DEF At
  <2>6. actor' \in [Actors -> ActorType]
    BY <2>1, <2>5
  <2>7. RowsAgree'
    <3>1. NoneIsNew'
      BY <1>i, <2>2 DEF RowsAgree, NoneIsNew
    <3>2. SuccessesAgree'
      BY <1>i, <2>2, <2>4 DEF RowsAgree, SuccessesAgree, Succeeded
    <3>3. RequestIsStored'
      BY <1>i, <2>2, <2>4 DEF RowsAgree, RequestIsStored
    <3> QED
      BY <3>1, <3>2, <3>3 DEF RowsAgree
  <2>8. CreatedIsKnown'
    BY <1>i, <2>4, <2>5 DEF CreatedIsKnown, At
  <2>9. ActorsAgree'
    <3>1. \A a \in Actors : ActorOK(a)'
      BY <1>i, <2>2, <2>5 DEF ActorsAgree, ActorOK, Holding
    <3>2. OneHoldsLock' /\ OneActorPerAttempt'
      BY <1>i, <2>5 DEF ActorsAgree, OneHoldsLock, OneActorPerAttempt
    <3> QED
      BY <3>1, <3>2 DEF ActorsAgree
  <2> QED
    BY <1>t, <2>2, <2>4, <2>6, <2>7, <2>8, <2>9 DEF IInv, Shape
<1>27. ASSUME NEW r \in Rows, AnswerLost(r) PROVE IInv'
  <2>1. /\ UNCHANGED <<row, actor, up>> /\ wire' = wire \ {r} /\ r \in wire
        /\ cancellation' = IF cancellation = NoRow THEN r ELSE cancellation
    BY <1>27 DEF AnswerLost, process
  <2>2. /\ cancellation' \in Rows /\ cancellation' # NoRow /\ row[cancellation'].docNo # NoRow
        /\ cancellation # NoRow => cancellation' = cancellation
    BY <1>i, <1>t, <2>1 DEF RowsAgree, RequestIsStored
  <2>3. RowsAgree'
    BY <1>i, <2>1, <2>2 DEF RowsAgree, NoneIsNew, SuccessesAgree, Succeeded, RequestIsStored
  <2>4. CreatedIsKnown'
    BY <2>2 DEF CreatedIsKnown
  <2>5. ActorsAgree'
    BY <1>i, <2>1 DEF ActorsAgree, ActorOK, OneHoldsLock, OneActorPerAttempt
  <2> QED
    BY <1>t, <2>1, <2>2, <2>3, <2>4, <2>5 DEF IInv, Shape
<1>28. ASSUME NEW r \in Rows, LeaseStockRecalc(r) PROVE IInv'
  <2> DEFINE v == [row[r] EXCEPT !.recalc = "running", !.recalcs = @ + 1, !.recalcLeased = TRUE]
  <2>1. Write(r, v) /\ UNCHANGED <<wire, cancellation, up, actor>>
    BY <1>28 DEF LeaseStockRecalc, sml, process
  <2>2. v \in RowShape /\ v.status = row[r].status /\ v.docNo = row[r].docNo
    BY <1>r, ClaimedRow
  <2> HIDE DEF v
  <2> QED
    BY <2>1, <2>2, <1>2
\* A step that leaves all of it alone.
<1>29. ASSUME UNCHANGED <<row, wire, cancellation, up, actor>> PROVE IInv'
  <2>1. ActorsAgree' /\ CreatedIsKnown'
    BY <1>29, <1>i, NoActorMoves
  <2> QED
    BY <1>29, <1>t, <2>1, <1>4
<1>30. CASE ProcessStockRequest
  BY <1>30, <1>29 DEF ProcessStockRequest, process
<1>31. ASSUME CompleteStockRecalc \/ FailStockRecalc PROVE IInv'
  <2> DEFINE r == recalculator.row
  <2>1. UNCHANGED <<wire, cancellation, up, actor>>
    BY <1>31 DEF CompleteStockRecalc, FailStockRecalc, sml, process
  <2>2. CASE UNCHANGED row
    BY <2>1, <2>2, <1>29
  <2>3. ASSUME NEW q \in {"succeeded", "failed", "manual_reconciliation"},
               Write(r, [row[r] EXCEPT !.recalc = q, !.recalcLeased = FALSE])
        PROVE  IInv'
    <3>1. CASE r \in Rows
      <4> DEFINE v == [row[r] EXCEPT !.recalc = q, !.recalcLeased = FALSE]
      <4>1. q \in Recalcs /\ FALSE \in BOOLEAN /\ row[r] \in RowShape
        BY <1>r, <3>1 DEF Recalcs
      <4>2. v \in RowShape /\ v.status = row[r].status /\ v.docNo = row[r].docNo
        BY <4>1, RecalcRow
      <4>3. PICK u \in Rows : u = r
        BY <3>1
      <4>4. PICK x \in RowShape : x = v
        BY <4>2
      <4>5. Write(u, x)
        BY <2>3, <4>3, <4>4
      <4> QED
        BY <2>1, <4>2, <4>3, <4>4, <4>5, <1>2
    <3>2. CASE r \notin Rows
      <4>1. row' = row
        BY <1>t, <2>3, <3>2 DEF Write
      <4> QED
        BY <2>1, <4>1, <1>29
    <3> QED
      BY <3>1, <3>2
  <2>4. CASE CompleteStockRecalc
    BY <2>2, <2>3, <2>4 DEF CompleteStockRecalc
  <2>5. CASE FailStockRecalc
    BY <2>2, <2>3, <2>5 DEF FailStockRecalc
  <2> QED
    BY <1>31, <2>4, <2>5
\* Time and the process.
<1>32. ASSUME row' \in [Rows -> RowShape], UNCHANGED <<wire, cancellation>>,
              \A r \in Rows : row'[r].docNo = row[r].docNo /\ row'[r].status \in {row[r].status, "pending"}
       PROVE  RowsAgree'
  <2>1. NoneIsNew
    BY <1>i DEF RowsAgree
  <2>2. \A r \in Rows :
          /\ row[r].docNo # NoRow => row'[r].docNo # NoRow
          /\ row'[r].status = "none" => row'[r].docNo = NoRow
          /\ row'[r].status = "created" => row[r].status = "created" /\ row'[r].docNo = row[r].docNo
    BY <1>32, <2>1 DEF NoneIsNew
  <2> QED
    BY <1>32, <1>i, <1>t, <2>2, RowsKept
<1>33. ASSUME NEW r \in Rows, Timer(r) PROVE IInv'
  <2>1. UNCHANGED <<wire, cancellation, up, actor>>
    BY <1>33 DEF Timer, LeaseEnds, RecentEnds, RecalcLeaseEnds, sml, process
  <2>2. PICK v \in {[row[r] EXCEPT !.leased = FALSE], [row[r] EXCEPT !.recent = FALSE],
                    [row[r] EXCEPT !.recalcLeased = FALSE]} : row' = [row EXCEPT ![r] = v]
    BY <1>33, <1>t DEF Timer, LeaseEnds, RecentEnds, RecalcLeaseEnds
  <2>3. v \in RowShape /\ v.status = row[r].status /\ v.docNo = row[r].docNo
    BY <1>r, TimedRow
  <2>4. /\ row' \in [Rows -> RowShape]
        /\ \A s \in Rows : row'[s].status = row[s].status /\ row'[s].docNo = row[s].docNo
    BY <1>t, <2>2, <2>3
  <2>5. RowsAgree'
    BY <2>1, <2>4, <1>32
  <2>6. \A b \in Actors : actor[b].row # NoRow => row'[actor[b].row].status = row[actor[b].row].status
    BY <1>a, <2>4
  <2>7. ActorsAgree' /\ CreatedIsKnown'
    BY <1>i, <2>1, <2>6, NoActorMoves
  <2> QED
    BY <1>t, <2>1, <2>4, <2>5, <2>7 DEF IInv, Shape
<1>34. CASE Stop
  <2>1. UNCHANGED <<row, wire, cancellation>> /\ actor' = [a \in Actors |-> Idle]
    BY <1>34 DEF Stop, sml
  <2>2. actor' \in [Actors -> ActorType] /\ \A a \in Actors : actor'[a].pc = "idle" /\ actor'[a].row = NoRow
    BY <2>1, IdleRow
  <2>3. ActorsAgree' /\ CreatedIsKnown'
    BY <2>2 DEF ActorsAgree, ActorOK, OneHoldsLock, OneActorPerAttempt, CreatedIsKnown, Holding, At
  <2>4. RowsAgree'
    BY <1>t, <2>1, <1>32
  <2> QED
    BY <1>t, <2>1, <2>2, <2>3, <2>4 DEF IInv, Shape
<1>35. CASE StartSMLCancellationWorkers
  <2>1. UNCHANGED <<wire, cancellation, actor>> /\ ~up /\ up' = TRUE /\ row' = [r \in Rows |-> Recovered(r)]
    BY <1>35 DEF StartSMLCancellationWorkers, sml
  <2>2. ASSUME NEW r \in Rows
        PROVE  /\ Recovered(r) \in RowShape /\ Recovered(r).docNo = row[r].docNo
               /\ Recovered(r).status \in {row[r].status, "pending"}
    <3> DEFINE status == IF r = AutoRow /\ row[r].status = "creating" /\ ~row[r].leased THEN "pending" ELSE row[r].status
               recalc == IF row[r].recalc = "running" /\ ~row[r].recalcLeased THEN "failed" ELSE row[r].recalc
    <3>1. row[r] \in RowShape
      BY <1>r
    <3>2. status \in Statuses /\ status \in {row[r].status, "pending"} /\ recalc \in Recalcs
      BY <3>1 DEF RowShape, Statuses, Recalcs
    <3>3. Recovered(r) = [row[r] EXCEPT !.status = status, !.recalc = recalc]
      BY <3>1 DEF Recovered, RowShape
    <3> HIDE DEF status, recalc
    <3> QED
      BY <3>1, <3>2, <3>3 DEF RowShape
  <2>3. /\ row' \in [Rows -> RowShape]
        /\ \A r \in Rows : row'[r].docNo = row[r].docNo /\ row'[r].status \in {row[r].status, "pending"}
    BY <2>1, <2>2
  <2>4. RowsAgree'
    BY <2>1, <2>3, <1>32
  <2>5. \A a \in Actors : actor[a].pc = "idle" /\ actor[a].row = NoRow
    BY <1>i, <2>1 DEF ActorsAgree, ActorOK, Holding
  <2>6. ActorsAgree' /\ CreatedIsKnown'
    BY <2>1, <2>5 DEF ActorsAgree, ActorOK, OneHoldsLock, OneActorPerAttempt, CreatedIsKnown, Holding, At
  <2> QED
    BY <1>t, <2>1, <2>3, <2>4, <2>6 DEF IInv, Shape
<1>36. CASE UNCHANGED vars
  BY <1>36, <1>29 DEF vars
<1>37. CASE JobStep
  BY <1>37, <1>8, <1>9, <1>10, <1>11, <1>12 DEF JobStep
<1>38. ASSUME NEW c \in Calls, CallStep(c) PROVE IInv'
  BY <1>38, <1>13, <1>14, <1>15, <1>16, <1>17, <1>18 DEF CallStep
<1>39. ASSUME NEW a \in Actors, AttemptStep(a) PROVE IInv'
  BY <1>39, <1>19, <1>20, <1>21, <1>22, <1>23, <1>24 DEF AttemptStep
<1>40. CASE RecalcStep
  BY <1>40, <1>28, <1>30, <1>31 DEF RecalcStep
<1>41. ASSUME NEW r \in Rows, SMLProcess(r) PROVE IInv'
  BY <1>41, <1>26 DEF SMLProcess
<1> QED
  BY <1>7, <1>25, <1>27, <1>33, <1>34, <1>35, <1>36, <1>37, <1>38, <1>39, <1>40, <1>41 DEF Next

-----------------------------------------------------------------------------
LEMMA Invariance == Spec => []IInv
BY InitIInv, NextIInv, PTL DEF Spec

(* Whatever crashes, is lost or races, a request that may be in SML is     *)
(* stored with its number.                                                 *)
THEOREM RequestsAreStored == Spec => []RequestIsStored
<1>1. IInv => RequestIsStored
  BY DEF IInv, RowsAgree
<1> QED
  BY <1>1, Invariance, PTL

(* The sale has one success at most, and it names SML's cancellation.      *)
THEOREM SuccessesAreInSML == Spec => []SuccessIsInSML
<1>1. IInv => SuccessIsInSML
  <2> SUFFICES ASSUME IInv PROVE SuccessIsInSML
    OBVIOUS
  <2>1. \A r \in Succeeded : cancellation # NoRow /\ row[r].docNo = cancellation
    BY DEF IInv, RowsAgree, SuccessesAgree
  <2>2. CASE Succeeded = {}
    BY <2>1, <2>2, FS_EmptySet DEF SuccessIsInSML
  <2>3. CASE Succeeded # {}
    <3>1. PICK r \in Succeeded : TRUE
      BY <2>3
    <3>2. Succeeded = {r}
      BY <3>1 DEF IInv, RowsAgree, SuccessesAgree
    <3>3. Cardinality(Succeeded) = 1
      BY <3>2, FS_Singleton
    <3> QED
      BY <2>1, <3>3 DEF SuccessIsInSML
  <2> QED
    BY <2>2, <2>3
<1> QED
  BY <1>1, Invariance, PTL

(* The job and the calls never work on the same attempt.                   *)
THEOREM OneActorAtATime == Spec => []OneActorPerAttempt
<1>1. IInv => OneActorPerAttempt
  BY DEF IInv, ActorsAgree
<1> QED
  BY <1>1, Invariance, PTL
=============================================================================
