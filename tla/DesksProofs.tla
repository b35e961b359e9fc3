---- MODULE DesksProofs ----
(***************************************************************************)
(* Proofs about the desks, for any rows and requests in flight: positions, *)
(* strategies, notifications, paper trades, orders, and the accounts of    *)
(* the platform with their second factor, password resets and sessions.    *)
(* For each, an inductive invariant says what the copies in flight have in *)
(* common with the rows.  The proofs about instances are in a module of    *)
(* their own (InstanceDeskProofs) and taken over here; at the end the      *)
(* desks take the steps of each.                                           *)
(***************************************************************************)
EXTENDS Desks, Induction, Sequences

-----------------------------------------------------------------------------
(* Positions in the database.                                               *)

\* The rows of the table of positions.
PositionRow == [product : Products, quantity : Int, is_active : BOOLEAN]

\* What the proof needs of the constants.
SavedOK ==
    /\ IsFiniteSet(SavedPositions)
    /\ NoRow \notin PositionRow
    /\ \A u \in PositionUpdates :
         /\ "product" \notin DOMAIN u
         /\ "quantity" \in DOMAIN u => u["quantity"] \in Int
         /\ "is_active" \in DOMAIN u => u["is_active"] \in BOOLEAN

\* What an upsert in flight has found, and will write.
UpsertFits(r) ==
    /\ call[r].op = "insert" => call[r].had = {} /\ call[r].new \in PositionRow
    /\ call[r].op = "change" =>
         /\ call[r].on \in SavedPositions /\ savedPositions[call[r].on] # NoRow
         /\ call[r].read \in PositionRow /\ call[r].new \in PositionRow
         /\ call[r].read.is_active
         /\ call[r].new.product = call[r].read.product

\* The active rows of a product are counted by the races on it.
SavedInv ==
    /\ DOMAIN savedPositions = SavedPositions
    /\ \A p \in SavedPositions : savedPositions[p] \in PositionRow \cup {NoRow}
    /\ DOMAIN call = Requests
    /\ \A r \in Requests : UpsertFits(r)
    /\ raced \in [Products -> Nat]
    /\ \A k \in Products : Cardinality(Saved!Active(k)) <= 1 + raced[k]

\* The active rows of a product can be counted.
LEMMA ActiveFinite ==
    ASSUME SavedOK, SavedInv, NEW k
    PROVE  IsFiniteSet(Saved!Active(k)) /\ Cardinality(Saved!Active(k)) \in Nat
<1>1. Saved!Active(k) \subseteq SavedPositions
  BY DEF SavedInv, Saved!Active, Saved!Rows
<1>2. QED
  BY <1>1, FS_Subset, FS_CardinalityType DEF SavedOK

\* A call that begins: every other one keeps what it has.
LEMMA CallBegins ==
    ASSUME SavedInv, NEW r \in Requests, NEW what, Saved!Begins(r, what),
           UNCHANGED <<savedPositions, raced>>,
           what.op = "insert" => what.had = {} /\ what.new \in PositionRow,
           what.op = "change" =>
             /\ what.on \in SavedPositions /\ savedPositions[what.on] # NoRow
             /\ what.read \in PositionRow /\ what.new \in PositionRow
             /\ what.read.is_active /\ what.new.product = what.read.product
    PROVE  SavedInv'
<1>1. /\ DOMAIN call' = Requests
      /\ \A q \in Requests : call'[q] = IF q = r THEN what ELSE call[q]
  BY DEF SavedInv, Saved!Begins
<1>2. \A q \in Requests : UpsertFits(q)'
  BY <1>1 DEF SavedInv, UpsertFits
<1>3. \A k \in Products : Saved!Active(k)' = Saved!Active(k)
  BY DEF Saved!Active, Saved!Rows
<1>4. QED
  BY <1>1, <1>2, <1>3 DEF SavedInv

\* The tables of orders, trades and breaches are other tables.
LEMMA OtherTables ==
    ASSUME SavedInv, UNCHANGED <<savedPositions, raced>>,
           \/ UNCHANGED call
           \/ \E r \in Requests : Saved!Returns(r)
    PROVE  SavedInv'
<1>1. /\ DOMAIN call' = Requests
      /\ \A q \in Requests : call'[q] \in {call[q], Saved!Unused}
  BY DEF SavedInv, Saved!Returns
<1>2. \A q \in Requests : UpsertFits(q)'
  <2>1. ASSUME NEW q \in Requests PROVE UpsertFits(q)'
    <3>1. CASE call'[q] = call[q]
      BY <3>1 DEF SavedInv, UpsertFits
    <3>2. CASE call'[q] = Saved!Unused
      BY <3>2 DEF UpsertFits, Saved!Unused
    <3>3. QED
      BY <1>1, <3>1, <3>2
  <2>2. QED
    BY <2>1
<1>3. \A k \in Products : Saved!Active(k)' = Saved!Active(k)
  BY DEF Saved!Active, Saved!Rows
<1>4. QED
  BY <1>1, <1>2, <1>3 DEF SavedInv

\* An upsert finds an active row or none.
LEMMA UpsertReads ==
    ASSUME SavedOK, SavedInv, NEW r \in Requests, Saved!UpsertPosition(r)
    PROVE  SavedInv'
<1>1. UNCHANGED <<savedPositions, raced>>
  BY DEF Saved!UpsertPosition
<1>2. PICK k \in Products, u \in PositionUpdates :
        \/ \E p \in Saved!Active(k) :
             Saved!Begins(r, [op |-> "change", on |-> p, read |-> savedPositions[p],
                              new |-> Saved!With(savedPositions[p], u)])
        \/ /\ Saved!Active(k) = {}
           /\ Saved!Begins(r, [op |-> "insert", had |-> Saved!Active(k),
                new |-> Saved!With([product |-> k, quantity |-> 0, is_active |-> TRUE], u)])
  BY DEF Saved!UpsertPosition, Saved!Find
<1>3. ASSUME NEW row \in PositionRow
      PROVE  Saved!With(row, u) \in PositionRow /\ Saved!With(row, u).product = row.product
  <2>1. /\ "product" \notin DOMAIN u
        /\ "quantity" \in DOMAIN u => u["quantity"] \in Int
        /\ "is_active" \in DOMAIN u => u["is_active"] \in BOOLEAN
    BY DEF SavedOK
  <2>2. Saved!With(row, u) =
          [product |-> row.product,
           quantity |-> IF "quantity" \in DOMAIN u THEN u["quantity"] ELSE row.quantity,
           is_active |-> IF "is_active" \in DOMAIN u THEN u["is_active"] ELSE row.is_active]
    BY <2>1 DEF Saved!With, PositionRow
  <2>3. QED
    BY <2>1, <2>2 DEF PositionRow
<1>4. CASE \E p \in Saved!Active(k) :
             Saved!Begins(r, [op |-> "change", on |-> p, read |-> savedPositions[p],
                              new |-> Saved!With(savedPositions[p], u)])
  <2>1. PICK p \in Saved!Active(k) :
             Saved!Begins(r, [op |-> "change", on |-> p, read |-> savedPositions[p],
                              new |-> Saved!With(savedPositions[p], u)])
    BY <1>4
  <2>2. /\ p \in SavedPositions /\ savedPositions[p] # NoRow
        /\ savedPositions[p] \in PositionRow /\ savedPositions[p].is_active
    BY DEF Saved!Active, Saved!Rows, SavedInv
  <2>3. QED
    BY <1>1, <1>3, <2>1, <2>2, CallBegins
<1>5. CASE /\ Saved!Active(k) = {}
           /\ Saved!Begins(r, [op |-> "insert", had |-> Saved!Active(k),
                new |-> Saved!With([product |-> k, quantity |-> 0, is_active |-> TRUE], u)])
  <2>1. [product |-> k, quantity |-> 0, is_active |-> TRUE] \in PositionRow
    BY DEF PositionRow
  <2>2. QED
    BY <1>1, <1>3, <1>5, <2>1, CallBegins
<1>6. QED
  BY <1>2, <1>4, <1>5

\* The commit of a change keeps the product, and makes no row active.
LEMMA FlushOfPosition ==
    ASSUME NEW row \in PositionRow, NEW read \in PositionRow, NEW new \in PositionRow,
           new.product = read.product, read.is_active
    PROVE  /\ Saved!Flush(row, read, new) \in PositionRow
           /\ Saved!Flush(row, read, new).product = row.product
           /\ Saved!Flush(row, read, new).is_active => row.is_active
<1> DEFINE after == Saved!Flush(row, read, new)
<1>1. /\ after = [c \in {"product", "quantity", "is_active"} |->
                     IF new[c] = read[c] THEN row[c] ELSE new[c]]
      /\ after.product = row.product
      /\ after.is_active = IF new.is_active = read.is_active THEN row.is_active
                           ELSE new.is_active
  <2>1. DOMAIN row = {"product", "quantity", "is_active"}
    BY DEF PositionRow
  <2>2. QED
    BY <2>1 DEF Saved!Flush
<1> HIDE DEF after
<1>2. after \in PositionRow /\ after.product = row.product
  BY <1>1 DEF PositionRow
<1>3. ASSUME after.is_active PROVE row.is_active
  <2>1. /\ read.is_active = TRUE /\ new.is_active \in {TRUE, FALSE} /\ after.is_active = TRUE
        /\ row.is_active \in {TRUE, FALSE}
    BY <1>2, <1>3 DEF PositionRow
  <2>2. CASE new.is_active = TRUE
    BY <1>1, <2>1, <2>2
  <2>3. CASE new.is_active = FALSE
    <3>1. after.is_active = FALSE
      BY <1>1, <2>1, <2>3
    <3>2. QED
      BY <2>1, <3>1
  <2>4. QED
    BY <2>1, <2>2, <2>3
<1>4. QED
  BY <1>2, <1>3 DEF after

\* The commit of a change.
LEMMA UpsertChanges ==
    ASSUME SavedOK, SavedInv, NEW r \in Requests, Saved!PositionChanged(r)
    PROVE  SavedInv'
<1> DEFINE p == call[r].on
<1>1. /\ p \in SavedPositions /\ savedPositions[p] \in PositionRow
      /\ call[r].read \in PositionRow /\ call[r].new \in PositionRow
      /\ call[r].read.is_active /\ call[r].new.product = call[r].read.product
  BY DEF Saved!PositionChanged, SavedInv, UpsertFits
<1>2. PICK row \in PositionRow :
        /\ savedPositions' = [savedPositions EXCEPT ![p] = row]
        /\ row.product = savedPositions[p].product
        /\ row.is_active => savedPositions[p].is_active
  BY <1>1, FlushOfPosition DEF Saved!PositionChanged
<1>3. call' = [call EXCEPT ![r] = Saved!Unused] /\ raced' = raced
  BY DEF Saved!PositionChanged, Saved!Returns
<1>4. row # NoRow
  BY DEF SavedOK
<1>6. /\ DOMAIN savedPositions' = SavedPositions
      /\ \A q \in SavedPositions : savedPositions'[q] = IF q = p THEN row ELSE savedPositions[q]
      /\ DOMAIN call' = Requests
      /\ \A q \in Requests : call'[q] = IF q = r THEN Saved!Unused ELSE call[q]
  BY <1>2, <1>3 DEF SavedInv
<1>7. \A k \in Products : Saved!Active(k)' \subseteq Saved!Active(k)
  <2>1. savedPositions[p] # NoRow
    BY <1>1 DEF SavedOK
  <2>2. QED
    BY <1>1, <1>2, <1>6, <2>1 DEF Saved!Active, Saved!Rows, SavedInv
<1>8. \A k \in Products : Cardinality(Saved!Active(k)') <= 1 + raced'[k]
  <2>1. \A k \in Products : Cardinality(Saved!Active(k)') <= Cardinality(Saved!Active(k))
                            /\ Cardinality(Saved!Active(k)') \in Nat
    BY <1>7, ActiveFinite, FS_Subset, FS_CardinalityType
  <2>2. QED
    BY <1>3, <2>1, ActiveFinite DEF SavedInv
<1>9. \A q \in Requests : UpsertFits(q)'
  BY <1>4, <1>6 DEF SavedInv, UpsertFits, Saved!Unused
<1>10. QED
  BY <1>3, <1>6, <1>8, <1>9 DEF SavedInv

\* The commit of an insert: one row more, and one race more where another was there.
LEMMA UpsertInserts ==
    ASSUME SavedOK, SavedInv, NEW r \in Requests, Saved!PositionInserted(r)
    PROVE  SavedInv'
<1>1. PICK new \in PositionRow, k0 \in Products :
        new = call[r].new /\ k0 = new.product /\ call[r].had = {}
  BY DEF Saved!PositionInserted, SavedInv, UpsertFits, PositionRow
<1>2. PICK p \in SavedPositions :
        /\ savedPositions[p] = NoRow
        /\ savedPositions' = [savedPositions EXCEPT ![p] = new]
  BY <1>1 DEF Saved!PositionInserted, Saved!Rows, SavedInv
<1>3. /\ raced' = [raced EXCEPT ![k0] =
                     IF Saved!Active(k0) \subseteq {} THEN raced[k0] ELSE raced[k0] + 1]
      /\ call' = [call EXCEPT ![r] = Saved!Unused]
  BY <1>1 DEF Saved!PositionInserted, Saved!Returns
<1>4. /\ DOMAIN savedPositions' = SavedPositions
      /\ \A q \in SavedPositions : savedPositions'[q] = IF q = p THEN new ELSE savedPositions[q]
      /\ DOMAIN call' = Requests
      /\ \A q \in Requests : call'[q] = IF q = r THEN Saved!Unused ELSE call[q]
  BY <1>2, <1>3 DEF SavedInv
<1>5. /\ raced[k0] \in Nat
      /\ raced'[k0] = IF Saved!Active(k0) = {} THEN raced[k0] ELSE raced[k0] + 1
      /\ \A k \in Products \ {k0} : raced'[k] = raced[k]
      /\ DOMAIN raced' = Products
  BY <1>3 DEF SavedInv
<1>6. raced' \in [Products -> Nat]
  BY <1>3, <1>5 DEF SavedInv
<1>7. \A k \in Products : Cardinality(Saved!Active(k)') <= 1 + raced'[k]
  <2>1. ASSUME NEW k \in Products, k # k0
        PROVE  Cardinality(Saved!Active(k)') <= 1 + raced'[k]
    <3>1. Saved!Active(k)' = Saved!Active(k)
      BY <1>1, <1>2, <1>4, <2>1 DEF Saved!Active, Saved!Rows, SavedInv
    <3>2. raced'[k] = raced[k]
      BY <1>5, <2>1
    <3>3. QED
      BY <3>1, <3>2 DEF SavedInv
  <2>2. Cardinality(Saved!Active(k0)') <= 1 + raced'[k0]
    <3> DEFINE A == Saved!Active(k0)
    <3>1. Saved!Active(k0)' \subseteq A \cup {p}
      BY <1>4 DEF Saved!Active, Saved!Rows, SavedInv
    <3>2. IsFiniteSet(A) /\ Cardinality(A) \in Nat
      BY ActiveFinite
    <3>4. Cardinality(Saved!Active(k0)') <= Cardinality(A) + 1
      <4> HIDE DEF A
      <4>1. /\ IsFiniteSet(A \cup {p})
            /\ \/ Cardinality(A \cup {p}) = Cardinality(A)
               \/ Cardinality(A \cup {p}) = Cardinality(A) + 1
        BY <3>2, FS_AddElement
      <4>2. Cardinality(Saved!Active(k0)') <= Cardinality(A \cup {p})
            /\ IsFiniteSet(Saved!Active(k0)')
        BY <3>1, <4>1, FS_Subset
      <4>3. QED
        BY <3>2, <4>1, <4>2, FS_CardinalityType
    <3>5. IsFiniteSet(Saved!Active(k0)') /\ Cardinality(Saved!Active(k0)') \in Nat
      <4>1. Saved!Active(k0)' \subseteq SavedPositions
        BY <1>4 DEF Saved!Active, Saved!Rows
      <4>2. QED
        BY <4>1, FS_Subset, FS_CardinalityType DEF SavedOK
    <3>6. CASE A = {}
      BY <1>5, <3>4, <3>5, <3>6, FS_EmptySet
    <3>7. CASE A # {}
      BY <1>5, <3>2, <3>4, <3>5, <3>7 DEF SavedInv
    <3>8. QED
      BY <3>6, <3>7
  <2>3. QED
    BY <2>1, <2>2
<1>8. \A q \in Requests : UpsertFits(q)'
  <2>1. NoRow # new
    BY <1>1 DEF SavedOK
  <2>2. QED
    BY <1>4, <2>1 DEF SavedInv, UpsertFits, Saved!Unused
<1>9. QED
  BY <1>4, <1>6, <1>7, <1>8 DEF SavedInv

\* Every step.
LEMMA SavedSteps ==
    ASSUME SavedOK, SavedInv, [Saved!RepositoryStep]_(Saved!rvars)
    PROVE  SavedInv'
<1>1. CASE UNCHANGED Saved!rvars
  BY <1>1, OtherTables DEF Saved!rvars
<1>2. CASE Saved!CreateOrder \/ Saved!CreateEntry
  BY <1>2, OtherTables DEF Saved!CreateOrder, Saved!CreateEntry
<1>3. ASSUME NEW r \in Requests, Saved!UpdateOrder(r) \/ Saved!SettleEntry(r)
      PROVE  SavedInv'
  <2>1. UNCHANGED <<savedPositions, raced>>
    BY <1>3 DEF Saved!UpdateOrder, Saved!SettleEntry
  <2>2. CASE Saved!UpdateOrder(r)
    BY <2>1, <2>2, CallBegins DEF Saved!UpdateOrder
  <2>3. CASE Saved!SettleEntry(r)
    BY <2>1, <2>3, CallBegins DEF Saved!SettleEntry
  <2>4. QED
    BY <1>3, <2>2, <2>3
<1>4. ASSUME NEW r \in Requests, Saved!OrderUpdated(r) \/ Saved!EntrySettled(r)
      PROVE  SavedInv'
  BY <1>4, OtherTables DEF Saved!OrderUpdated, Saved!EntrySettled
<1>5. ASSUME NEW r \in Requests,
             \/ Saved!UpsertPosition(r) \/ Saved!PositionChanged(r) \/ Saved!PositionInserted(r)
      PROVE  SavedInv'
  BY <1>5, UpsertReads, UpsertChanges, UpsertInserts
<1>6. QED
  BY <1>1, <1>2, <1>3, <1>4, <1>5 DEF Saved!RepositoryStep

\* The first state.
LEMMA SavedStarts == Saved!RepositoryInit => SavedInv
<1>1. ASSUME Saved!RepositoryInit PROVE \A k : Saved!Active(k) = {}
  BY <1>1 DEF Saved!RepositoryInit, Saved!Active, Saved!Rows
<1>2. Cardinality({}) = 0
  BY FS_EmptySet
<1>3. SUFFICES ASSUME Saved!RepositoryInit PROVE SavedInv
  OBVIOUS
<1>4. \A k \in Products : Cardinality(Saved!Active(k)) <= 1 + raced[k]
  BY <1>1, <1>2, <1>3 DEF Saved!RepositoryInit
<1>5. \A r \in Requests : UpsertFits(r)
  BY <1>3 DEF Saved!RepositoryInit, UpsertFits, Saved!Unused
<1>6. QED
  BY <1>3, <1>4, <1>5 DEF Saved!RepositoryInit, SavedInv

-----------------------------------------------------------------------------
(* Strategies.                                                              *)

\* What the proof needs of the constants.
StrategyOK ==
    /\ IsFiniteSet(Requests)
    /\ NoRow \notin Strategy!Strategy
    /\ \A p \in Parameters :
         p.entry \in {"none", "entry", "entry_conditions"} /\ p.stop \in BOOLEAN
    /\ \A e \in Edits :
         /\ "approved" \notin DOMAIN e
         /\ "name" \in DOMAIN e => e["name"] \in Names
         /\ "status" \in DOMAIN e => e["status"] \in Strategy!Status
         /\ "entry" \in DOMAIN e => e["entry"] \in {"none", "entry", "entry_conditions"}
         /\ "stop" \in DOMAIN e => e["stop"] \in BOOLEAN

\* What a handler may make of a row, as far as the properties go.
MayBecome(op, read, new) ==
    /\ op \in {"delete", "kill", "global-kill", "transition", "backtest", "approve", "update"}
    /\ op = "delete" => new = read
    /\ op \in {"kill", "global-kill"} =>
         new["status"] = "stopped" /\ new["approved"] = read["approved"]
    /\ op = "transition" =>
         /\ read["status"] # "stopped" /\ new["approved"] = read["approved"]
         /\ new["status"] = "live" => read["approved"] = TRUE
    /\ op = "backtest" =>
         /\ new["approved"] = read["approved"]
         /\ new["status"] = "live" => read["status"] = "live"
    /\ op = "approve" => (new["approved"] = TRUE => new["status"] = "live")
    /\ op = "update" => new["approved"] = read["approved"]

\* A row that is live or approved.
Trusted(row) == row["status"] = "live" \/ row["approved"] = TRUE

\* What a handler makes of a row is a row, and what its kind allows.
LEMMA OutcomesFit ==
    ASSUME StrategyOK, NEW op \in Strategy!Handlers, NEW row \in Strategy!Strategy,
           NEW new \in Strategy!Outcomes(op, row)
    PROVE  new \in Strategy!Strategy /\ MayBecome(op, row, new)
<1>1. row.status # "running" /\ row.status \in Strategy!Status
  BY DEF Strategy!Strategy, Strategy!Status
<1>2. \A status \in Strategy!Status :
        /\ Strategy!Set(row, status) \in Strategy!Strategy
        /\ Strategy!Set(row, status)["status"] = status
        /\ Strategy!Set(row, status)["approved"] = row["approved"]
  BY DEF Strategy!Set, Strategy!Strategy
<1>3. CASE op = "update"
  <2>1. PICK e \in Edits : new = Strategy!With(row, e)
    BY <1>1, <1>3 DEF Strategy!Outcomes, Strategy!UpdateStrategy
  <2>2. /\ DOMAIN row = {"name", "status", "approved", "entry", "stop"}
        /\ new = [c \in {"name", "status", "approved", "entry", "stop"} |->
                     IF c \in DOMAIN e THEN e[c] ELSE row[c]]
    BY <2>1 DEF Strategy!With, Strategy!Strategy
  <2>3. new["approved"] = row["approved"]
    BY <2>2 DEF StrategyOK
  <2>4. new \in Strategy!Strategy
    BY <2>2 DEF StrategyOK, Strategy!Strategy
  <2>5. QED
    BY <1>3, <2>3, <2>4 DEF MayBecome
<1>4. CASE op \in {"delete", "activate", "clone", "deactivate"}
  <2>1. op = "delete" /\ new = row
    BY <1>1, <1>4 DEF Strategy!Outcomes, Strategy!DeleteStrategy, Strategy!ActivateStrategy,
       Strategy!CloneStrategy, Strategy!DeactivateStrategy
  <2>2. QED
    BY <2>1 DEF MayBecome
<1>5. CASE op = "kill"
  <2>1. new = Strategy!Set(row, "stopped")
    BY <1>5 DEF Strategy!Outcomes, Strategy!KillSwitch
  <2>2. QED
    BY <1>2, <1>5, <2>1 DEF MayBecome, Strategy!Status
<1>6. CASE op = "backtest"
  <2>1. new \in {row, Strategy!Set(row, "backtested")}
    BY <1>6 DEF Strategy!Outcomes, Strategy!BacktestStrategy
  <2>2. QED
    BY <1>2, <1>6, <2>1 DEF MayBecome, Strategy!Status
<1>7. CASE op = "transition"
  <2>1. PICK t \in Strategy!Status : new \in Strategy!TransitionState(row, t)
    BY <1>7 DEF Strategy!Outcomes
  <2>2. /\ <<row.status, t>> \in Strategy!TRANSITIONS
        /\ t = "live" => row.approved
        /\ new = Strategy!Set(row, t)
    BY <2>1 DEF Strategy!TransitionState, Strategy!RequirementsMet
  <2>3. row.status # "stopped"
    BY <2>2 DEF Strategy!TRANSITIONS
  <2>4. row["approved"] \in BOOLEAN
    BY DEF Strategy!Strategy
  <2>5. QED
    BY <1>2, <1>7, <2>2, <2>3, <2>4 DEF MayBecome
<1>8. CASE op = "approve"
  <2>1. PICK yes \in BOOLEAN : new = [row EXCEPT !.approved = yes,
                                                 !.status = IF yes THEN "live" ELSE @]
    BY <1>8 DEF Strategy!Outcomes, Strategy!ApproveStrategy
  <2>2. new \in Strategy!Strategy /\ new["approved"] = yes /\ (yes => new["status"] = "live")
    BY <2>1 DEF Strategy!Strategy, Strategy!Status
  <2>3. QED
    BY <1>8, <2>2 DEF MayBecome
<1>9. QED
  BY <1>3, <1>4, <1>5, <1>6, <1>7, <1>8 DEF Strategy!Handlers

\* What a commit makes of a row.
LEMMA FlushOfStrategy ==
    ASSUME NEW row \in Strategy!Strategy, NEW read \in Strategy!Strategy,
           NEW new \in Strategy!Strategy
    PROVE  /\ Strategy!Flush(row, read, new) \in Strategy!Strategy
           /\ Strategy!Flush(row, read, new)["status"] =
                IF new["status"] = read["status"] THEN row["status"] ELSE new["status"]
           /\ Strategy!Flush(row, read, new)["approved"] =
                IF new["approved"] = read["approved"] THEN row["approved"] ELSE new["approved"]
<1> DEFINE after == Strategy!Flush(row, read, new)
<1>1. /\ DOMAIN row = {"name", "status", "approved", "entry", "stop"}
      /\ after = [c \in {"name", "status", "approved", "entry", "stop"} |->
                     IF new[c] = read[c] THEN row[c] ELSE new[c]]
  BY DEF Strategy!Flush, Strategy!Strategy
<1> HIDE DEF after
<1>2. after \in Strategy!Strategy
  BY <1>1 DEF Strategy!Strategy
<1>3. QED
  BY <1>1, <1>2 DEF after
\* The rows a request in flight has read.
Found(r) == DOMAIN strategyRequest[r].read

\* The request will insert its rows.
Creates(r) == strategyRequest[r].op = "create"

\* A request that assigns reads one strategy; the others will write what they read.
StrategyFits(r) ==
    strategyRequest[r] # Strategy!Idle =>
      /\ Found(r) \subseteq Strategies
      /\ ~Creates(r) => \A s \in Found(r) : strategies[s] # NoRow
      /\ strategyRequest[r].op = "assign" => \E s \in Strategies : Found(r) = {s}
      /\ strategyRequest[r].op # "assign" => DOMAIN strategyRequest[r].new = Found(r)

\* What a request will write to the row of s.
WriteFits(r, s) ==
    LET read == strategyRequest[r].read[s]
        new == strategyRequest[r].new[s]
    IN  /\ new \in Strategy!Strategy
        /\ IF Creates(r)
           THEN read = NoRow /\ strategies[s] = NoRow /\ ~Trusted(new)
           ELSE /\ read \in Strategy!Strategy
                /\ MayBecome(strategyRequest[r].op, read, new)
                /\ Trusted(read) => s \in vouched

\* A strategy is created by one request.
CreatedApart ==
    \A q, r \in Requests :
        (q # r /\ strategyRequest[q] # Strategy!Idle /\ strategyRequest[r] # Strategy!Idle
         /\ Creates(q)) =>
            Found(q) \cap Found(r) = {}

\* What is live or approved, an administrator has vouched for.
RowsVouched ==
    \A s \in Strategies : strategies[s] # NoRow =>
        /\ strategies[s] \in Strategy!Strategy
        /\ Trusted(strategies[s]) => s \in vouched

\* The request will write rows.
Writes(r) == strategyRequest[r] # Strategy!Idle /\ strategyRequest[r].op # "assign"

\* The inductive invariant of the life cycle.
StrategyInv ==
    /\ DOMAIN strategies = Strategies /\ DOMAIN strategyRequest = Requests
    /\ RowsVouched
    /\ \A r \in Requests : StrategyFits(r)
    /\ \A r \in Requests : Writes(r) => \A s \in Found(r) : WriteFits(r, s)
    /\ CreatedApart

\* The action of StrategyDesk!KilledStaysStopped.
KilledStays ==
    \A s \in Strategy!Existing :
         (strategies[s].status = "stopped" /\ strategies'[s].status # "stopped") =>
            \E r \in Requests :
              /\ strategyRequest'[r] = Strategy!Idle /\ strategyRequest[r] # Strategy!Idle
              /\ s \in DOMAIN strategyRequest[r].read
              /\ \/ strategyRequest[r].op \in {"backtest", "approve", "update"}
                 \/ strategyRequest[r].op = "transition"
                    /\ strategyRequest[r].read[s].status # "stopped"
              /\ strategyRequest[r].new[s].status # strategyRequest[r].read[s].status
              /\ strategies'[s].status = strategyRequest[r].new[s].status

\* A request that begins: what is to be shown of it, for the others keep what they have.
LEMMA StrategyBegins ==
    ASSUME StrategyInv, NEW r \in Requests, NEW what,
           UNCHANGED <<strategies, vouched>>,
           strategyRequest' = [strategyRequest EXCEPT ![r] = what],
           what # Strategy!Idle,
           StrategyFits(r)',
           what.op # "assign" => \A s \in DOMAIN what.read : WriteFits(r, s)',
           \A q \in Requests \ {r} : 
              (strategyRequest[q] # Strategy!Idle /\ (Creates(q) \/ what.op = "create")) =>
                  Found(q) \cap DOMAIN what.read = {}
    PROVE  StrategyInv' /\ KilledStays
<1>1. /\ DOMAIN strategyRequest' = Requests /\ strategyRequest'[r] = what
      /\ \A q \in Requests \ {r} : strategyRequest'[q] = strategyRequest[q]
  BY DEF StrategyInv
<1>2. \A q \in Requests : StrategyFits(q)'
  BY <1>1 DEF StrategyInv, StrategyFits, Creates, Found
<1>3. \A q \in Requests : Writes(q)' => \A s \in Found(q)' : WriteFits(q, s)'
  BY <1>1 DEF StrategyInv, Writes, WriteFits, Creates, Found
<1>4. CreatedApart'
  BY <1>1 DEF StrategyInv, CreatedApart, Creates, Found
<1>5. RowsVouched'
  BY DEF StrategyInv, RowsVouched
<1>6. KilledStays
  BY DEF KilledStays
<1>7. QED
  BY <1>1, <1>2, <1>3, <1>4, <1>5, <1>6 DEF StrategyInv

\* A handler reads a row.
LEMMA HandleKeeps ==
    ASSUME StrategyOK, StrategyInv, NEW r \in Requests, Strategy!Handle(r)
    PROVE  StrategyInv' /\ KilledStays
<1>1. PICK op \in Strategy!Handlers, s \in Strategy!Existing :
        \E new \in Strategy!Outcomes(op, strategies[s]) :
            Strategy!Read(r, op, Strategy!One(s, strategies[s]), Strategy!One(s, new))
  BY DEF Strategy!Handle
<1>2. PICK new \in Strategy!Outcomes(op, strategies[s]) :
            Strategy!Read(r, op, Strategy!One(s, strategies[s]), Strategy!One(s, new))
  BY <1>1
<1>3. /\ s \in Strategies /\ strategies[s] # NoRow /\ strategies[s] \in Strategy!Strategy
      /\ Trusted(strategies[s]) => s \in vouched
  BY DEF Strategy!Existing, StrategyInv, RowsVouched
<1>4. new \in Strategy!Strategy /\ MayBecome(op, strategies[s], new)
  BY <1>3, OutcomesFit
<1> DEFINE what == [op |-> op, read |-> [x \in {s} |-> strategies[s]],
                    new |-> [x \in {s} |-> new]]
<1>5. /\ strategyRequest' = [strategyRequest EXCEPT ![r] = what]
      /\ UNCHANGED <<strategies, vouched>>
  BY <1>2 DEF Strategy!Handle, Strategy!Read, Strategy!One
<1>6. /\ what.op = op /\ DOMAIN what.read = {s} /\ DOMAIN what.new = {s}
      /\ what.read[s] = strategies[s] /\ what.new[s] = new
      /\ op # "assign" /\ op # "create" /\ op # "idle"
  BY DEF Strategy!Handlers
<1>7. what # Strategy!Idle
  BY <1>6 DEF Strategy!Idle
<1> HIDE DEF what
<1>8. strategyRequest'[r] = what
  BY <1>5 DEF StrategyInv
<1>9. StrategyFits(r)'
  BY <1>3, <1>5, <1>6, <1>8 DEF StrategyFits, Found, Creates
<1>10. WriteFits(r, s)'
  BY <1>3, <1>4, <1>5, <1>6, <1>8 DEF WriteFits, Creates
<1>11. \A q \in Requests \ {r} : 
           (strategyRequest[q] # Strategy!Idle /\ Creates(q)) => Found(q) \cap {s} = {}
  BY <1>3 DEF StrategyInv, WriteFits, Writes, Creates
<1>12. QED
  BY <1>5, <1>6, <1>7, <1>9, <1>10, <1>11, StrategyBegins

\* A creation takes an identity nobody has.
LEMMA CreateStrategyKeeps ==
    ASSUME StrategyOK, StrategyInv, NEW r \in Requests, Strategy!CreateStrategy(r)
    PROVE  StrategyInv' /\ KilledStays
<1>1. PICK s \in Strategies \ Strategy!Existing, n \in Names, p \in Parameters :
         /\ \A q \in Requests : strategyRequest[q] # Strategy!Idle =>
               s \notin DOMAIN strategyRequest[q].read
         /\ Strategy!Read(r, "create", Strategy!One(s, NoRow),
                 Strategy!One(s, [name |-> n, status |-> "DRAFT", approved |-> FALSE,
                                  entry |-> p.entry, stop |-> p.stop]))
  BY DEF Strategy!CreateStrategy
<1> DEFINE new == [name |-> n, status |-> "DRAFT", approved |-> FALSE,
                   entry |-> p.entry, stop |-> p.stop]
           what == [op |-> "create", read |-> [x \in {s} |-> NoRow],
                    new |-> [x \in {s} |-> new]]
<1>2. new \in Strategy!Strategy /\ ~Trusted(new)
  BY DEF Strategy!Strategy, Strategy!Status, StrategyOK, Trusted
<1>3. strategies[s] = NoRow
  BY DEF Strategy!Existing
<1>5. /\ strategyRequest' = [strategyRequest EXCEPT ![r] = what]
      /\ UNCHANGED <<strategies, vouched>>
  BY <1>1 DEF Strategy!CreateStrategy, Strategy!Read, Strategy!One
<1>6. /\ what.op = "create" /\ DOMAIN what.read = {s} /\ DOMAIN what.new = {s}
      /\ what.read[s] = NoRow /\ what.new[s] = new
  OBVIOUS
<1>7. what # Strategy!Idle
  BY <1>6 DEF Strategy!Idle
<1> HIDE DEF what, new
<1>8. strategyRequest'[r] = what
  BY <1>5 DEF StrategyInv
<1>9. StrategyFits(r)'
  BY <1>3, <1>5, <1>6, <1>8 DEF StrategyFits, Found, Creates
<1>10. WriteFits(r, s)'
  BY <1>2, <1>3, <1>5, <1>6, <1>8 DEF WriteFits, Creates
<1>11. \A q \in Requests \ {r} : strategyRequest[q] # Strategy!Idle => Found(q) \cap {s} = {}
  BY <1>1 DEF Found
<1>12. QED
  BY <1>5, <1>6, <1>7, <1>9, <1>10, <1>11, StrategyBegins

\* The global kill switch finds no running strategy: none is ever "running".
LEMMA GlobalKillKeeps ==
    ASSUME StrategyOK, StrategyInv, NEW r \in Requests, Strategy!GlobalKillSwitch(r)
    PROVE  StrategyInv' /\ KilledStays
<1> DEFINE running == {s \in Strategy!Existing : strategies[s].status = "running"}
           what == [op |-> "global-kill", read |-> [s \in running |-> strategies[s]],
                    new |-> [s \in running |-> Strategy!Set(strategies[s], "stopped")]]
<1>1. running = {}
  BY DEF Strategy!Existing, StrategyInv, RowsVouched, Strategy!Strategy, Strategy!Status
<1>5. /\ strategyRequest' = [strategyRequest EXCEPT ![r] = what]
      /\ UNCHANGED <<strategies, vouched>>
  BY DEF Strategy!GlobalKillSwitch, Strategy!Read
<1>6. what.op = "global-kill" /\ DOMAIN what.read = {} /\ DOMAIN what.new = {}
  BY <1>1
<1>7. what # Strategy!Idle
  BY <1>6 DEF Strategy!Idle
<1> HIDE DEF what
<1>8. strategyRequest'[r] = what
  BY <1>5 DEF StrategyInv
<1>9. StrategyFits(r)'
  BY <1>5, <1>6, <1>8 DEF StrategyFits, Found, Creates
<1>12. QED
  BY <1>5, <1>6, <1>7, <1>9, StrategyBegins

\* An assignment reads a strategy.
LEMMA AssignKeeps ==
    ASSUME StrategyOK, StrategyInv, NEW r \in Requests, Strategy!AssignStrategy(r)
    PROVE  StrategyInv' /\ KilledStays
<1>1. PICK u \in Traders, s \in Strategy!Existing :
         strategyRequest' = [strategyRequest EXCEPT ![r] =
                [op |-> "assign", trader |-> u, read |-> Strategy!One(s, strategies[s])]]
  BY DEF Strategy!AssignStrategy
<1> DEFINE what == [op |-> "assign", trader |-> u, read |-> [x \in {s} |-> strategies[s]]]
<1>3. s \in Strategies /\ strategies[s] # NoRow
  BY DEF Strategy!Existing
<1>5. /\ strategyRequest' = [strategyRequest EXCEPT ![r] = what]
      /\ UNCHANGED <<strategies, vouched>>
  BY <1>1 DEF Strategy!AssignStrategy, Strategy!One
<1>6. what.op = "assign" /\ DOMAIN what.read = {s}
  OBVIOUS
<1>7. what # Strategy!Idle
  BY <1>6 DEF Strategy!Idle
<1> HIDE DEF what
<1>8. strategyRequest'[r] = what
  BY <1>5 DEF StrategyInv
<1>9. StrategyFits(r)'
  BY <1>3, <1>5, <1>6, <1>8 DEF StrategyFits, Found, Creates
<1>11. \A q \in Requests \ {r} : 
           (strategyRequest[q] # Strategy!Idle /\ Creates(q)) => Found(q) \cap {s} = {}
  BY <1>3 DEF StrategyInv, WriteFits, Writes, Creates
<1>12. QED
  BY <1>5, <1>6, <1>7, <1>9, <1>11, StrategyBegins

\* A request that is answered without a write.
LEMMA StrategyAnswered ==
    ASSUME StrategyInv, UNCHANGED <<strategies, vouched>>,
           \/ UNCHANGED strategyRequest
           \/ \E r \in Requests :
                strategyRequest' = [strategyRequest EXCEPT ![r] = Strategy!Idle]
    PROVE  StrategyInv' /\ KilledStays
<1>1. /\ DOMAIN strategyRequest' = Requests
      /\ \A q \in Requests : strategyRequest'[q] \in {strategyRequest[q], Strategy!Idle}
  BY DEF StrategyInv
<1>2. \A q \in Requests : StrategyFits(q)'
  BY <1>1 DEF StrategyInv, StrategyFits, Creates, Found
<1>3. \A q \in Requests : Writes(q)' => \A s \in Found(q)' : WriteFits(q, s)'
  BY <1>1 DEF StrategyInv, Writes, WriteFits, Creates, Found
<1>4. CreatedApart'
  BY <1>1 DEF StrategyInv, CreatedApart, Creates, Found
<1>5. RowsVouched'
  BY DEF StrategyInv, RowsVouched
<1>6. KilledStays
  BY DEF KilledStays
<1>7. QED
  BY <1>1, <1>2, <1>3, <1>4, <1>5, <1>6 DEF StrategyInv

\* A commit writes the columns that its request changed.
LEMMA CommitKeeps ==
    ASSUME StrategyOK, StrategyInv, NEW r \in Requests, Strategy!Commit(r)
    PROVE  StrategyInv' /\ KilledStays
<1> DEFINE req == strategyRequest[r]
           rows == DOMAIN req.new
           Before(s) == req.read[s]
           New(s) == req.new[s]
<1>1. /\ req # Strategy!Idle /\ req.op # "assign"
      /\ strategies' = [s \in Strategies |->
             IF s \in rows
             THEN IF Before(s) = NoRow THEN New(s)
                  ELSE Strategy!Flush(strategies[s], Before(s), New(s))
             ELSE strategies[s]]
      /\ vouched' = IF req.op \in {"approve", "update"}
                    THEN vouched \cup {s \in rows : New(s).status = "live"
                                                    /\ Before(s).status # "live"}
                    ELSE vouched
      /\ strategyRequest' = [strategyRequest EXCEPT ![r] = Strategy!Idle]
  BY DEF Strategy!Commit
<1>2. /\ rows = Found(r) /\ rows \subseteq Strategies
      /\ ~Creates(r) => \A s \in rows : strategies[s] # NoRow
      /\ \A s \in rows : WriteFits(r, s)
  BY <1>1 DEF StrategyInv, StrategyFits, Writes, Found
<1>3. vouched \subseteq vouched'
  BY <1>1
<1>4. /\ DOMAIN strategyRequest' = Requests /\ strategyRequest'[r] = Strategy!Idle
      /\ \A q \in Requests \ {r} : strategyRequest'[q] = strategyRequest[q]
  BY <1>1 DEF StrategyInv
<1>5. \A s \in Strategies \ rows : strategies'[s] = strategies[s]
  BY <1>1
\* The rows written, one by one.
<1>6. ASSUME NEW s \in rows
      PROVE  /\ strategies'[s] \in Strategy!Strategy
             /\ Trusted(strategies'[s]) => s \in vouched'
             /\ (/\ strategies[s] # NoRow
                 /\ strategies[s]["status"] = "stopped"
                 /\ strategies'[s]["status"] # "stopped") =>
                 /\ \/ req.op \in {"backtest", "approve", "update"}
                    \/ req.op = "transition" /\ Before(s)["status"] # "stopped"
                 /\ New(s)["status"] # Before(s)["status"]
                 /\ strategies'[s]["status"] = New(s)["status"]
  <2>1. CASE Creates(r)
    <3>1. Before(s) = NoRow /\ strategies[s] = NoRow
          /\ New(s) \in Strategy!Strategy /\ ~Trusted(New(s))
      BY <1>2, <2>1 DEF WriteFits
    <3>2. strategies'[s] = New(s)
      BY <1>1, <1>2, <3>1
    <3>3. QED
      BY <3>1, <3>2
  <2>2. CASE ~Creates(r)
    <3>1. /\ New(s) \in Strategy!Strategy /\ Before(s) \in Strategy!Strategy
          /\ MayBecome(req.op, Before(s), New(s))
          /\ Trusted(Before(s)) => s \in vouched
      BY <1>2, <2>2 DEF WriteFits
    <3>2. /\ strategies[s] \in Strategy!Strategy
          /\ Trusted(strategies[s]) => s \in vouched
      BY <1>2, <2>2 DEF StrategyInv, RowsVouched
    <3>3. strategies'[s] = Strategy!Flush(strategies[s], Before(s), New(s))
      BY <1>1, <1>2, <3>1 DEF StrategyOK
    <3>4. /\ strategies'[s] \in Strategy!Strategy
          /\ strategies'[s]["status"] \in {strategies[s]["status"], New(s)["status"]}
          /\ New(s)["status"] = Before(s)["status"] =>
               strategies'[s]["status"] = strategies[s]["status"]
          /\ strategies'[s]["approved"] \in {strategies[s]["approved"], New(s)["approved"]}
          /\ New(s)["approved"] = Before(s)["approved"] =>
               strategies'[s]["approved"] = strategies[s]["approved"]
      BY <3>1, <3>2, <3>3, FlushOfStrategy
    <3>5. Trusted(New(s)) => s \in vouched'
      <4>1. CASE req.op \in {"approve", "update"}
        <5>1. New(s)["status"] = "live" /\ Before(s)["status"] # "live" => s \in vouched'
          BY <1>1, <4>1
        <5>2. QED
          BY <1>3, <3>1, <4>1, <5>1 DEF MayBecome, Trusted
      <4>2. CASE req.op \notin {"approve", "update"}
        <5>1. CASE req.op \in {"delete", "backtest"}
          BY <1>3, <3>1, <5>1 DEF MayBecome, Trusted
        <5>2. CASE req.op \in {"kill", "global-kill", "transition"}
          BY <1>3, <3>1, <5>2 DEF MayBecome, Trusted
        <5>3. QED
          BY <3>1, <4>2, <5>1, <5>2 DEF MayBecome
      <4>3. QED
        BY <4>1, <4>2
    <3>6. Trusted(strategies'[s]) => s \in vouched'
      BY <1>3, <3>2, <3>4, <3>5 DEF Trusted
    <3>7. ASSUME strategies[s]["status"] = "stopped", strategies'[s]["status"] # "stopped"
          PROVE  /\ \/ req.op \in {"backtest", "approve", "update"}
                    \/ req.op = "transition" /\ Before(s)["status"] # "stopped"
                 /\ New(s)["status"] # Before(s)["status"]
                 /\ strategies'[s]["status"] = New(s)["status"]
      <4>1. /\ New(s)["status"] # "stopped" /\ New(s)["status"] # Before(s)["status"]
            /\ strategies'[s]["status"] = New(s)["status"]
        BY <3>4, <3>7
      <4>2. QED
        BY <3>1, <4>1 DEF MayBecome
    <3>8. QED
      BY <3>4, <3>6, <3>7
  <2>3. QED
    BY <2>1, <2>2
<1> HIDE DEF rows, Before, New
<1>7. \A s \in Strategies : strategies[s] # NoRow => strategies'[s] # NoRow
  BY <1>5, <1>6 DEF StrategyOK
<1>8. DOMAIN strategies' = Strategies
  BY <1>1
<1>9. RowsVouched'
  <2>1. ASSUME NEW s \in Strategies, strategies'[s] # NoRow
        PROVE  /\ strategies'[s] \in Strategy!Strategy
               /\ Trusted(strategies'[s]) => s \in vouched'
    <3>1. CASE s \in rows
      BY <1>6, <3>1
    <3>2. CASE s \notin rows
      BY <1>3, <1>5, <2>1, <3>2 DEF StrategyInv, RowsVouched
    <3>3. QED
      BY <3>1, <3>2
  <2>2. QED
    BY <2>1 DEF RowsVouched, Trusted
<1>10. \A q \in Requests : StrategyFits(q)'
  <2>1. ASSUME NEW q \in Requests PROVE StrategyFits(q)'
    <3>1. CASE q = r
      BY <1>4, <3>1 DEF StrategyFits
    <3>2. CASE q # r
      BY <1>4, <1>7, <3>2 DEF StrategyInv, StrategyFits, Creates, Found
    <3>3. QED
      BY <3>1, <3>2
  <2>2. QED
    BY <2>1
<1>11. \A q \in Requests : Writes(q)' => \A s \in Found(q)' : WriteFits(q, s)'
  <2>1. ASSUME NEW q \in Requests, Writes(q)', NEW s \in Found(q)'
        PROVE  WriteFits(q, s)'
    <3>1. /\ q # r /\ strategyRequest'[q] = strategyRequest[q]
          /\ Writes(q) /\ s \in Found(q) /\ s \in Strategies
      BY <1>4, <2>1 DEF Writes, Found, StrategyInv, StrategyFits
    <3>2. WriteFits(q, s)
      BY <3>1 DEF StrategyInv
    <3>3. CASE Creates(q)
      <4>1. s \notin rows
        BY <1>1, <1>2, <3>1, <3>3 DEF StrategyInv, CreatedApart, Writes
      <4>2. strategies'[s] = strategies[s]
        BY <1>5, <3>1, <4>1
      <4>3. QED
        BY <3>1, <3>2, <3>3, <4>2 DEF WriteFits, Creates, Trusted
    <3>4. CASE ~Creates(q)
      BY <1>3, <3>1, <3>2, <3>4 DEF WriteFits, Creates, Trusted, MayBecome
    <3>5. QED
      BY <3>3, <3>4
  <2>2. QED
    BY <2>1
<1>12. CreatedApart'
  BY <1>4 DEF StrategyInv, CreatedApart, Creates, Found
<1>13. KilledStays
  BY <1>1, <1>2, <1>4, <1>5, <1>6 DEF KilledStays, Strategy!Existing, Found, Before, New
<1>14. QED
  BY <1>4, <1>8, <1>9, <1>10, <1>11, <1>12, <1>13 DEF StrategyInv

\* Every step.
LEMMA StrategySteps ==
    ASSUME StrategyOK, StrategyInv, [Strategy!StrategyStep]_(Strategy!svars)
    PROVE  StrategyInv' /\ KilledStays
<1>1. CASE UNCHANGED Strategy!svars
  BY <1>1, StrategyAnswered DEF Strategy!svars
<1>2. CASE Strategy!RemoveAssignment
  BY <1>2, StrategyAnswered DEF Strategy!RemoveAssignment
<1>3. ASSUME NEW r \in Requests, Strategy!CommitAssignment(r)
      PROVE  StrategyInv' /\ KilledStays
  BY <1>3, StrategyAnswered DEF Strategy!CommitAssignment
<1>4. QED
  BY <1>1, <1>2, <1>3, HandleKeeps, CreateStrategyKeeps, GlobalKillKeeps, AssignKeeps,
     CommitKeeps DEF Strategy!StrategyStep

\* The first state.
LEMMA StrategyStarts == Strategy!Init => StrategyInv
BY DEF Strategy!Init, StrategyInv, RowsVouched, StrategyFits, Writes, CreatedApart,
       Strategy!Idle

-----------------------------------------------------------------------------
\* The requests that will write an assignment of s to u.
Assigning(u, s) ==
    {r \in Requests : /\ strategyRequest[r].op = "assign"
                      /\ strategyRequest[r].trader = u
                      /\ s \in DOMAIN strategyRequest[r].read}

\* Rows written and requests about to write one are no more than requests.
AssignInv ==
    /\ DOMAIN assigned = Traders \X Strategies
    /\ \A r \in Requests : strategyRequest[r].op = "assign" => 
         /\ strategyRequest[r].trader \in Traders
    /\ \A u \in Traders, s \in Strategies :
         /\ assigned[<<u, s>>] \in Seq(BOOLEAN)
         /\ Len(assigned[<<u, s>>]) + Cardinality(Assigning(u, s)) <= Cardinality(Requests)

\* Sequences of flags.
LEMMA FlagSequences ==
    ASSUME NEW S, NEW q \in Seq(S), NEW x \in S
    PROVE  /\ Append(q, x) \in Seq(S) /\ Len(Append(q, x)) = Len(q) + 1
           /\ \A i \in DOMAIN q : /\ [q EXCEPT ![i] = x] \in Seq(S)
                                  /\ Len([q EXCEPT ![i] = x]) = Len(q)
           /\ <<>> \in Seq(S) /\ Len(<<>>) = 0
OBVIOUS

\* The desk counts as FiniteSets does.
LEMMA SameCardinality == ASSUME NEW S PROVE Strategy!Cardinality(S) = Cardinality(S)
BY DEF Strategy!Cardinality, Cardinality

\* The requests that assign can be counted.
LEMMA AssigningFinite ==
    ASSUME IsFiniteSet(Requests), NEW u, NEW s
    PROVE  /\ IsFiniteSet(Assigning(u, s)) /\ Cardinality(Assigning(u, s)) \in Nat
           /\ Cardinality(Requests) \in Nat
           /\ Cardinality(Assigning(u, s)) <= Cardinality(Requests)
           /\ IsFiniteSet(Assigning(u, s)')
           /\ Cardinality(Assigning(u, s)') \in Nat
           /\ Cardinality(Assigning(u, s)') <= Cardinality(Requests)
<1>1. Assigning(u, s) \subseteq Requests /\ Assigning(u, s)' \subseteq Requests
  BY DEF Assigning
<1> HIDE DEF Assigning
<1>2. QED
  BY <1>1, FS_Subset, FS_CardinalityType

\* A request that begins anything else, or ends, assigns nothing.
LEMMA NobodyAssigns ==
    ASSUME StrategyOK, StrategyInv, AssignInv, UNCHANGED assigned, NEW r \in Requests, NEW what,
           strategyRequest' = [strategyRequest EXCEPT ![r] = what], what.op # "assign"
    PROVE  AssignInv'
<1>1. \A q \in Requests : strategyRequest'[q] = IF q = r THEN what ELSE strategyRequest[q]
  BY DEF StrategyInv
<1>2. \A u, s : Assigning(u, s)' \subseteq Assigning(u, s)
  BY <1>1 DEF Assigning
<1>3. ASSUME NEW u \in Traders, NEW s \in Strategies
      PROVE  Len(assigned[<<u, s>>]) + Cardinality(Assigning(u, s)') <= Cardinality(Requests)
  <2>1. IsFiniteSet(Assigning(u, s)) /\ Assigning(u, s)' \subseteq Assigning(u, s)
    BY <1>2, AssigningFinite DEF StrategyOK
  <2>2. Cardinality(Assigning(u, s)') <= Cardinality(Assigning(u, s))
    BY <2>1, FS_Subset
  <2>3. /\ assigned[<<u, s>>] \in Seq(BOOLEAN)
        /\ Len(assigned[<<u, s>>]) + Cardinality(Assigning(u, s)) <= Cardinality(Requests)
    BY DEF AssignInv
  <2>4. Len(assigned[<<u, s>>]) \in Nat
    BY <2>3
  <2>5. QED
    BY <2>2, <2>3, <2>4, AssigningFinite DEF StrategyOK
<1>4. \A q \in Requests :
         strategyRequest'[q].op = "assign" => strategyRequest'[q].trader \in Traders
  BY <1>1 DEF AssignInv
<1>5. QED
  BY <1>3, <1>4 DEF AssignInv

\* A request that looks finds no row: it is the only kind to write one.
LEMMA AssignBegins ==
    ASSUME StrategyOK, StrategyInv, AssignInv, NEW r \in Requests, Strategy!AssignStrategy(r)
    PROVE  AssignInv'
<1>1. PICK u0 \in Traders, s0 \in Strategies :
         /\ assigned[<<u0, s0>>] = <<>>
         /\ strategyRequest' = [strategyRequest EXCEPT ![r] =
                [op |-> "assign", trader |-> u0, read |-> Strategy!One(s0, strategies[s0])]]
         /\ UNCHANGED assigned
         /\ strategyRequest[r] = Strategy!Idle
  BY DEF Strategy!AssignStrategy, Strategy!Existing
<1> DEFINE what == [op |-> "assign", trader |-> u0, read |-> [x \in {s0} |-> strategies[s0]]]
<1>2. /\ \A q \in Requests : strategyRequest'[q] = IF q = r THEN what ELSE strategyRequest[q]
  BY <1>1 DEF StrategyInv, Strategy!One
<1>3. what.op = "assign" /\ what.trader = u0 /\ DOMAIN what.read = {s0}
  OBVIOUS
<1> HIDE DEF what
<1>4. ASSUME NEW u \in Traders, NEW s \in Strategies
      PROVE  Len(assigned[<<u, s>>]) + Cardinality(Assigning(u, s)') <= Cardinality(Requests)
  <2>1. CASE u = u0 /\ s = s0
    <3>1. Len(assigned[<<u, s>>]) = 0
      BY <1>1, <2>1
    <3>2. QED
      BY <3>1, AssigningFinite DEF StrategyOK
  <2>2. CASE ~(u = u0 /\ s = s0)
    <3>1. Assigning(u, s)' = Assigning(u, s)
      BY <1>1, <1>2, <1>3, <2>2 DEF Assigning, Strategy!Idle
    <3>2. QED
      BY <3>1 DEF AssignInv
  <2>3. QED
    BY <2>1, <2>2
<1>5. \A q \in Requests :
         strategyRequest'[q].op = "assign" => strategyRequest'[q].trader \in Traders
  BY <1>2, <1>3 DEF AssignInv
<1>6. QED
  BY <1>1, <1>4, <1>5 DEF AssignInv

\* A row more, a request in flight less.
LEMMA AssignCommits ==
    ASSUME StrategyOK, StrategyInv, AssignInv, NEW r \in Requests, Strategy!CommitAssignment(r)
    PROVE  AssignInv'
<1>1. PICK s0 \in DOMAIN strategyRequest[r].read :
         /\ assigned' = [assigned EXCEPT ![<<strategyRequest[r].trader, s0>>] = Append(@, TRUE)]
         /\ strategyRequest[r].op = "assign" /\ strategyRequest[r] # Strategy!Idle
         /\ strategyRequest' = [strategyRequest EXCEPT ![r] = Strategy!Idle]
  BY DEF Strategy!CommitAssignment
<1>2. PICK u0 \in Traders : u0 = strategyRequest[r].trader
  BY <1>1 DEF AssignInv
<1>3. s0 \in Strategies
  BY <1>1 DEF StrategyInv, StrategyFits, Found
<1>4. \A q \in Requests :
         strategyRequest'[q] = IF q = r THEN Strategy!Idle ELSE strategyRequest[q]
  BY <1>1 DEF StrategyInv
<1>5. /\ DOMAIN assigned' = Traders \X Strategies
      /\ assigned'[<<u0, s0>>] = Append(assigned[<<u0, s0>>], TRUE)
      /\ \A p \in Traders \X Strategies : p # <<u0, s0>> => assigned'[p] = assigned[p]
  BY <1>1, <1>2, <1>3 DEF AssignInv
<1>6. ASSUME NEW u \in Traders, NEW s \in Strategies
      PROVE  /\ assigned'[<<u, s>>] \in Seq(BOOLEAN)
             /\ Len(assigned'[<<u, s>>]) + Cardinality(Assigning(u, s)') <= Cardinality(Requests)
  <2>1. /\ assigned[<<u, s>>] \in Seq(BOOLEAN)
        /\ Len(assigned[<<u, s>>]) + Cardinality(Assigning(u, s)) <= Cardinality(Requests)
        /\ Len(assigned[<<u, s>>]) \in Nat
    BY DEF AssignInv
  <2>2. CASE u = u0 /\ s = s0
    <3>1. Assigning(u, s)' = Assigning(u, s) \ {r} /\ r \in Assigning(u, s)
      BY <1>1, <1>2, <1>4, <2>2 DEF Assigning, Strategy!Idle
    <3>2. Cardinality(Assigning(u, s)') = Cardinality(Assigning(u, s)) - 1
      <4>1. PICK T : T = Assigning(u, s)
        OBVIOUS
      <4>2. IsFiniteSet(T) /\ r \in T
        BY <3>1, <4>1, AssigningFinite DEF StrategyOK
      <4>3. Cardinality(T \ {r}) = Cardinality(T) - 1
        BY <4>2, FS_RemoveElement
      <4>4. QED
        BY <3>1, <4>1, <4>3
    <3>3. /\ assigned'[<<u, s>>] \in Seq(BOOLEAN)
          /\ Len(assigned'[<<u, s>>]) = Len(assigned[<<u, s>>]) + 1
      <4>1. assigned'[<<u, s>>] = Append(assigned[<<u, s>>], TRUE)
        BY <1>5, <2>2
      <4>2. TRUE \in BOOLEAN
        OBVIOUS
      <4>3. QED
        BY <2>1, <4>1, <4>2, FlagSequences
    <3>4. QED
      BY <2>1, <3>2, <3>3, AssigningFinite DEF StrategyOK
  <2>3. CASE ~(u = u0 /\ s = s0)
    <3>1. assigned'[<<u, s>>] = assigned[<<u, s>>]
      BY <1>5, <2>3
    <3>2. Assigning(u, s)' \subseteq Assigning(u, s)
      BY <1>4 DEF Assigning, Strategy!Idle
    <3>3. Cardinality(Assigning(u, s)') <= Cardinality(Assigning(u, s))
      BY <3>2, AssigningFinite, FS_Subset DEF StrategyOK
    <3>4. QED
      BY <2>1, <3>1, <3>3, AssigningFinite DEF StrategyOK
  <2>4. QED
    BY <2>2, <2>3
<1>7. \A q \in Requests :
         strategyRequest'[q].op = "assign" => strategyRequest'[q].trader \in Traders
  BY <1>4 DEF AssignInv, Strategy!Idle
<1>8. QED
  BY <1>5, <1>6, <1>7 DEF AssignInv

\* A removal keeps the number of rows.
LEMMA RemoveKeeps ==
    ASSUME StrategyOK, StrategyInv, AssignInv, Strategy!RemoveAssignment
    PROVE  AssignInv'
<1>1. PICK p \in Traders \X Strategies : \E i \in DOMAIN assigned[p] :
         assigned' = [assigned EXCEPT ![p] = [assigned[p] EXCEPT ![i] = FALSE]]
  BY DEF Strategy!RemoveAssignment
<1>0. PICK i \in DOMAIN assigned[p] :
         /\ assigned' = [assigned EXCEPT ![p] = [assigned[p] EXCEPT ![i] = FALSE]]
         /\ UNCHANGED strategyRequest
  BY <1>1 DEF Strategy!RemoveAssignment
<1>2. ASSUME NEW u \in Traders, NEW s \in Strategies
      PROVE  /\ assigned'[<<u, s>>] \in Seq(BOOLEAN)
             /\ Len(assigned'[<<u, s>>]) = Len(assigned[<<u, s>>])
  <2>1. assigned[<<u, s>>] \in Seq(BOOLEAN)
    BY DEF AssignInv
  <2>2. assigned'[<<u, s>>] = IF p = <<u, s>> THEN [assigned[<<u, s>>] EXCEPT ![i] = FALSE]
                              ELSE assigned[<<u, s>>]
    BY <1>0 DEF AssignInv
  <2>3. FALSE \in BOOLEAN
    OBVIOUS
  <2>4. p = <<u, s>> => i \in DOMAIN assigned[<<u, s>>]
    BY <1>0
  <2>5. CASE p = <<u, s>>
    BY <2>1, <2>2, <2>3, <2>4, <2>5, FlagSequences
  <2>6. CASE p # <<u, s>>
    BY <2>1, <2>2, <2>6
  <2>7. QED
    BY <2>5, <2>6
<1>3. \A u, s : Assigning(u, s)' = Assigning(u, s)
  BY <1>0 DEF Assigning
<1>4. DOMAIN assigned' = Traders \X Strategies
  BY <1>0 DEF AssignInv
<1>5. QED
  BY <1>0, <1>2, <1>3, <1>4 DEF AssignInv

\* Every step.
LEMMA AssignSteps ==
    ASSUME StrategyOK, StrategyInv, AssignInv, [Strategy!StrategyStep]_(Strategy!svars)
    PROVE  AssignInv'
<1>1. CASE UNCHANGED Strategy!svars
  BY <1>1 DEF Strategy!svars, AssignInv, Assigning
<1>2. ASSUME NEW r \in Requests, NEW op, NEW read, NEW new, op # "assign",
             Strategy!Read(r, op, read, new), UNCHANGED assigned
      PROVE  AssignInv'
  <2> DEFINE what == [op |-> op, read |-> read, new |-> new]
  <2>1. what.op # "assign"
    BY <1>2
  <2>2. strategyRequest' = [strategyRequest EXCEPT ![r] = what]
    BY <1>2 DEF Strategy!Read
  <2> HIDE DEF what
  <2>3. QED
    BY <1>2, <2>1, <2>2, NobodyAssigns
<1>3. ASSUME NEW r \in Requests,
             Strategy!Handle(r) \/ Strategy!CreateStrategy(r) \/ Strategy!GlobalKillSwitch(r)
      PROVE AssignInv'
  <2>1. UNCHANGED assigned
    BY <1>3 DEF Strategy!Handle, Strategy!CreateStrategy, Strategy!GlobalKillSwitch
  <2>2. CASE Strategy!Handle(r)
    <3>1. \A op \in Strategy!Handlers : op # "assign"
      BY DEF Strategy!Handlers
    <3>2. PICK op \in Strategy!Handlers, s \in Strategy!Existing :
            \E new \in Strategy!Outcomes(op, strategies[s]) :
              Strategy!Read(r, op, Strategy!One(s, strategies[s]), Strategy!One(s, new))
      BY <2>2 DEF Strategy!Handle
    <3>3. QED
      BY <1>2, <2>1, <3>1, <3>2
  <2>3. CASE Strategy!CreateStrategy(r)
    BY <1>2, <2>1, <2>3 DEF Strategy!CreateStrategy
  <2>4. CASE Strategy!GlobalKillSwitch(r)
    BY <1>2, <2>1, <2>4 DEF Strategy!GlobalKillSwitch
  <2>5. QED
    BY <1>3, <2>2, <2>3, <2>4
<1>4. ASSUME NEW r \in Requests, Strategy!Commit(r) PROVE AssignInv'
  <2>1. Strategy!Idle.op # "assign"
    BY DEF Strategy!Idle
  <2>2. QED
    BY <1>4, <2>1, NobodyAssigns DEF Strategy!Commit
<1>5. QED
  BY <1>1, <1>2, <1>3, <1>4, AssignBegins, AssignCommits, RemoveKeeps
     DEF Strategy!StrategyStep

\* The first state.
LEMMA AssignStarts == StrategyOK /\ Strategy!Init => AssignInv
<1> SUFFICES ASSUME StrategyOK, Strategy!Init PROVE AssignInv
  OBVIOUS
<1>1. \A u, s : Assigning(u, s) = {}
  BY DEF Strategy!Init, Assigning, Strategy!Idle
<1>2. \A r \in Requests : strategyRequest[r].op # "assign"
  BY DEF Strategy!Init, Strategy!Idle
<1>3. /\ DOMAIN assigned = Traders \X Strategies
      /\ \A u \in Traders, s \in Strategies : assigned[<<u, s>>] = <<>>
  BY DEF Strategy!Init
<1>4. Cardinality({}) = 0 /\ Cardinality(Requests) \in Nat
  BY FS_EmptySet, FS_CardinalityType DEF StrategyOK
<1>5. Len(<<>>) = 0 /\ <<>> \in Seq(BOOLEAN)
  OBVIOUS
<1>6. ASSUME NEW u \in Traders, NEW s \in Strategies
      PROVE  Len(assigned[<<u, s>>]) + Cardinality(Assigning(u, s)) <= Cardinality(Requests)
  <2>1. Len(assigned[<<u, s>>]) = 0
    BY <1>3, <1>5
  <2>2. Cardinality(Assigning(u, s)) = 0
    BY <1>1, <1>4
  <2>3. QED
    BY <1>4, <2>1, <2>2
<1>7. QED
  BY <1>2, <1>3, <1>5, <1>6 DEF AssignInv

\* What the count says of the rows.
LEMMA AssignBounds == StrategyOK /\ AssignInv => Strategy!RowsBounded
<1> SUFFICES ASSUME StrategyOK, AssignInv, NEW u \in Traders, NEW s \in Strategies
             PROVE  Len(assigned[<<u, s>>]) <= Cardinality(Requests)
  BY SameCardinality DEF Strategy!RowsBounded
<1>1. /\ assigned[<<u, s>>] \in Seq(BOOLEAN)
      /\ Len(assigned[<<u, s>>]) + Cardinality(Assigning(u, s)) <= Cardinality(Requests)
  BY DEF AssignInv
<1>2. Len(assigned[<<u, s>>]) \in Nat
  BY <1>1
<1>3. QED
  BY <1>1, <1>2, AssigningFinite DEF StrategyOK

-----------------------------------------------------------------------------
(* Notifications.                                                           *)

\* The rows of the table of notifications.
NoteRow == [kind : Kinds, is_read : BOOLEAN, is_sent : BOOLEAN]

\* What the proof needs of the constants.
NoteOK == NoRow \notin NoteRow

\* The channels the notification would go through now, as the user is told.
WantedNow(n) == Note!Wanted(Note!GetPreferences(preferences), notes[n]["kind"])

\* The tables hold rows, and what was seen is read.
NoteTyped ==
    /\ DOMAIN notes = Notes /\ \A n \in Notes : notes[n] \in NoteRow \cup {NoRow}
    /\ DOMAIN attempted = Notes /\ DOMAIN ever = Notes /\ DOMAIN always = Notes
    /\ DOMAIN noteRequest = Requests
    /\ \A n \in seen : n \in Notes /\ notes[n] # NoRow /\ notes[n]["is_read"] = TRUE

\* The channels tried lie between those preferred all the time and those preferred once.
NoteFits(n) ==
    /\ notes[n] = NoRow => attempted[n] = {}
    /\ notes[n] # NoRow =>
         /\ attempted[n] \subseteq ever[n]
         /\ WantedNow(n) \subseteq ever[n]
         /\ always[n] \subseteq WantedNow(n)
         /\ notes[n]["is_sent"] = TRUE => always[n] \subseteq attempted[n]

\* What a sender knows of its notification, and what a reader does of those it found.
SenderFits(req) ==
    req.at \in {"created", "send"} =>
      /\ req.note \in Notes /\ notes[req.note] # NoRow
      /\ req.read \in NoteRow /\ req.read["kind"] = notes[req.note]["kind"]
      /\ req.read["is_read"] = FALSE /\ req.read["is_sent"] = FALSE
      /\ req.at = "send" =>
           /\ req.left \subseteq ever[req.note]
           /\ always[req.note] \subseteq attempted[req.note] \cup req.left

\* A reader found rows that are there.
ReaderFits(req) ==
    req.at = "read" =>
      /\ DOMAIN req.found \subseteq Notes
      /\ \A n \in DOMAIN req.found :
           /\ notes[n] # NoRow /\ req.found[n] \in NoteRow
           /\ req.found[n]["is_read"] = TRUE => notes[n]["is_read"] = TRUE

\* The inductive invariant.
NoteInv ==
    /\ NoteTyped
    /\ \A n \in Notes : NoteFits(n)
    /\ \A r \in Requests : SenderFits(noteRequest[r]) /\ ReaderFits(noteRequest[r])

\* No row goes, or becomes unread; a sender may rely on what was tried, and preferred.
NotesGrow ==
    \A n \in Notes : notes[n] # NoRow =>
        /\ notes'[n] # NoRow /\ notes'[n]["kind"] = notes[n]["kind"]
        /\ notes[n]["is_read"] = TRUE => notes'[n]["is_read"] = TRUE
        /\ ever[n] \subseteq ever'[n] /\ always'[n] \subseteq always[n]
        /\ attempted[n] \subseteq attempted'[n]

\* The requests: one changes, and the others' knowledge stays true.
LEMMA RequestsFit ==
    ASSUME NoteInv, NotesGrow, NEW r \in Requests, NEW what,
           noteRequest' = [noteRequest EXCEPT ![r] = what],
           SenderFits(what)', ReaderFits(what)'
    PROVE  /\ DOMAIN noteRequest' = Requests
           /\ \A q \in Requests : SenderFits(noteRequest[q])' /\ ReaderFits(noteRequest[q])'
<1>1. /\ DOMAIN noteRequest' = Requests
      /\ \A q \in Requests : noteRequest'[q] = IF q = r THEN what ELSE noteRequest[q]
  BY DEF NoteInv, NoteTyped
<1>2. ASSUME NEW q \in Requests, q # r
      PROVE  SenderFits(noteRequest[q])' /\ ReaderFits(noteRequest[q])'
  <2>1. noteRequest'[q] = noteRequest[q]
    BY <1>1, <1>2
  <2>2. SenderFits(noteRequest[q])'
    BY <2>1 DEF NoteInv, SenderFits, NotesGrow
  <2>3. ReaderFits(noteRequest[q])'
    BY <2>1 DEF NoteInv, ReaderFits, NotesGrow
  <2>4. QED
    BY <2>2, <2>3
<1>3. noteRequest'[r] = what
  BY <1>1
<1>4. SenderFits(noteRequest[r])' /\ ReaderFits(noteRequest[r])'
  BY <1>3 DEF SenderFits, ReaderFits
<1>5. QED
  BY <1>1, <1>2, <1>4

\* A request that only reads, or ends.
LEMMA NoteReads ==
    ASSUME NoteInv, NEW r \in Requests, NEW what,
           noteRequest' = [noteRequest EXCEPT ![r] = what],
           UNCHANGED <<notes, preferences, attempted, ever, always, seen>>,
           SenderFits(what)', ReaderFits(what)'
    PROVE  NoteInv'
<1>1. NotesGrow
  BY DEF NotesGrow
<1>2. /\ DOMAIN noteRequest' = Requests
      /\ \A q \in Requests : SenderFits(noteRequest[q])' /\ ReaderFits(noteRequest[q])'
  BY <1>1, RequestsFit
<1>3. NoteTyped'
  BY <1>2 DEF NoteInv, NoteTyped
<1>4. \A n \in Notes : NoteFits(n)'
  BY DEF NoteInv, NoteFits, WantedNow
<1>5. QED
  BY <1>2, <1>3, <1>4 DEF NoteInv

\* A request at rest knows nothing.
LEMMA IdleFits == SenderFits(Note!Idle)' /\ ReaderFits(Note!Idle)'
BY DEF SenderFits, ReaderFits, Note!Idle

\* A new notification.
LEMMA CreateNotificationKeeps ==
    ASSUME NoteOK, NoteInv, NEW r \in Requests, Note!CreateNotification(r)
    PROVE  NoteInv'
<1>1. PICK n \in Notes, kind \in Kinds :
        LET row == [kind |-> kind, is_read |-> FALSE, is_sent |-> FALSE]
        IN  /\ notes[n] = NoRow
            /\ notes' = [notes EXCEPT ![n] = row]
            /\ ever' = [ever EXCEPT ![n] = Note!Wanted(Note!GetPreferences(preferences), kind)]
            /\ always' = [always EXCEPT ![n] = Note!Wanted(Note!GetPreferences(preferences), kind)]
            /\ noteRequest' = [noteRequest EXCEPT ![r] =
                                 [at |-> "created", note |-> n, read |-> row]]
            /\ UNCHANGED <<preferences, attempted, seen>>
  BY DEF Note!CreateNotification, Note!Goto, Note!Rows
<1> DEFINE row == [kind |-> kind, is_read |-> FALSE, is_sent |-> FALSE]
           what == [at |-> "created", note |-> n, read |-> row]
<1>2. /\ row \in NoteRow /\ row # NoRow
      /\ row["kind"] = kind /\ row["is_read"] = FALSE /\ row["is_sent"] = FALSE
  <2>1. row \in NoteRow
    BY DEF NoteRow
  <2>2. row["kind"] = kind
    OBVIOUS
  <2>3. row["is_read"] = FALSE /\ row["is_sent"] = FALSE
    OBVIOUS
  <2>4. QED
    BY <2>1, <2>2, <2>3 DEF NoteOK
<1>3. /\ what.at = "created" /\ what.note = n /\ what.read = row
  OBVIOUS
<1>4. /\ DOMAIN notes' = Notes /\ DOMAIN ever' = Notes /\ DOMAIN always' = Notes
      /\ notes'[n] = row
      /\ ever'[n] = Note!Wanted(Note!GetPreferences(preferences), kind)
      /\ always'[n] = Note!Wanted(Note!GetPreferences(preferences), kind)
      /\ \A m \in Notes \ {n} :
           notes'[m] = notes[m] /\ ever'[m] = ever[m] /\ always'[m] = always[m]
  BY <1>1 DEF NoteInv, NoteTyped
<1>5. /\ noteRequest' = [noteRequest EXCEPT ![r] = what] /\ notes[n] = NoRow
      /\ UNCHANGED <<preferences, attempted, seen>>
  BY <1>1
<1> HIDE DEF row, what
<1>6. NotesGrow
  BY <1>4, <1>5 DEF NotesGrow
<1>7. SenderFits(what)' /\ ReaderFits(what)'
  BY <1>2, <1>3, <1>4 DEF SenderFits, ReaderFits
<1>8. /\ DOMAIN noteRequest' = Requests
      /\ \A q \in Requests : SenderFits(noteRequest[q])' /\ ReaderFits(noteRequest[q])'
  BY <1>5, <1>6, <1>7, RequestsFit
<1>9. NoteTyped'
  BY <1>2, <1>4, <1>5, <1>8 DEF NoteInv, NoteTyped
<1>10. ASSUME NEW m \in Notes PROVE NoteFits(m)'
  <2>1. NoteFits(m)
    BY DEF NoteInv
  <2>2. CASE m = n
    <3>1. attempted'[n] = {}
      BY <1>5, <2>1, <2>2 DEF NoteFits
    <3>2. WantedNow(n)' = Note!Wanted(Note!GetPreferences(preferences), kind)
      BY <1>2, <1>4, <1>5 DEF WantedNow
    <3>3. QED
      BY <1>2, <1>4, <2>2, <3>1, <3>2 DEF NoteFits
  <2>3. CASE m # n
    BY <1>4, <1>5, <2>1, <2>3 DEF NoteFits, WantedNow
  <2>4. QED
    BY <2>2, <2>3
<1>11. QED
  BY <1>8, <1>9, <1>10 DEF NoteInv

\* A sender reads the preferences.
LEMMA SendNotificationKeeps ==
    ASSUME NoteInv, NEW r \in Requests, Note!SendNotification(r)
    PROVE  NoteInv'
<1>1. UNCHANGED <<notes, preferences, attempted, ever, always, seen>>
  BY DEF Note!SendNotification
<1>2. PICK req, wanted, what :
        /\ req = noteRequest[r] /\ req.at = "created"
        /\ wanted = Note!Wanted(preferences, req.read["kind"])
        /\ what = [at |-> "send", note |-> req.note, read |-> req.read, left |-> wanted]
        /\ \/ noteRequest' = [noteRequest EXCEPT ![r] = Note!Idle]
           \/ preferences # NoRow /\ noteRequest' = [noteRequest EXCEPT ![r] = what]
  BY DEF Note!SendNotification, Note!At, Note!Goto, Note!Ends
<1>3. what.at = "send" /\ what.note = req.note /\ what.read = req.read /\ what.left = wanted
  BY <1>2
<1>4. SenderFits(req) /\ \A n \in Notes : NoteFits(n)
  BY <1>2 DEF NoteInv
<1>5. preferences # NoRow =>
         wanted \subseteq ever[req.note] /\ always[req.note] \subseteq wanted
  BY <1>2, <1>4 DEF SenderFits, NoteFits, WantedNow, Note!GetPreferences
<1>6. preferences # NoRow => SenderFits(what)' /\ ReaderFits(what)'
  BY <1>1, <1>2, <1>3, <1>4, <1>5 DEF SenderFits, ReaderFits
<1>7. QED
  BY <1>1, <1>2, <1>6, IdleFits, NoteReads

\* A channel is tried.
LEMMA SendsKeeps ==
    ASSUME NoteInv, NEW r \in Requests, NEW channel, NEW earlier,
           Note!Sends(r, channel, earlier)
    PROVE  NoteInv'
<1>1. PICK req, n, what :
      /\ req = noteRequest[r] /\ n = req.note /\ what = [req EXCEPT !.left = @ \ {channel}]
      /\ req.at = "send" /\ channel \in req.left
      /\ attempted' = [attempted EXCEPT ![n] = @ \cup {channel}]
      /\ noteRequest' = [noteRequest EXCEPT ![r] = what]
      /\ UNCHANGED <<notes, preferences, ever, always, seen>>
  BY DEF Note!Sends, Note!At, Note!Goto
<1>2. SenderFits(req) /\ \A m \in Notes : NoteFits(m)
  BY <1>1 DEF NoteInv
<1>3. n \in Notes /\ notes[n] # NoRow
  BY <1>1, <1>2 DEF SenderFits
<1>4. /\ DOMAIN attempted' = Notes
      /\ \A m \in Notes : attempted'[m] = IF m = n THEN attempted[n] \cup {channel}
                                          ELSE attempted[m]
  BY <1>1 DEF NoteInv, NoteTyped
<1>5. what.at = req.at /\ what.note = req.note /\ what.read = req.read
      /\ what.left \subseteq req.left /\ req.left \subseteq what.left \cup {channel}
  <2>1. CASE "left" \in DOMAIN req
    BY <1>1, <2>1
  <2>2. CASE "left" \notin DOMAIN req
    BY <1>1, <2>2
  <2>3. QED
    BY <2>1, <2>2
<1>6. NotesGrow
  BY <1>1, <1>4 DEF NotesGrow
<1>7. SenderFits(what)' /\ ReaderFits(what)'
  BY <1>1, <1>2, <1>3, <1>4, <1>5 DEF SenderFits, ReaderFits
<1>8. /\ DOMAIN noteRequest' = Requests
      /\ \A q \in Requests : SenderFits(noteRequest[q])' /\ ReaderFits(noteRequest[q])'
  BY <1>1, <1>6, <1>7, RequestsFit
<1>9. NoteTyped'
  BY <1>1, <1>4, <1>8 DEF NoteInv, NoteTyped
<1>10. channel \in ever[n]
  BY <1>1, <1>2 DEF SenderFits
<1>11. \A m \in Notes : NoteFits(m)'
  BY <1>1, <1>2, <1>3, <1>4, <1>10 DEF NoteFits, WantedNow
<1>12. QED
  BY <1>8, <1>9, <1>11 DEF NoteInv

\* A flag of a row.
Marked(row, flag) == row[flag] = TRUE

\* A row with a flag set.
Mark(row, flag) == [row EXCEPT ![flag] = TRUE]

\* A flag that is set is set, whatever the copy said; the other columns stay.
LEMMA FlushOfNote ==
    ASSUME NEW row \in NoteRow, NEW read \in NoteRow, NEW flag \in {"is_read", "is_sent"},
           NEW new, new = Mark(read, flag),
           Marked(read, flag) => Marked(row, flag)
    PROVE  /\ Note!Flush(row, read, new) \in NoteRow
           /\ Note!Flush(row, read, new)["kind"] = row["kind"]
           /\ Marked(Note!Flush(row, read, new), flag)
           /\ \A c \in {"is_read", "is_sent"} \ {flag} :
                Note!Flush(row, read, new)[c] = row[c]
<1>1. /\ DOMAIN row = {"kind", "is_read", "is_sent"}
      /\ DOMAIN read = {"kind", "is_read", "is_sent"}
  BY DEF NoteRow
<1> DEFINE after == Note!Flush(row, read, new)
<1>2. after = [c \in {"kind", "is_read", "is_sent"} |->
                     IF new[c] = read[c] THEN row[c] ELSE new[c]]
  BY <1>1 DEF Note!Flush
<1>3. new[flag] = TRUE /\ \A c \in {"kind", "is_read", "is_sent"} \ {flag} : new[c] = read[c]
  BY <1>1 DEF Mark
<1> HIDE DEF after
<1>4. /\ \A c \in {"kind", "is_read", "is_sent"} \ {flag} : after[c] = row[c]
      /\ after[flag] = IF new[flag] = read[flag] THEN row[flag] ELSE new[flag]
  BY <1>2, <1>3
<1>5. after[flag] = TRUE
  BY <1>3, <1>4 DEF Marked
<1>6. after["is_read"] \in BOOLEAN /\ after["is_sent"] \in BOOLEAN /\ after["kind"] \in Kinds
  <2>1. row["is_read"] \in BOOLEAN /\ row["is_sent"] \in BOOLEAN /\ row["kind"] \in Kinds
    BY DEF NoteRow
  <2>2. QED
    BY <1>4, <1>5, <2>1
<1>7. after \in NoteRow
  BY <1>2, <1>6 DEF NoteRow
<1>8. QED
  BY <1>4, <1>5, <1>7 DEF after, Marked

\* The rows of some notifications are flushed.
LEMMA NotesWritten ==
    ASSUME NoteOK, NoteInv, NEW r \in Requests, NEW flag \in {"is_read", "is_sent"},
           NEW ns, ns \subseteq Notes, \A n \in ns : notes[n] # NoRow,
           NEW read, \A n \in ns : read[n] \in NoteRow,
           \A n \in ns : read[n][flag] = TRUE => notes[n][flag] = TRUE,
           notes' = [n \in Notes |-> IF n \in ns
                        THEN Note!Flush(notes[n], read[n], [read[n] EXCEPT ![flag] = TRUE])
                        ELSE notes[n]],
           noteRequest' = [noteRequest EXCEPT ![r] = Note!Idle],
           UNCHANGED <<preferences, attempted, ever, always>>,
           IF flag = "is_read" THEN seen' = seen \cup ns
           ELSE UNCHANGED seen /\ \A n \in ns : always[n] \subseteq attempted[n]
    PROVE  NoteInv'
<1>1. /\ DOMAIN notes' = Notes
      /\ \A n \in Notes \ ns : notes'[n] = notes[n]
  OBVIOUS
<1>2. ASSUME NEW n \in ns
      PROVE  /\ notes'[n] \in NoteRow /\ notes'[n] # NoRow
             /\ notes'[n]["kind"] = notes[n]["kind"]
             /\ notes'[n][flag] = TRUE
             /\ \A c \in {"is_read", "is_sent"} \ {flag} : notes'[n][c] = notes[n][c]
  <2>1. PICK row, copy, new :
          /\ row \in NoteRow /\ copy \in NoteRow
          /\ row = notes[n] /\ copy = read[n] /\ new = Mark(copy, flag)
          /\ Marked(copy, flag) => Marked(row, flag)
    BY DEF NoteInv, NoteTyped, Marked
  <2>2. notes'[n] = Note!Flush(row, copy, new)
    BY <2>1 DEF Mark
  <2>3. /\ Note!Flush(row, copy, new) \in NoteRow
        /\ Note!Flush(row, copy, new)["kind"] = row["kind"]
        /\ Marked(Note!Flush(row, copy, new), flag)
        /\ \A c \in {"is_read", "is_sent"} \ {flag} : Note!Flush(row, copy, new)[c] = row[c]
    BY <2>1, FlushOfNote
  <2>4. QED
    BY <2>1, <2>2, <2>3 DEF NoteOK, Marked
<1>3. \A n \in Notes : notes[n] # NoRow =>
        /\ notes'[n] # NoRow /\ notes'[n]["kind"] = notes[n]["kind"]
        /\ notes[n]["is_read"] = TRUE => notes'[n]["is_read"] = TRUE
        /\ flag = "is_read" => notes'[n]["is_sent"] = notes[n]["is_sent"]
        /\ n \notin ns => notes'[n]["is_sent"] = notes[n]["is_sent"]
  BY <1>1, <1>2
<1>4. NotesGrow
  BY <1>3 DEF NotesGrow
<1>5. /\ DOMAIN noteRequest' = Requests
      /\ \A q \in Requests : SenderFits(noteRequest[q])' /\ ReaderFits(noteRequest[q])'
  BY <1>4, IdleFits, RequestsFit
<1>6. \A n \in seen' : n \in Notes /\ notes'[n] # NoRow /\ notes'[n]["is_read"] = TRUE
  BY <1>2, <1>3 DEF NoteInv, NoteTyped
<1>7. NoteTyped'
  BY <1>1, <1>2, <1>5, <1>6 DEF NoteInv, NoteTyped
<1>8. ASSUME NEW n \in Notes PROVE NoteFits(n)'
  <2>1. NoteFits(n)
    BY DEF NoteInv
  <2>2. CASE notes[n] = NoRow
    BY <1>1, <2>1, <2>2 DEF NoteFits, WantedNow
  <2>3. CASE notes[n] # NoRow
    <3>1. WantedNow(n)' = WantedNow(n)
      BY <1>3, <2>3 DEF WantedNow
    <3>2. notes'[n]["is_sent"] = TRUE => always[n] \subseteq attempted[n]
      BY <1>3, <2>1, <2>3 DEF NoteFits
    <3>3. QED
      BY <1>3, <2>1, <2>3, <3>1, <3>2 DEF NoteFits
  <2>4. QED
    BY <2>2, <2>3
<1>9. QED
  BY <1>5, <1>7, <1>8 DEF NoteInv

\* The commit of the sender.
LEMMA CommitSentKeeps ==
    ASSUME NoteOK, NoteInv, NEW r \in Requests, Note!CommitSent(r)
    PROVE  NoteInv'
<1>1. PICK req, n :
        /\ req = noteRequest[r] /\ n = req.note /\ req.at = "send" /\ req.left = {}
        /\ notes' = [notes EXCEPT ![n] =
                       Note!Flush(@, req.read, [req.read EXCEPT !.is_sent = TRUE])]
        /\ noteRequest' = [noteRequest EXCEPT ![r] = Note!Idle]
        /\ UNCHANGED <<preferences, attempted, ever, always, seen>>
  BY DEF Note!CommitSent, Note!MarksSent, Note!At, Note!Ends, Note!Goto
<1>2. /\ n \in Notes /\ notes[n] # NoRow /\ req.read \in NoteRow
      /\ req.read["is_sent"] = FALSE /\ always[n] \subseteq attempted[n]
  BY <1>1 DEF NoteInv, SenderFits
<1> DEFINE read == [m \in {n} |-> req.read]
<1>3. notes' = [m \in Notes |-> IF m \in {n}
                  THEN Note!Flush(notes[m], read[m], [read[m] EXCEPT !["is_sent"] = TRUE])
                  ELSE notes[m]]
  BY <1>1, <1>2 DEF NoteInv, NoteTyped
<1>4. /\ {n} \subseteq Notes /\ \A m \in {n} : notes[m] # NoRow
      /\ \A m \in {n} : read[m] \in NoteRow
      /\ \A m \in {n} : read[m]["is_sent"] = TRUE => notes[m]["is_sent"] = TRUE
      /\ \A m \in {n} : always[m] \subseteq attempted[m]
      /\ "is_sent" # "is_read" /\ "is_sent" \in {"is_read", "is_sent"}
  BY <1>2
<1> HIDE DEF read
<1>5. QED
  BY <1>1, <1>3, <1>4, NotesWritten

\* The commit of a reader.
LEMMA CommitReadKeeps ==
    ASSUME NoteOK, NoteInv, NEW r \in Requests, Note!CommitRead(r)
    PROVE  NoteInv'
<1>1. PICK found :
        /\ found = noteRequest[r].found /\ noteRequest[r].at = "read"
        /\ notes' = [n \in Notes |-> IF n \in DOMAIN found
              THEN Note!Flush(notes[n], found[n], [found[n] EXCEPT !["is_read"] = TRUE])
              ELSE notes[n]]
        /\ seen' = seen \cup DOMAIN found
        /\ noteRequest' = [noteRequest EXCEPT ![r] = Note!Idle]
        /\ UNCHANGED <<preferences, attempted, ever, always>>
  BY DEF Note!CommitRead, Note!At, Note!Ends, Note!Goto
<1>2. /\ DOMAIN found \subseteq Notes
      /\ \A n \in DOMAIN found :
           /\ notes[n] # NoRow /\ found[n] \in NoteRow
           /\ found[n]["is_read"] = TRUE => notes[n]["is_read"] = TRUE
  BY <1>1 DEF NoteInv, ReaderFits
<1>3. "is_read" \in {"is_read", "is_sent"}
  OBVIOUS
<1>4. QED
  BY <1>1, <1>2, <1>3, NotesWritten

\* A reader finds its rows.
LEMMA MarkAsReadKeeps ==
    ASSUME NoteInv, NEW r \in Requests, Note!MarkAsRead(r)
    PROVE  NoteInv'
<1>1. UNCHANGED <<notes, preferences, attempted, ever, always, seen>>
  BY DEF Note!MarkAsRead
<1>2. PICK found : /\ found \subseteq Note!Rows
                   /\ noteRequest' = [noteRequest EXCEPT ![r] =
                          [at |-> "read", found |-> [n \in found |-> notes[n]]]]
  BY DEF Note!MarkAsRead, Note!Goto
<1>3. PICK what : what = [at |-> "read", found |-> [n \in found |-> notes[n]]]
  OBVIOUS
<1>4. /\ what.at = "read" /\ DOMAIN what.found = found
      /\ \A n \in found : what.found[n] = notes[n]
  BY <1>3
<1>5. \A n \in found : n \in Notes /\ notes[n] # NoRow /\ notes[n] \in NoteRow
  BY <1>2 DEF Note!Rows, NoteInv, NoteTyped
<1>6. SenderFits(what)' /\ ReaderFits(what)'
  BY <1>1, <1>4, <1>5 DEF SenderFits, ReaderFits
<1>7. QED
  BY <1>1, <1>2, <1>3, <1>6, NoteReads

\* Preferences are read, and committed.
LEMMA PreferencesKeep ==
    ASSUME NoteInv, NEW r \in Requests, Note!UpdatePreferences(r) \/ Note!CommitPreferences(r)
    PROVE  NoteInv'
<1>1. CASE Note!UpdatePreferences(r)
  <2>1. PICK what : /\ what.at = "prefer"
                    /\ noteRequest' = [noteRequest EXCEPT ![r] = what]
    <3>1. PICK change \in Changes : noteRequest' = [noteRequest EXCEPT ![r] =
                          [at |-> "prefer", read |-> preferences, change |-> change]]
      BY <1>1 DEF Note!UpdatePreferences, Note!Goto
    <3>2. [at |-> "prefer", read |-> preferences, change |-> change].at = "prefer"
      OBVIOUS
    <3>3. QED
      BY <3>1, <3>2
  <2>2. SenderFits(what)' /\ ReaderFits(what)'
    BY <2>1 DEF SenderFits, ReaderFits
  <2>3. QED
    BY <1>1, <2>1, <2>2, NoteReads DEF Note!UpdatePreferences
<1>2. CASE Note!CommitPreferences(r)
  <2>1. /\ ever' = [n \in Notes |-> IF n \in Note!Rows
                      THEN ever[n] \cup
                             Note!Wanted(Note!GetPreferences(preferences)', notes[n].kind)
                      ELSE ever[n]]
        /\ always' = [n \in Notes |-> IF n \in Note!Rows
                      THEN always[n] \cap
                             Note!Wanted(Note!GetPreferences(preferences)', notes[n].kind)
                      ELSE always[n]]
        /\ noteRequest' = [noteRequest EXCEPT ![r] = Note!Idle]
        /\ UNCHANGED <<notes, attempted, seen>>
    BY <1>2 DEF Note!CommitPreferences, Note!Ends, Note!Goto
  <2>2. \A n \in Notes : n \in Note!Rows <=> notes[n] # NoRow
    BY DEF Note!Rows
  <2>3. NotesGrow
    BY <2>1, <2>2 DEF NotesGrow
  <2>4. /\ DOMAIN noteRequest' = Requests
        /\ \A q \in Requests : SenderFits(noteRequest[q])' /\ ReaderFits(noteRequest[q])'
    BY <2>1, <2>3, IdleFits, RequestsFit
  <2>5. NoteTyped'
    BY <2>1, <2>4 DEF NoteInv, NoteTyped
  <2>6. ASSUME NEW n \in Notes PROVE NoteFits(n)'
    <3>1. NoteFits(n)
      BY DEF NoteInv
    <3>2. CASE notes[n] = NoRow
      BY <2>1, <3>1, <3>2 DEF NoteFits
    <3>3. CASE notes[n] # NoRow
      <4>1. /\ ever'[n] = ever[n] \cup WantedNow(n)'
            /\ always'[n] = always[n] \cap WantedNow(n)'
        BY <2>1, <2>2, <3>3 DEF WantedNow
      <4>2. QED
        BY <2>1, <3>1, <3>3, <4>1 DEF NoteFits
    <3>4. QED
      BY <3>2, <3>3
  <2>7. QED
    BY <2>4, <2>5, <2>6 DEF NoteInv
<1>3. QED
  BY <1>1, <1>2

\* Every step.
LEMMA NoteSteps ==
    ASSUME NoteOK, NoteInv, [Note!NotifyStep]_(Note!nvars)
    PROVE  NoteInv'
<1>1. CASE UNCHANGED Note!nvars
  BY <1>1 DEF Note!nvars, NoteInv, NoteTyped, NoteFits, WantedNow, SenderFits, ReaderFits
<1>2. ASSUME NEW r \in Requests, Note!Stops(r) PROVE NoteInv'
  BY <1>2, IdleFits, NoteReads DEF Note!Stops, Note!Ends, Note!Goto
<1>3. ASSUME NEW r \in Requests,
             \/ Note!SendEmail(r) \/ Note!SendPush(r) \/ Note!SendWebhook(r)
             \/ Note!SendTelegram(r) \/ Note!SendWhatsapp(r)
      PROVE  NoteInv'
  BY <1>3, SendsKeeps DEF Note!SendEmail, Note!SendPush, Note!SendWebhook, Note!SendTelegram,
     Note!SendWhatsapp
<1>4. QED
  BY <1>1, <1>2, <1>3, CreateNotificationKeeps, SendNotificationKeeps, CommitSentKeeps,
     MarkAsReadKeeps, CommitReadKeeps, PreferencesKeep DEF Note!NotifyStep

\* The first state.
LEMMA NoteStarts == Note!NotifyInit => NoteInv
BY DEF Note!NotifyInit, NoteInv, NoteTyped, NoteFits, SenderFits, ReaderFits, Note!Idle

\* What the invariant says of the channels.
LEMMA NotePreferred == NoteInv => Note!NotifiedAsPreferred
<1> SUFFICES ASSUME NoteInv PROVE Note!NotifiedAsPreferred
  OBVIOUS
<1>1. ASSUME NEW n \in Note!Rows
      PROVE  attempted[n] \subseteq ever[n]
             /\ (notes[n].is_sent => always[n] \subseteq attempted[n])
  <2>1. n \in Notes /\ notes[n] # NoRow /\ notes[n] \in NoteRow /\ NoteFits(n)
    BY DEF Note!Rows, NoteInv, NoteTyped
  <2>2. notes[n]["is_sent"] \in BOOLEAN
    BY <2>1 DEF NoteRow
  <2>3. QED
    BY <2>1, <2>2 DEF NoteFits
<1>2. \A n \in seen : notes[n].is_read
  BY DEF NoteInv, NoteTyped
<1>3. QED
  BY <1>1, <1>2 DEF Note!NotifiedAsPreferred

-----------------------------------------------------------------------------
(* Paper trading.                                                           *)

\* What a tick holds of the positions it has read: they were open.
PaperFits(r) ==
    /\ paperRequest[r].at = "close" =>
         /\ paperRequest[r].position \in PaperPositions
         /\ "is_open" \in DOMAIN paperPositions[paperRequest[r].position]
         /\ "is_open" \in DOMAIN paperRequest[r].seen
         /\ paperRequest[r].seen["is_open"] = TRUE
    /\ paperRequest[r].at = "mark" =>
         \A p \in DOMAIN paperRequest[r].rows :
            /\ p \in PaperPositions /\ "is_open" \in DOMAIN paperPositions[p]
            /\ "is_open" \in DOMAIN paperRequest[r].rows[p]
            /\ paperRequest[r].rows[p]["is_open"] = TRUE

\* Whatever is in the table has a state.
PaperInv ==
    /\ DOMAIN paperPositions = PaperPositions /\ DOMAIN paperRequest = Requests
    /\ \A p \in PaperPositions :
         paperPositions[p] # NoRow => "is_open" \in DOMAIN paperPositions[p]
    /\ \A r \in Requests : PaperFits(r)

\* The action of PaperDesk!ClosedForGood.
ClosedStays ==
    \A p \in Paper!Entered : ~paperPositions[p].is_open => ~paperPositions'[p].is_open

\* The rows keep that they have a state, and what is closed stays closed.
RowsStay ==
    \A p \in PaperPositions :
       /\ "is_open" \in DOMAIN paperPositions[p] => "is_open" \in DOMAIN paperPositions'[p]
       /\ paperPositions'[p] # NoRow => "is_open" \in DOMAIN paperPositions'[p]

\* What a commit makes of the state.
LEMMA PaperFlush ==
    ASSUME NEW row, NEW read, NEW new, "is_open" \in DOMAIN row
    PROVE  /\ DOMAIN Paper!Flush(row, read, new) = DOMAIN row
           /\ Paper!Flush(row, read, new)["is_open"] =
                IF new["is_open"] = read["is_open"] THEN row["is_open"] ELSE new["is_open"]
BY DEF Paper!Flush

\* A request that writes no row.
LEMMA PaperWaits ==
    ASSUME PaperInv, NEW r \in Requests, NEW what, 
           paperRequest' = [paperRequest EXCEPT ![r] = what],
           DOMAIN paperPositions' = PaperPositions, RowsStay,
           what.at = "close" =>
             /\ what.position \in PaperPositions
             /\ "is_open" \in DOMAIN paperPositions[what.position]
             /\ "is_open" \in DOMAIN what.seen
             /\ what.seen["is_open"] = TRUE,
           what.at = "mark" =>
             \A p \in DOMAIN what.rows :
                /\ p \in PaperPositions /\ "is_open" \in DOMAIN paperPositions[p]
                /\ "is_open" \in DOMAIN what.rows[p]
                /\ what.rows[p]["is_open"] = TRUE
    PROVE  PaperInv'
<1>1. DOMAIN paperRequest' = Requests /\ paperRequest'[r] = what
  BY DEF PaperInv
<1>2. ASSUME NEW q \in Requests, q # r PROVE PaperFits(q)'
  <2>1. paperRequest'[q] = paperRequest[q] /\ PaperFits(q)
    BY <1>2 DEF PaperInv
  <2>2. QED
    BY <2>1 DEF PaperFits, RowsStay
<1>3. PaperFits(r)'
  BY <1>1 DEF PaperFits, RowsStay
<1>4. \A p \in PaperPositions :
         paperPositions'[p] # NoRow => "is_open" \in DOMAIN paperPositions'[p]
  BY DEF RowsStay
<1>5. QED
  BY <1>1, <1>2, <1>3, <1>4 DEF PaperInv

\* A request that goes on to a stage in which it holds no position.
Onward(r) ==
    \E what : /\ paperRequest' = [paperRequest EXCEPT ![r] = what]
              /\ what.at \notin {"close", "mark"}

\* Such a stage.
LEMMA PaperOnward ==
    ASSUME NEW r, NEW what, what.at \notin {"close", "mark"}, Paper!Goto(r, what)
    PROVE  Onward(r)
BY DEF Onward, Paper!Goto

\* The end is one.
LEMMA PaperEnds ==
    ASSUME NEW r, Paper!Ends(r) PROVE Onward(r)
<1>1. Paper!Idle.at = "idle" /\ Paper!Goto(r, Paper!Idle)
  BY DEF Paper!Ends, Paper!Idle
<1>2. QED
  BY <1>1, PaperOnward

\* The steps that write no position.
LEMMA PaperReads ==
    ASSUME PaperInv, NEW r \in Requests,
           \/ Paper!ChangeStatus(r) \/ Paper!CommitStatus(r) \/ Paper!Tick(r)
           \/ Paper!HasOpenPosition(r) \/ Paper!CheckExit(r) \/ Paper!UpdatePositions(r)
    PROVE  PaperInv' /\ ClosedStays
<1>1. UNCHANGED paperPositions
  BY DEF Paper!ChangeStatus, Paper!CommitStatus, Paper!Tick, Paper!HasOpenPosition,
         Paper!CheckExit, Paper!UpdatePositions
<1>2. RowsStay /\ DOMAIN paperPositions' = PaperPositions /\ ClosedStays
  BY <1>1 DEF RowsStay, PaperInv, ClosedStays
<1>3. CASE \/ Paper!ChangeStatus(r) \/ Paper!CommitStatus(r) \/ Paper!Tick(r)
           \/ Paper!HasOpenPosition(r)
  <2>1. ASSUME NEW row, Paper!Goto(r, [at |-> "status", read |-> paperInstance, new |-> row])
        PROVE  Onward(r)
    BY <2>1, PaperOnward
  <2>2. ASSUME NEW what, what.at \in {"look", "found", "update", "open"}, Paper!Goto(r, what)
        PROVE  Onward(r)
    BY <2>2, PaperOnward
  <2>3. Paper!ChangeStatus(r) => Onward(r)
    BY <2>1 DEF Paper!ChangeStatus
  <2>4. Paper!CommitStatus(r) => Onward(r)
    BY PaperEnds DEF Paper!CommitStatus
  <2>5. Paper!Tick(r) => Onward(r)
    <3>1. [at |-> "look", read |-> paperInstance].at = "look"
      OBVIOUS
    <3>2. QED
      BY <2>2, <3>1 DEF Paper!Tick
  <2>6. ASSUME Paper!HasOpenPosition(r) PROVE Onward(r)
    <3>1. \/ Paper!Ends(r)
          \/ Paper!Goto(r, [at |-> "found", read |-> paperRequest[r].read])
          \/ Paper!Goto(r, [at |-> "update"])
          \/ \E cost : Paper!Goto(r, [at |-> "open", read |-> paperRequest[r].read,
                                     cost |-> cost])
      BY <2>6, Zenon DEF Paper!HasOpenPosition
    <3>2. /\ [at |-> "found", read |-> paperRequest[r].read].at = "found"
          /\ [at |-> "update"].at = "update"
          /\ \A cost : [at |-> "open", read |-> paperRequest[r].read, cost |-> cost].at = "open"
      OBVIOUS
    <3>3. CASE \E cost : Paper!Goto(r, [at |-> "open", read |-> paperRequest[r].read,
                                       cost |-> cost])
      <4>1. PICK cost : Paper!Goto(r, [at |-> "open", read |-> paperRequest[r].read,
                                       cost |-> cost])
        BY <3>3
      <4>2. [at |-> "open", read |-> paperRequest[r].read, cost |-> cost].at = "open"
        OBVIOUS
      <4>3. QED
        BY <2>2, <4>1, <4>2
    <3>4. CASE \/ Paper!Goto(r, [at |-> "found", read |-> paperRequest[r].read])
               \/ Paper!Goto(r, [at |-> "update"])
      BY <2>2, <3>2, <3>4
    <3>5. QED
      BY <3>1, <3>3, <3>4, PaperEnds
  <2>7. Onward(r)
    BY <1>3, <2>3, <2>4, <2>5, <2>6
  <2>8. QED
    BY <1>2, <2>7, PaperWaits DEF Onward
<1>4. CASE Paper!CheckExit(r)
  <2>1. CASE Paper!Ends(r) \/ Paper!Goto(r, [at |-> "update"])
    <3>1. [at |-> "update"].at = "update"
      OBVIOUS
    <3>2. Onward(r)
      BY <2>1, <3>1, PaperEnds, PaperOnward
    <3>3. QED
      BY <1>2, <3>2, PaperWaits DEF Onward
  <2>2. CASE \E p \in Paper!OpenPositions, signal \in {"exit", "stoploss", "target"} :
               Paper!Goto(r, [at |-> "close", read |-> paperRequest[r].read, signal |-> signal,
                        position |-> p, seen |-> paperPositions[p]])
    <3>1. PICK p \in Paper!OpenPositions, signal \in {"exit", "stoploss", "target"} :
               Paper!Goto(r, [at |-> "close", read |-> paperRequest[r].read, signal |-> signal,
                        position |-> p, seen |-> paperPositions[p]])
      BY <2>2
    <3>2. /\ p \in PaperPositions /\ paperPositions[p] # NoRow
          /\ paperPositions[p]["is_open"] = TRUE
      BY DEF Paper!OpenPositions
    <3>3. "is_open" \in DOMAIN paperPositions[p]
      BY <3>2 DEF PaperInv
    <3>4. PICK what : what = [at |-> "close", read |-> paperRequest[r].read, signal |-> signal,
                        position |-> p, seen |-> paperPositions[p]]
      OBVIOUS
    <3>5. what.at = "close" /\ what.position = p /\ what.seen = paperPositions[p]
      BY <3>4
    <3>6. paperRequest' = [paperRequest EXCEPT ![r] = what]
      BY <3>1, <3>4 DEF Paper!Goto
    <3>7. QED
      BY <1>2, <3>2, <3>3, <3>5, <3>6, PaperWaits
  <2>3. QED
    BY <1>4, <2>1, <2>2 DEF Paper!CheckExit
<1>5. CASE Paper!UpdatePositions(r)
  <2>1. PICK what : what = [at |-> "mark",
                            rows |-> [p \in Paper!OpenPositions |-> paperPositions[p]]]
    OBVIOUS
  <2>2. what.at = "mark" /\ what.rows = [p \in Paper!OpenPositions |-> paperPositions[p]]
    BY <2>1
  <2>3. paperRequest' = [paperRequest EXCEPT ![r] = what]
    BY <1>5, <2>1 DEF Paper!UpdatePositions, Paper!Goto
  <2>4. \A p \in Paper!OpenPositions :
          /\ p \in PaperPositions /\ "is_open" \in DOMAIN paperPositions[p]
          /\ paperPositions[p]["is_open"] = TRUE
    BY DEF Paper!OpenPositions, PaperInv
  <2>5. \A p \in DOMAIN what.rows :
                /\ p \in PaperPositions /\ "is_open" \in DOMAIN paperPositions[p]
                /\ "is_open" \in DOMAIN what.rows[p]
                /\ what.rows[p]["is_open"] = TRUE
    BY <2>2, <2>4
  <2>6. QED
    BY <1>2, <2>2, <2>3, <2>5, PaperWaits
<1>6. QED
  BY <1>2, <1>3, <1>4, <1>5

\* A new position.
LEMMA PaperEnters ==
    ASSUME PaperInv, NEW r \in Requests, Paper!ExecuteEntry(r)
    PROVE  PaperInv' /\ ClosedStays
<1>1. PICK p, cost :
         /\ p \in PaperPositions \ Paper!Entered
         /\ paperPositions' = [paperPositions EXCEPT ![p] =
                [is_open |-> TRUE, cost |-> cost, unrealized |-> FALSE]]
  BY DEF Paper!ExecuteEntry
<1>2. PICK what : what = [at |-> "update"] /\ paperRequest' = [paperRequest EXCEPT ![r] = what]
  BY DEF Paper!ExecuteEntry, Paper!Goto
<1>3. /\ DOMAIN paperPositions' = PaperPositions
      /\ "is_open" \in DOMAIN paperPositions'[p]
      /\ \A o \in PaperPositions : o # p => paperPositions'[o] = paperPositions[o]
  BY <1>1 DEF PaperInv
<1>4. RowsStay
  BY <1>3 DEF RowsStay, PaperInv
<1>5. ClosedStays
  BY <1>1, <1>3 DEF ClosedStays, Paper!Entered
<1>6. QED
  BY <1>2, <1>3, <1>4, <1>5, PaperWaits

\* A position is closed, whatever it has become.
LEMMA PaperExits ==
    ASSUME PaperInv, NEW r \in Requests, Paper!ExecuteExit(r)
    PROVE  PaperInv' /\ ClosedStays
<1> DEFINE up == [at |-> "update"]
<1>0. up.at = "update" /\ (Paper!Ends(r) \/ Paper!Goto(r, up))
  BY DEF Paper!ExecuteExit
<1>1. PICK what : /\ paperRequest' = [paperRequest EXCEPT ![r] = what]
                  /\ what.at \notin {"close", "mark"}
  BY <1>0, PaperEnds, PaperOnward DEF Onward
<1>2. PICK p, copy : p = paperRequest[r].position /\ copy = paperRequest[r].seen
  OBVIOUS
<1>3. /\ p \in PaperPositions /\ "is_open" \in DOMAIN paperPositions[p]
      /\ "is_open" \in DOMAIN copy /\ copy["is_open"] = TRUE
  BY <1>2 DEF PaperInv, PaperFits, Paper!ExecuteExit, Paper!At
<1>4. CASE UNCHANGED paperPositions
  <2>1. RowsStay /\ DOMAIN paperPositions' = PaperPositions /\ ClosedStays
    BY <1>4 DEF RowsStay, PaperInv, ClosedStays
  <2>2. QED
    BY <1>1, <2>1, PaperWaits
<1>5. CASE ~UNCHANGED paperPositions
  <2>1. PICK new : new = [copy EXCEPT !.is_open = FALSE, !.unrealized = FALSE]
    OBVIOUS
  <2>2. new["is_open"] = FALSE
    BY <1>3, <2>1
  <2>3. paperPositions' = [paperPositions EXCEPT ![p] = Paper!Flush(paperPositions[p], copy, new)]
    BY <1>2, <1>5, <2>1 DEF Paper!ExecuteExit
  <2>4. /\ DOMAIN paperPositions' = PaperPositions
        /\ paperPositions'[p] = Paper!Flush(paperPositions[p], copy, new)
        /\ \A o \in PaperPositions : o # p => paperPositions'[o] = paperPositions[o]
    BY <1>3, <2>3 DEF PaperInv
  <2>5. "is_open" \in DOMAIN paperPositions'[p] /\ paperPositions'[p]["is_open"] = FALSE
    BY <1>3, <2>2, <2>4, PaperFlush
  <2>6. RowsStay
    BY <2>4, <2>5 DEF RowsStay, PaperInv
  <2>7. ClosedStays
    BY <2>4, <2>5 DEF ClosedStays, Paper!Entered
  <2>8. QED
    BY <1>1, <2>4, <2>6, <2>7, PaperWaits
<1>6. QED
  BY <1>4, <1>5

\* Marks to market leave the state as it is.
LEMMA PaperMarks ==
    ASSUME PaperInv, NEW r \in Requests, Paper!CommitMarks(r)
    PROVE  PaperInv' /\ ClosedStays
<1>1. PICK what : /\ paperRequest' = [paperRequest EXCEPT ![r] = what]
                  /\ what.at \notin {"close", "mark"}
  BY PaperEnds DEF Paper!CommitMarks, Onward
<1>2. PICK read : read = paperRequest[r].rows
  OBVIOUS
<1>3. \A p \in DOMAIN read : /\ p \in PaperPositions /\ "is_open" \in DOMAIN paperPositions[p]
                             /\ "is_open" \in DOMAIN read[p]
  BY <1>2 DEF PaperInv, PaperFits, Paper!CommitMarks, Paper!At
<1>4. PICK marks :
        paperPositions' = [p \in PaperPositions |->
                 IF p \in DOMAIN read
                 THEN Paper!Flush(paperPositions[p], read[p],
                                  [read[p] EXCEPT !.unrealized = marks[p]])
                 ELSE paperPositions[p]]
  BY <1>2 DEF Paper!CommitMarks
<1>5. DOMAIN paperPositions' = PaperPositions
  BY <1>4
<1>6. ASSUME NEW p \in PaperPositions
      PROVE  \/ paperPositions'[p] = paperPositions[p]
             \/ /\ "is_open" \in DOMAIN paperPositions'[p]
                /\ paperPositions'[p]["is_open"] = paperPositions[p]["is_open"]
  <2>1. CASE p \notin DOMAIN read
    BY <1>4, <2>1
  <2>2. CASE p \in DOMAIN read
    <3>1. PICK new : new = [read[p] EXCEPT !.unrealized = marks[p]]
      OBVIOUS
    <3>2. new["is_open"] = read[p]["is_open"]
      BY <1>3, <2>2, <3>1
    <3>3. paperPositions'[p] = Paper!Flush(paperPositions[p], read[p], new)
      BY <1>4, <2>2, <3>1
    <3>4. QED
      BY <1>3, <2>2, <3>2, <3>3, PaperFlush
  <2>3. QED
    BY <2>1, <2>2
<1>7. RowsStay
  BY <1>6 DEF RowsStay, PaperInv
<1>8. ClosedStays
  BY <1>6 DEF ClosedStays, Paper!Entered
<1>9. QED
  BY <1>1, <1>5, <1>7, <1>8, PaperWaits

\* Every step.
LEMMA PaperSteps ==
    ASSUME PaperInv, [Paper!PaperStep]_(Paper!pvars)
    PROVE  PaperInv' /\ ClosedStays
<1>1. CASE UNCHANGED Paper!pvars \/ Paper!StartPaperTrading
  <2>1. UNCHANGED <<paperPositions, paperRequest>>
    BY <1>1 DEF Paper!pvars, Paper!StartPaperTrading
  <2>2. QED
    BY <2>1 DEF PaperInv, PaperFits, ClosedStays
<1>2. ASSUME NEW r \in Requests,
             \/ Paper!ChangeStatus(r) \/ Paper!CommitStatus(r) \/ Paper!Tick(r)
             \/ Paper!HasOpenPosition(r) \/ Paper!CheckExit(r) \/ Paper!UpdatePositions(r)
             \/ Paper!ExecuteEntry(r) \/ Paper!ExecuteExit(r) \/ Paper!CommitMarks(r)
      PROVE  PaperInv' /\ ClosedStays
  BY <1>2, PaperReads, PaperEnters, PaperExits, PaperMarks
<1>3. QED
  BY <1>1, <1>2 DEF Paper!PaperStep

\* The first state.
LEMMA PaperStarts == Paper!PaperInit => PaperInv
BY DEF Paper!PaperInit, PaperInv, PaperFits, Paper!Idle

-----------------------------------------------------------------------------
(* Paper trading: the books.                                                *)

\* The row of the instance, and those of its positions.
PaperRow == [status : {"running", "paused", "stopped"}, allocated_capital : Int,
             trades_count : Nat]
PaperPosition == [is_open : BOOLEAN, cost : Nat, unrealized : BOOLEAN]

\* What was paid for positions, and how many trades closed one.
Spent == SumFunctionOnSet([p \in Paper!Entered |-> paperPositions[p].cost], Paper!Entered)
Closed == SumFunctionOnSet(closings, PaperPositions)

\* The row, now or when a request read it: it has lost no more capital than has been spent by
\* now, and counts no more trades than there are by now.
Fair(row) ==
    /\ row \in PaperRow
    /\ row.allocated_capital <= Capital
    /\ row.allocated_capital >= Capital - Spent
    /\ row.trades_count <= Closed

\* The requests about to enter a position, and those about to close p.
Openers == {r \in Requests : paperRequest[r].at = "open"}
Closers(p) == {r \in Requests : paperRequest[r].at = "close" /\ paperRequest[r].position = p}

\* What a request in flight holds.
BooksFit(r) ==
    LET c == paperRequest[r] IN
    /\ c.at # "idle" => paperInstance # NoRow
    /\ c.at \in {"status", "look", "found", "open", "close"} => Fair(c.read)
    /\ c.at = "status" =>
         /\ c.new \in PaperRow
         /\ c.new.allocated_capital = c.read.allocated_capital
         /\ c.new.trades_count = c.read.trades_count
    /\ c.at = "open" => c.cost \in Nat
    /\ c.at = "close" =>
         /\ c.position \in PaperPositions /\ paperPositions[c.position] # NoRow
         /\ c.seen \in PaperPosition
    /\ c.at = "mark" =>
         \A p \in DOMAIN c.rows :
            p \in PaperPositions /\ paperPositions[p] # NoRow /\ c.rows[p] \in PaperPosition

\* Every row, and what each position and its closers come to: a position that is open has not
\* been closed by anybody, and who enters one found none open.
BooksInv ==
    /\ paperPositions \in [PaperPositions -> PaperPosition \cup {NoRow}]
    /\ closings \in [PaperPositions -> Nat]
    /\ paperInstance # NoRow => Fair(paperInstance)
    /\ paperInstance # NoRow => (paperInstance.trades_count = 0 <=> Closed = 0)
    /\ paperInstance = NoRow => Closed = 0
    /\ DOMAIN paperRequest = Requests
    /\ \A r \in Requests : BooksFit(r)
    /\ \A p \in PaperPositions :
         /\ closings[p] + Cardinality(Closers(p)) <= Cardinality(Requests)
         /\ closings[p] > 0 => paperPositions[p] # NoRow /\ ~paperPositions[p].is_open
    /\ Cardinality(Paper!OpenPositions) + Cardinality(Openers) <= Cardinality(Requests)

\* What the proof needs of the constants.
LEMMA PaperConstants ==
    /\ IsFiniteSet(Requests) /\ IsFiniteSet(PaperPositions)
    /\ NoRow \notin PaperRow /\ NoRow \notin PaperPosition
    /\ Capital \in Int
BY Finite, Numbers, Absences DEF PaperRow, PaperPosition

\* PaperDesk sums as Functions does.
LEMMA PaperSum == \A f : Paper!Sum(f) = SumFunctionOnSet(f, DOMAIN f)
<1>1. SUFFICES ASSUME NEW f PROVE Paper!Sum(f) = SumFunctionOnSet(f, DOMAIN f)
  OBVIOUS
<1>2. Paper!Sum(f) = Adding(f, DOMAIN f)[DOMAIN f]
  BY DEF Paper!Sum, Paper!MapThenSumSet, Paper!MapThenFoldSet, Adding, Adds, Some
<1>3. QED
  BY <1>2, SumIsAdding

\* There are finitely many of everything, and the sums are numbers.
LEMMA BooksCount ==
    ASSUME BooksInv
    PROVE  /\ IsFiniteSet(Paper!Entered) /\ IsFiniteSet(Paper!OpenPositions)
           /\ \A p \in Paper!Entered : p \in PaperPositions /\ paperPositions[p] \in PaperPosition
           /\ Spent \in Nat /\ Closed \in Nat
           /\ Closed = 0 <=> \A p \in PaperPositions : closings[p] = 0
<1>1. IsFiniteSet(Paper!Entered) /\ IsFiniteSet(Paper!OpenPositions)
  BY PaperConstants, FS_Subset DEF Paper!Entered, Paper!OpenPositions
<1>2. \A p \in Paper!Entered : p \in PaperPositions /\ paperPositions[p] \in PaperPosition
  BY DEF BooksInv, Paper!Entered
<1>3. Spent \in Nat
  <2>1. PICK f, S : /\ S = Paper!Entered
                    /\ f = [p \in Paper!Entered |-> paperPositions[p].cost]
    OBVIOUS
  <2>2. IsFiniteSet(S) /\ \A p \in S : f[p] \in Nat
    BY <1>1, <1>2, <2>1 DEF PaperPosition
  <2>3. SumFunctionOnSet(f, S) \in Nat
    BY <2>2, SumNatural
  <2>4. QED
    BY <2>1, <2>3 DEF Spent
<1>4. Closed \in Nat /\ (Closed = 0 <=> \A p \in PaperPositions : closings[p] = 0)
  <2>1. \A p \in PaperPositions : closings[p] \in Nat
    BY DEF BooksInv
  <2>2. QED
    BY <2>1, PaperConstants, SumNatural DEF Closed
<1>5. QED
  BY <1>1, <1>2, <1>3, <1>4

\* Requests among those in flight are no more than these.
LEMMA RequestsCount ==
    \A S \in SUBSET Requests :
       IsFiniteSet(S) /\ Cardinality(S) \in Nat /\ Cardinality(S) <= Cardinality(Requests)
BY PaperConstants, FS_Subset, FS_CardinalityType

\* The books promise what they should.
LEMMA BooksBalanced == BooksInv => BooksBalance
<1> SUFFICES ASSUME BooksInv PROVE BooksBalance
  OBVIOUS
<1>1. \A S : Paper!Cardinality(S) = Cardinality(S)
  BY DEF Paper!Cardinality, Cardinality
<1>2. \A p \in PaperPositions : Cardinality(Closers(p)) \in Nat /\ closings[p] \in Nat
  BY RequestsCount DEF BooksInv, Closers
<1>3. Cardinality(Openers) \in Nat /\ Cardinality(Paper!OpenPositions) \in Nat
      /\ Cardinality(Requests) \in Nat
  BY RequestsCount, BooksCount, FS_CardinalityType DEF Openers
<1>4. \A p \in PaperPositions : closings[p] <= Cardinality(Requests)
  BY <1>2, <1>3 DEF BooksInv
<1>5. Cardinality(Paper!OpenPositions) <= Cardinality(Requests)
  BY <1>3 DEF BooksInv
<1>6. Paper!Sum([p \in Paper!Entered |-> paperPositions[p].cost]) = Spent
  <2>1. PICK f : f = [p \in Paper!Entered |-> paperPositions[p].cost]
    OBVIOUS
  <2>2. DOMAIN f = Paper!Entered
    BY <2>1
  <2>3. QED
    BY <2>1, <2>2, PaperSum DEF Spent
<1>7. Paper!Sum(closings) = Closed
  BY PaperSum DEF Closed, BooksInv
<1>8. paperInstance # NoRow => Fair(paperInstance)
  BY DEF BooksInv
<1>9. paperInstance # NoRow => (paperInstance.trades_count = 0 <=> Closed = 0)
  BY DEF BooksInv
<1>10. Paper!BooksBalance
  BY <1>1, <1>4, <1>5, <1>6, <1>7, <1>8, <1>9 DEF Paper!BooksBalance, Fair
<1>11. QED
  BY <1>10 DEF BooksBalance

\* The first state.
LEMMA BooksStart == Paper!PaperInit => BooksInv
<1> SUFFICES ASSUME Paper!PaperInit PROVE BooksInv
  OBVIOUS
<1>1. Paper!OpenPositions = {} /\ Openers = {} /\ \A p : Closers(p) = {}
  BY DEF Paper!PaperInit, Paper!OpenPositions, Openers, Closers, Paper!Idle
<1>2. \A p \in PaperPositions : closings[p] = 0
  BY DEF Paper!PaperInit
<1>3. Closed = 0
  <2>1. \A p \in PaperPositions : closings[p] \in Nat
    BY <1>2
  <2>2. QED
    BY <1>2, <2>1, PaperConstants, SumNatural DEF Closed
<1>4. \A r \in Requests : BooksFit(r)
  BY DEF Paper!PaperInit, BooksFit, Paper!Idle
<1>5. Cardinality({}) = 0 /\ Cardinality(Requests) \in Nat
  BY PaperConstants, FS_EmptySet, FS_CardinalityType
<1>6. \A p \in PaperPositions :
         /\ closings[p] + Cardinality(Closers(p)) <= Cardinality(Requests)
         /\ ~(closings[p] > 0)
  BY <1>1, <1>2, <1>5
<1>7. QED
  BY <1>1, <1>3, <1>4, <1>5, <1>6 DEF Paper!PaperInit, BooksInv

\* What was fair stays so while more is spent and closed.
LEMMA FairStays ==
    ASSUME BooksInv, Spent' \in Int, Spent' >= Spent, Closed' \in Int,
           Closed' >= Closed, NEW row, Fair(row)
    PROVE  row \in PaperRow /\ row.allocated_capital <= Capital
           /\ row.allocated_capital >= Capital - Spent' /\ row.trades_count <= Closed'
<1>1. row.allocated_capital \in Int /\ row.trades_count \in Nat /\ row \in PaperRow
  BY DEF Fair, PaperRow
<1>2. Spent \in Int /\ Closed \in Int /\ Capital \in Int
  BY BooksCount, PaperConstants
<1>3. QED
  BY <1>1, <1>2 DEF Fair

\* Requests are as they were, and one is in a new stage.
LEMMA BooksRequests ==
    ASSUME BooksInv, NEW r \in Requests, NEW what,
           paperRequest' = [paperRequest EXCEPT ![r] = what],
           Spent' \in Int, Spent' >= Spent, Closed' \in Int, Closed' >= Closed,
           paperInstance # NoRow => paperInstance' # NoRow,
           \A p \in PaperPositions : paperPositions[p] # NoRow => paperPositions'[p] # NoRow,
           what.at # "idle" => paperInstance # NoRow,
           what.at \in {"status", "look", "found", "open", "close"} => Fair(what.read),
           what.at = "status" =>
             /\ what.new \in PaperRow
             /\ what.new.allocated_capital = what.read.allocated_capital
             /\ what.new.trades_count = what.read.trades_count,
           what.at = "open" => what.cost \in Nat,
           what.at = "close" =>
             /\ what.position \in PaperPositions /\ paperPositions[what.position] # NoRow
             /\ what.seen \in PaperPosition,
           what.at = "mark" =>
             \A p \in DOMAIN what.rows : /\ p \in PaperPositions /\ paperPositions[p] # NoRow
                                          /\ what.rows[p] \in PaperPosition
    PROVE  /\ DOMAIN paperRequest' = Requests
           /\ \A q \in Requests : BooksFit(q)'
           /\ what.at # "open" => Openers' = Openers \ {r}
           /\ Openers' \subseteq Openers \cup {r}
           /\ \A p : /\ what.at # "close" => Closers(p)' = Closers(p) \ {r}
                     /\ what.at = "close" /\ what.position # p => Closers(p)' = Closers(p) \ {r}
<1>1. DOMAIN paperRequest = Requests /\ DOMAIN paperRequest' = Requests
      /\ paperRequest'[r] = what /\ \A q \in Requests \ {r} : paperRequest'[q] = paperRequest[q]
  BY DEF BooksInv
<1>2. ASSUME NEW row, Fair(row) PROVE Fair(row)'
  BY <1>2, FairStays DEF Fair
<1>3. ASSUME NEW q \in Requests, q # r PROVE BooksFit(q)'
  <2>1. PICK c : c = paperRequest[q]
    OBVIOUS
  <2>2. paperRequest'[q] = c /\ BooksFit(q)
    BY <1>1, <1>3, <2>1 DEF BooksInv
  <2>3. c.at \in {"status", "look", "found", "open", "close"} => Fair(c.read)'
    <3>1. PICK row : row = c.read
      OBVIOUS
    <3>2. c.at \in {"status", "look", "found", "open", "close"} => Fair(row)
      BY <2>1, <2>2, <3>1 DEF BooksFit
    <3>3. QED
      BY <1>2, <3>1, <3>2
  <2>4. QED
    BY <2>1, <2>2, <2>3 DEF BooksFit
<1>4. BooksFit(r)'
  <2>1. what.at \in {"status", "look", "found", "open", "close"} => Fair(what.read)'
    <3>1. PICK row : row = what.read
      OBVIOUS
    <3>2. QED
      BY <1>2, <3>1
  <2>2. QED
    BY <1>1, <2>1 DEF BooksFit
<1>5. /\ what.at # "open" => Openers' = Openers \ {r}
      /\ Openers' \subseteq Openers \cup {r}
  BY <1>1 DEF Openers
<1>6. ASSUME NEW p
      PROVE  /\ what.at # "close" => Closers(p)' = Closers(p) \ {r}
             /\ what.at = "close" /\ what.position # p => Closers(p)' = Closers(p) \ {r}
  BY <1>1 DEF Closers
<1>7. QED
  BY <1>1, <1>3, <1>4, <1>5, <1>6

\* Fewer of the requests are not more.
LEMMA FewerRequests ==
    \A S, T : S \subseteq Requests /\ T \subseteq S =>
       Cardinality(T) <= Cardinality(S) /\ Cardinality(T) \in Nat /\ Cardinality(S) \in Nat
<1>1. ASSUME NEW S, NEW T, S \subseteq Requests, T \subseteq S
      PROVE  Cardinality(T) <= Cardinality(S) /\ Cardinality(T) \in Nat /\ Cardinality(S) \in Nat
  <2>1. IsFiniteSet(S) /\ IsFiniteSet(T)
    BY <1>1, PaperConstants, FS_Subset
  <2>2. QED
    BY <1>1, <2>1, FS_Subset, FS_CardinalityType
<1>2. QED
  BY <1>1

\* A request that writes no position and closes none.
LEMMA BooksWait ==
    ASSUME BooksInv, NEW r \in Requests, NEW what,
           paperRequest' = [paperRequest EXCEPT ![r] = what],
           UNCHANGED <<paperInstance, paperPositions, closings>>,
           what.at # "idle" => paperInstance # NoRow,
           what.at \in {"status", "look", "found", "open", "close"} => Fair(what.read),
           what.at = "status" =>
             /\ what.new \in PaperRow
             /\ what.new.allocated_capital = what.read.allocated_capital
             /\ what.new.trades_count = what.read.trades_count,
           what.at = "open" => what.cost \in Nat /\ Paper!OpenPositions = {},
           what.at = "close" =>
             /\ what.position \in PaperPositions /\ paperPositions[what.position] # NoRow
             /\ paperPositions[what.position].is_open
             /\ what.seen \in PaperPosition,
           what.at = "mark" =>
             \A p \in DOMAIN what.rows : /\ p \in PaperPositions /\ paperPositions[p] # NoRow
                                          /\ what.rows[p] \in PaperPosition
    PROVE  BooksInv'
<1>1. /\ Spent' = Spent /\ Closed' = Closed /\ Paper!OpenPositions' = Paper!OpenPositions
  BY DEF Spent, Closed, Paper!Entered, Paper!OpenPositions
<1>2. /\ Spent' \in Int /\ Spent' >= Spent /\ Closed' \in Int /\ Closed' >= Closed
      /\ Cardinality(Paper!OpenPositions) \in Nat /\ Cardinality(Requests) \in Nat
  BY <1>1, BooksCount, PaperConstants, FS_CardinalityType
<1>3. /\ DOMAIN paperRequest' = Requests
      /\ \A q \in Requests : BooksFit(q)'
      /\ what.at # "open" => Openers' = Openers \ {r}
      /\ \A p : /\ what.at # "close" => Closers(p)' = Closers(p) \ {r}
                /\ what.at = "close" /\ what.position # p => Closers(p)' = Closers(p) \ {r}
  BY <1>2, BooksRequests
<1>4. Openers \subseteq Requests /\ Openers' \subseteq Requests
      /\ \A p : Closers(p) \subseteq Requests /\ Closers(p)' \subseteq Requests
  BY DEF Openers, Closers
<1>5. Cardinality(Paper!OpenPositions) + Cardinality(Openers') <= Cardinality(Requests)
  <2>1. CASE what.at = "open"
    <3>1. Cardinality(Paper!OpenPositions) = 0
      BY <2>1, FS_EmptySet
    <3>2. Cardinality(Openers') <= Cardinality(Requests) /\ Cardinality(Openers') \in Nat
      BY <1>4, FewerRequests
    <3>3. QED
      BY <3>1, <3>2
  <2>2. CASE what.at # "open"
    <3>1. Openers' \subseteq Openers
      BY <1>3, <2>2
    <3>2. Cardinality(Openers') <= Cardinality(Openers) /\ Cardinality(Openers') \in Nat
          /\ Cardinality(Openers) \in Nat
      BY <1>4, <3>1, FewerRequests
    <3>3. Cardinality(Paper!OpenPositions) + Cardinality(Openers) <= Cardinality(Requests)
      BY DEF BooksInv
    <3>4. QED
      BY <1>2, <3>2, <3>3
  <2>3. QED
    BY <2>1, <2>2
<1>6. ASSUME NEW p \in PaperPositions
      PROVE  closings[p] + Cardinality(Closers(p)') <= Cardinality(Requests)
  <2>1. CASE what.at = "close" /\ what.position = p
    <3>1. closings[p] = 0
      BY <2>1 DEF BooksInv
    <3>2. Cardinality(Closers(p)') <= Cardinality(Requests) /\ Cardinality(Closers(p)') \in Nat
      BY <1>4, FewerRequests
    <3>3. QED
      BY <3>1, <3>2
  <2>2. CASE ~(what.at = "close" /\ what.position = p)
    <3>1. Closers(p)' \subseteq Closers(p)
      BY <1>3, <2>2
    <3>2. Cardinality(Closers(p)') <= Cardinality(Closers(p)) /\ Cardinality(Closers(p)') \in Nat
          /\ Cardinality(Closers(p)) \in Nat
      BY <1>4, <3>1, FewerRequests
    <3>3. closings[p] + Cardinality(Closers(p)) <= Cardinality(Requests) /\ closings[p] \in Nat
      BY DEF BooksInv
    <3>4. QED
      BY <1>2, <3>2, <3>3
  <2>3. QED
    BY <2>1, <2>2
<1>7. paperInstance' # NoRow => Fair(paperInstance)'
  BY <1>1 DEF BooksInv, Fair
<1>8. Cardinality(Paper!OpenPositions') + Cardinality(Openers') <= Cardinality(Requests)
  BY <1>1, <1>5
<1>9. QED
  BY <1>1, <1>3, <1>6, <1>7, <1>8 DEF BooksInv

\* The quantity is a number of shares.
LEMMA QuantityIsNumber ==
    ASSUME NEW capital \in Int, NEW price \in Prices
    PROVE  Paper!CalculateQuantity(capital, price) \in Nat
<1>1. PICK n : n = (capital \div (Portion * price * Lot)) * Lot
  OBVIOUS
<1>2. n \in Int
  <2>1. PICK d : d = Portion * price * Lot
    OBVIOUS
  <2>2. d \in Nat \ {0}
    <3>1. Portion \in Nat \ {0} /\ price \in Nat \ {0} /\ Lot \in Nat \ {0}
      BY Numbers
    <3>2. Portion * price \in Nat \ {0}
      BY <3>1
    <3>3. QED
      BY <2>1, <3>1, <3>2
  <2>3. capital \div d \in Int /\ Lot \in Int
    BY <2>2, Numbers
  <2>4. QED
    BY <1>1, <2>1, <2>3
<1>3. Paper!CalculateQuantity(capital, price) = CHOOSE m \in {1, n} : \A k \in {1, n} : m >= k
  BY <1>1 DEF Paper!CalculateQuantity, Paper!Max
<1>4. CASE n > 1
  BY <1>2, <1>3, <1>4
<1>5. CASE n <= 1
  BY <1>2, <1>3, <1>5
<1>6. QED
  BY <1>2, <1>4, <1>5

\* A request that goes leaves no more behind it that open or close.
LEMMA BooksFewer ==
    ASSUME BooksInv, NEW r, Openers' = Openers \ {r}, \A p : Closers(p)' = Closers(p) \ {r},
           UNCHANGED <<paperPositions, closings>>
    PROVE  /\ \A p \in PaperPositions :
                closings'[p] + Cardinality(Closers(p)') <= Cardinality(Requests)
           /\ Cardinality(Paper!OpenPositions') + Cardinality(Openers') <= Cardinality(Requests)
<1>1. Openers \subseteq Requests /\ \A p : Closers(p) \subseteq Requests
  BY DEF Openers, Closers
<1>2. Cardinality(Openers') <= Cardinality(Openers) /\ Cardinality(Openers') \in Nat
      /\ Cardinality(Openers) \in Nat
  BY <1>1, FewerRequests
<1>3. \A p : Cardinality(Closers(p)') <= Cardinality(Closers(p))
             /\ Cardinality(Closers(p)') \in Nat /\ Cardinality(Closers(p)) \in Nat
  BY <1>1, FewerRequests
<1>4. Paper!OpenPositions' = Paper!OpenPositions
  BY DEF Paper!OpenPositions
<1>5. Cardinality(Paper!OpenPositions) \in Nat /\ Cardinality(Requests) \in Nat
  BY BooksCount, PaperConstants, FS_CardinalityType
<1>6. \A p \in PaperPositions : closings[p] \in Nat
  BY DEF BooksInv
<1>7. Cardinality(Paper!OpenPositions) + Cardinality(Openers) <= Cardinality(Requests)
  BY DEF BooksInv
<1>8. \A p \in PaperPositions : closings[p] + Cardinality(Closers(p)) <= Cardinality(Requests)
  BY DEF BooksInv
<1>9. QED
  BY <1>2, <1>3, <1>4, <1>5, <1>6, <1>7, <1>8

\* An instance starts.
LEMMA BooksBegin ==
    ASSUME BooksInv, Paper!StartPaperTrading
    PROVE  BooksInv'
<1>1. paperInstance = NoRow /\ UNCHANGED <<paperPositions, paperRequest, closings>>
  BY DEF Paper!StartPaperTrading
<1>2. PICK row : row = [status |-> "running", allocated_capital |-> Capital, trades_count |-> 0]
  OBVIOUS
<1>3. paperInstance' = row
  BY <1>2 DEF Paper!StartPaperTrading
<1>4. row \in PaperRow /\ row # NoRow /\ row.allocated_capital = Capital /\ row.trades_count = 0
  BY <1>2, PaperConstants DEF PaperRow
<1>5. Spent' = Spent /\ Closed' = Closed /\ Paper!OpenPositions' = Paper!OpenPositions
      /\ Openers' = Openers /\ \A p : Closers(p)' = Closers(p)
  BY <1>1 DEF Spent, Closed, Paper!Entered, Paper!OpenPositions, Openers, Closers
<1>6. Closed = 0 /\ Spent \in Nat /\ Capital \in Int
  BY <1>1, BooksCount, PaperConstants DEF BooksInv
<1>7. Fair(row)' /\ Fair(row)
  BY <1>4, <1>5, <1>6 DEF Fair
<1>8. ASSUME NEW r \in Requests PROVE BooksFit(r)'
  <2>1. BooksFit(r)
    BY DEF BooksInv
  <2>2. paperRequest[r].at = "idle" /\ paperRequest'[r].at = "idle"
    BY <1>1, <2>1 DEF BooksFit
  <2>3. QED
    BY <2>2 DEF BooksFit
<1>9. QED
  BY <1>1, <1>3, <1>4, <1>5, <1>6, <1>7, <1>8 DEF BooksInv

\* A request that ends, or goes on to the marks, holds nothing.
LEMMA BooksEnd ==
    ASSUME BooksInv, NEW r \in Requests, UNCHANGED <<paperInstance, paperPositions, closings>>,
           Paper!Ends(r) \/ Paper!Goto(r, [at |-> "update"]),
           paperInstance # NoRow
    PROVE  BooksInv'
<1>1. PICK what : /\ what \in {[at |-> "idle"], [at |-> "update"]}
                  /\ paperRequest' = [paperRequest EXCEPT ![r] = what]
  BY DEF Paper!Ends, Paper!Goto, Paper!Idle
<1>2. what.at \in {"idle", "update"}
  BY <1>1
<1>3. QED
  BY <1>1, <1>2, BooksWait

\* The steps that write no position and close none.
LEMMA BooksReads ==
    ASSUME BooksInv, NEW r \in Requests,
           \/ Paper!ChangeStatus(r) \/ Paper!Tick(r)
           \/ Paper!HasOpenPosition(r) \/ Paper!CheckExit(r) \/ Paper!UpdatePositions(r)
    PROVE  BooksInv'
<1>1. UNCHANGED <<paperInstance, paperPositions, closings>>
  BY DEF Paper!ChangeStatus, Paper!Tick, Paper!HasOpenPosition, Paper!CheckExit,
         Paper!UpdatePositions
<1>2. BooksFit(r) /\ (paperRequest[r].at # "idle" => paperInstance # NoRow)
  BY DEF BooksInv, BooksFit
<1>3. paperInstance # NoRow => Fair(paperInstance)
  BY DEF BooksInv
<1>4. PICK old : old = paperRequest[r].read
  OBVIOUS
<1>5. paperRequest[r].at \in {"look", "found"} => Fair(old)
  BY <1>2, <1>4 DEF BooksFit
<1>6. ASSUME Paper!ChangeStatus(r) PROVE BooksInv'
  <2>1. PICK row : /\ row \in {Paper!PauseInstance(paperInstance),
                               Paper!ResumeInstance(paperInstance),
                               Paper!StopInstance(paperInstance)}
                   /\ Paper!Goto(r, [at |-> "status", read |-> paperInstance, new |-> row])
    BY <1>6 DEF Paper!ChangeStatus
  <2>2. paperInstance # NoRow /\ Fair(paperInstance) /\ paperInstance \in PaperRow
    BY <1>3, <1>6 DEF Paper!ChangeStatus, Fair
  <2>3. /\ row \in PaperRow /\ row.allocated_capital = paperInstance.allocated_capital
        /\ row.trades_count = paperInstance.trades_count
    BY <2>1, <2>2 DEF Paper!PauseInstance, Paper!ResumeInstance, Paper!StopInstance, PaperRow
  <2>4. PICK read : read = paperInstance
    OBVIOUS
  <2>5. PICK what : what = [at |-> "status", read |-> read, new |-> row]
    OBVIOUS
  <2>6. what.at = "status" /\ what.read = read /\ what.new = row
    BY <2>5
  <2>7. paperRequest' = [paperRequest EXCEPT ![r] = what]
    BY <2>1, <2>4, <2>5 DEF Paper!Goto
  <2>8. QED
    BY <1>1, <2>2, <2>3, <2>4, <2>6, <2>7, BooksWait
<1>7. ASSUME Paper!Tick(r) PROVE BooksInv'
  <2>1. PICK read : read = paperInstance
    OBVIOUS
  <2>2. PICK what : what = [at |-> "look", read |-> read]
    OBVIOUS
  <2>3. what.at = "look" /\ what.read = read
    BY <2>2
  <2>4. paperRequest' = [paperRequest EXCEPT ![r] = what] /\ read # NoRow
    BY <1>7, <2>1, <2>2 DEF Paper!Tick, Paper!Goto
  <2>5. QED
    BY <1>1, <1>3, <2>1, <2>3, <2>4, BooksWait
<1>8. ASSUME Paper!HasOpenPosition(r) PROVE BooksInv'
  <2>1. paperRequest[r].at = "look" /\ Fair(old) /\ paperInstance # NoRow
    BY <1>2, <1>5, <1>8 DEF Paper!HasOpenPosition, Paper!At
  <2>2. \/ Paper!Ends(r)
        \/ Paper!Goto(r, [at |-> "found", read |-> old])
        \/ Paper!Goto(r, [at |-> "update"])
        \/ /\ Paper!OpenPositions = {}
           /\ \E price \in Prices :
                Paper!Goto(r, [at |-> "open", read |-> old,
                   cost |-> price * Paper!CalculateQuantity(old.allocated_capital, price)])
    BY <1>4, <1>8, Zenon DEF Paper!HasOpenPosition
  <2>3. CASE Paper!Goto(r, [at |-> "found", read |-> old])
    <3>1. PICK what : what = [at |-> "found", read |-> old]
      OBVIOUS
    <3>2. what.at = "found" /\ what.read = old
      BY <3>1
    <3>3. paperRequest' = [paperRequest EXCEPT ![r] = what]
      BY <2>3, <3>1 DEF Paper!Goto
    <3>4. QED
      BY <1>1, <2>1, <3>2, <3>3, BooksWait
  <2>4. ASSUME Paper!OpenPositions = {}, NEW price \in Prices, NEW cost,
               cost = price * Paper!CalculateQuantity(old.allocated_capital, price),
               Paper!Goto(r, [at |-> "open", read |-> old, cost |-> cost])
        PROVE  BooksInv'
    <3>1. PICK what : what = [at |-> "open", read |-> old, cost |-> cost]
      OBVIOUS
    <3>2. what.at = "open" /\ what.read = old /\ what.cost = cost
      BY <3>1
    <3>3. paperRequest' = [paperRequest EXCEPT ![r] = what]
      BY <2>4, <3>1 DEF Paper!Goto
    <3>4. cost \in Nat
      <4>1. old.allocated_capital \in Int
        BY <2>1 DEF Fair, PaperRow
      <4>2. Paper!CalculateQuantity(old.allocated_capital, price) \in Nat
        BY <4>1, QuantityIsNumber
      <4>3. price \in Nat
        BY Numbers
      <4>4. QED
        BY <2>4, <4>2, <4>3
    <3>5. QED
      BY <1>1, <2>1, <2>4, <3>2, <3>3, <3>4, BooksWait
  <2>5. QED
    BY <1>1, <2>1, <2>2, <2>3, <2>4, BooksEnd
<1>9. ASSUME Paper!CheckExit(r) PROVE BooksInv'
  <2>1. paperRequest[r].at = "found" /\ Fair(old) /\ paperInstance # NoRow
    BY <1>2, <1>5, <1>9 DEF Paper!CheckExit, Paper!At
  <2>2. \/ Paper!Ends(r) \/ Paper!Goto(r, [at |-> "update"])
        \/ \E p \in Paper!OpenPositions, signal \in {"exit", "stoploss", "target"} :
               Paper!Goto(r, [at |-> "close", read |-> old, signal |-> signal,
                        position |-> p, seen |-> paperPositions[p]])
    BY <1>4, <1>9 DEF Paper!CheckExit
  <2>3. ASSUME NEW p \in Paper!OpenPositions, NEW signal,
               Paper!Goto(r, [at |-> "close", read |-> old, signal |-> signal,
                        position |-> p, seen |-> paperPositions[p]])
        PROVE  BooksInv'
    <3>1. PICK copy : copy = paperPositions[p]
      OBVIOUS
    <3>2. PICK what : what = [at |-> "close", read |-> old, signal |-> signal,
                              position |-> p, seen |-> copy]
      OBVIOUS
    <3>3. what.at = "close" /\ what.read = old /\ what.position = p /\ what.seen = copy
      BY <3>2
    <3>4. paperRequest' = [paperRequest EXCEPT ![r] = what]
      BY <2>3, <3>1, <3>2 DEF Paper!Goto
    <3>5. /\ p \in PaperPositions /\ paperPositions[p] # NoRow /\ paperPositions[p].is_open
          /\ copy \in PaperPosition
      BY <3>1 DEF Paper!OpenPositions, BooksInv
    <3>6. QED
      BY <1>1, <2>1, <3>3, <3>4, <3>5, BooksWait
  <2>4. QED
    BY <1>1, <2>1, <2>2, <2>3, BooksEnd
<1>10. ASSUME Paper!UpdatePositions(r) PROVE BooksInv'
  <2>1. PICK rows : rows = [p \in Paper!OpenPositions |-> paperPositions[p]]
    OBVIOUS
  <2>2. PICK what : what = [at |-> "mark", rows |-> rows]
    OBVIOUS
  <2>3. what.at = "mark" /\ what.rows = rows
    BY <2>2
  <2>4. paperRequest' = [paperRequest EXCEPT ![r] = what] /\ paperInstance # NoRow
    BY <1>2, <1>10, <2>1, <2>2 DEF Paper!UpdatePositions, Paper!Goto, Paper!At
  <2>5. \A p \in DOMAIN rows : /\ p \in PaperPositions /\ paperPositions[p] # NoRow
                                /\ rows[p] \in PaperPosition
    BY <2>1 DEF Paper!OpenPositions, BooksInv
  <2>6. QED
    BY <1>1, <2>3, <2>4, <2>5, BooksWait
<1>11. QED
  BY <1>6, <1>7, <1>8, <1>9, <1>10

\* A change of status changes the status.
LEMMA BooksStatus ==
    ASSUME BooksInv, NEW r \in Requests, Paper!CommitStatus(r)
    PROVE  BooksInv'
<1>1. PICK row, read, new : /\ row = paperInstance /\ read = paperRequest[r].read
                            /\ new = paperRequest[r].new
  OBVIOUS
<1>2. BooksFit(r) /\ paperRequest[r].at = "status"
  BY DEF BooksInv, Paper!CommitStatus, Paper!At
<1>3. /\ row # NoRow /\ new \in PaperRow /\ read \in PaperRow
      /\ new.allocated_capital = read.allocated_capital
      /\ new.trades_count = read.trades_count
  BY <1>1, <1>2 DEF BooksFit, Fair
<1>4. Fair(row) /\ row \in PaperRow /\ (row.trades_count = 0 <=> Closed = 0)
  BY <1>1, <1>3 DEF BooksInv, Fair
<1>5. PICK after : after = Paper!Flush(row, read, new)
  OBVIOUS
<1>6. /\ after \in PaperRow /\ after.allocated_capital = row.allocated_capital
      /\ after.trades_count = row.trades_count
  BY <1>3, <1>4, <1>5 DEF Paper!Flush, PaperRow
<1>7. paperInstance' = after /\ after # NoRow
  BY <1>1, <1>5, <1>6, PaperConstants DEF Paper!CommitStatus
<1>8. PICK what : what = [at |-> "idle"] /\ paperRequest' = [paperRequest EXCEPT ![r] = what]
  BY DEF Paper!CommitStatus, Paper!Ends, Paper!Goto, Paper!Idle
<1>9. what.at = "idle" /\ UNCHANGED <<paperPositions, closings>>
  BY <1>8 DEF Paper!CommitStatus
<1>10. /\ Spent' = Spent /\ Closed' = Closed /\ Paper!OpenPositions' = Paper!OpenPositions
       /\ Spent \in Int /\ Closed \in Int
  BY <1>9, BooksCount DEF Spent, Closed, Paper!Entered, Paper!OpenPositions
<1>11. /\ DOMAIN paperRequest' = Requests
       /\ \A q \in Requests : BooksFit(q)'
       /\ Openers' = Openers \ {r}
       /\ \A p : Closers(p)' = Closers(p) \ {r}
  <2>1. /\ Spent' \in Int /\ Spent' >= Spent /\ Closed' \in Int /\ Closed' >= Closed
        /\ paperInstance # NoRow => paperInstance' # NoRow
        /\ \A p \in PaperPositions : paperPositions[p] # NoRow => paperPositions'[p] # NoRow
    BY <1>7, <1>9, <1>10
  <2>2. QED
    BY <1>8, <1>9, <2>1, BooksRequests
<1>12. Fair(after)'
  BY <1>4, <1>6, <1>10 DEF Fair
<1>13. QED
  BY <1>4, <1>6, <1>7, <1>9, <1>10, <1>11, <1>12, BooksFewer DEF BooksInv

\* A position is entered: one opener less, one open position more.
LEMMA BooksEnter ==
    ASSUME BooksInv, NEW r \in Requests, Paper!ExecuteEntry(r)
    PROVE  BooksInv'
<1>1. PICK row, read, cost : /\ row = paperInstance /\ read = paperRequest[r].read
                             /\ cost = paperRequest[r].cost
  OBVIOUS
<1>2. paperRequest[r].at = "open" /\ BooksFit(r) /\ r \in Openers
  BY DEF BooksInv, Paper!ExecuteEntry, Paper!At, Openers
<1>3. row # NoRow /\ Fair(read) /\ read \in PaperRow /\ cost \in Nat
  BY <1>1, <1>2 DEF BooksFit, Fair
<1>4. Fair(row) /\ row \in PaperRow /\ (row.trades_count = 0 <=> Closed = 0)
  BY <1>1, <1>3 DEF BooksInv, Fair
<1>5. PICK new : new = [is_open |-> TRUE, cost |-> cost, unrealized |-> FALSE]
  OBVIOUS
<1>6. new \in PaperPosition /\ new # NoRow /\ new.is_open /\ new.cost = cost
  <2>1. new \in PaperPosition /\ new.is_open /\ new.cost = cost
    BY <1>3, <1>5 DEF PaperPosition
  <2>2. QED
    BY <2>1, PaperConstants
<1>7. PICK p \in PaperPositions \ Paper!Entered :
         paperPositions' = [paperPositions EXCEPT ![p] = new]
  BY <1>1, <1>5 DEF Paper!ExecuteEntry
<1>8. /\ p \in PaperPositions /\ paperPositions[p] = NoRow /\ closings[p] = 0
      /\ paperPositions' \in [PaperPositions -> PaperPosition \cup {NoRow}]
      /\ paperPositions'[p] = new
      /\ \A q \in PaperPositions : q # p => paperPositions'[q] = paperPositions[q]
  BY <1>6, <1>7 DEF Paper!Entered, BooksInv
<1>9. /\ Paper!Entered' = Paper!Entered \cup {p} /\ p \notin Paper!Entered
      /\ Paper!OpenPositions' = Paper!OpenPositions \cup {p} /\ p \notin Paper!OpenPositions
  BY <1>6, <1>8 DEF Paper!Entered, Paper!OpenPositions
<1>10. closings' = closings /\ Closed' = Closed
  BY DEF Paper!ExecuteEntry, Closed
<1>11. Spent' = Spent + cost
  <2>1. PICK f, g, T : /\ T = Paper!Entered
                       /\ f = [q \in Paper!Entered |-> paperPositions[q].cost]
                       /\ g = [q \in T \cup {p} |-> paperPositions'[q].cost]
    OBVIOUS
  <2>2. IsFiniteSet(T) /\ p \notin T /\ \A q \in T : q # p /\ f[q] \in Int /\ g[q] = f[q]
    BY <1>8, <1>9, <2>1, BooksCount DEF PaperPosition
  <2>3. g[p] = cost /\ g[p] \in Int
    BY <1>3, <1>6, <1>8, <2>1
  <2>4. SumFunctionOnSet(g, T \cup {p}) = g[p] + SumFunctionOnSet(g, T)
    BY <2>2, <2>3, SumAdd
  <2>5. SumFunctionOnSet(f, T) = SumFunctionOnSet(g, T) /\ SumFunctionOnSet(f, T) \in Int
    BY <2>2, SumAgrees, SumType
  <2>6. Spent = SumFunctionOnSet(f, T)
    BY <2>1 DEF Spent
  <2>7. Spent' = SumFunctionOnSet(g, T \cup {p})
    BY <1>9, <2>1 DEF Spent
  <2>8. QED
    BY <1>3, <2>3, <2>4, <2>5, <2>6, <2>7
<1>12. Spent \in Nat /\ Closed \in Nat /\ Capital \in Int
  BY BooksCount, PaperConstants
<1>13. PICK after : after = Paper!Flush(row, read, [read EXCEPT !.allocated_capital = @ - cost])
  OBVIOUS
<1>14. /\ after \in PaperRow /\ after.trades_count = row.trades_count
       /\ after.allocated_capital \in {row.allocated_capital, read.allocated_capital - cost}
  BY <1>3, <1>4, <1>13 DEF Paper!Flush, PaperRow
<1>15. paperInstance' = after /\ after # NoRow
  BY <1>1, <1>13, <1>14, PaperConstants DEF Paper!ExecuteEntry
<1>16. Fair(after)'
  <2>1. /\ row.allocated_capital \in Int /\ read.allocated_capital \in Int
        /\ row.trades_count \in Nat
    BY <1>3, <1>4 DEF PaperRow
  <2>2. QED
    BY <1>3, <1>4, <1>10, <1>11, <1>12, <1>14, <2>1 DEF Fair
<1>17. PICK what : what = [at |-> "update"] /\ paperRequest' = [paperRequest EXCEPT ![r] = what]
  BY DEF Paper!ExecuteEntry, Paper!Goto
<1>18. what.at = "update"
  BY <1>17
<1>19. /\ DOMAIN paperRequest' = Requests
       /\ \A q \in Requests : BooksFit(q)'
       /\ Openers' = Openers \ {r}
       /\ \A q : Closers(q)' = Closers(q) \ {r}
  <2>1. /\ Spent' \in Int /\ Spent' >= Spent /\ Closed' \in Int /\ Closed' >= Closed
        /\ paperInstance # NoRow => paperInstance' # NoRow
        /\ \A q \in PaperPositions : paperPositions[q] # NoRow => paperPositions'[q] # NoRow
    BY <1>3, <1>6, <1>8, <1>10, <1>11, <1>12, <1>15
  <2>2. QED
    BY <1>1, <1>3, <1>17, <1>18, <2>1, BooksRequests
<1>20. Cardinality(Paper!OpenPositions') + Cardinality(Openers') <= Cardinality(Requests)
  <2>1. PICK O, T : O = Openers /\ T = Paper!OpenPositions
    OBVIOUS
  <2>2. IsFiniteSet(O) /\ IsFiniteSet(T) /\ r \in O /\ p \notin T
    BY <1>2, <1>9, <2>1, BooksCount, RequestsCount DEF Openers
  <2>3. Cardinality(O \ {r}) = Cardinality(O) - 1 /\ Cardinality(O) \in Nat
    BY <2>2, FS_RemoveElement, FS_CardinalityType
  <2>4. Cardinality(T \cup {p}) = Cardinality(T) + 1 /\ Cardinality(T) \in Nat
    BY <2>2, FS_AddElement, FS_CardinalityType
  <2>5. Cardinality(T) + Cardinality(O) <= Cardinality(Requests)
    BY <2>1 DEF BooksInv
  <2>6. Cardinality(Requests) \in Nat
    BY PaperConstants, FS_CardinalityType
  <2>7. QED
    BY <1>9, <1>19, <2>1, <2>3, <2>4, <2>5, <2>6
<1>21. ASSUME NEW q \in PaperPositions
       PROVE  /\ closings'[q] + Cardinality(Closers(q)') <= Cardinality(Requests)
              /\ closings'[q] > 0 => paperPositions'[q] # NoRow /\ ~paperPositions'[q].is_open
  <2>1. Closers(q) \subseteq Requests /\ Closers(q)' \subseteq Closers(q)
    BY <1>19 DEF Closers
  <2>2. Cardinality(Closers(q)') <= Cardinality(Closers(q)) /\ Cardinality(Closers(q)') \in Nat
        /\ Cardinality(Closers(q)) \in Nat
    BY <2>1, FewerRequests
  <2>3. Cardinality(Requests) \in Nat /\ closings[q] \in Nat
    BY PaperConstants, FS_CardinalityType DEF BooksInv
  <2>4. closings[q] + Cardinality(Closers(q)) <= Cardinality(Requests)
        /\ (closings[q] > 0 => paperPositions[q] # NoRow /\ ~paperPositions[q].is_open)
    BY DEF BooksInv
  <2>5. q = p => closings[q] = 0
    BY <1>8
  <2>6. QED
    BY <1>8, <1>10, <2>2, <2>3, <2>4, <2>5
<1>22. DOMAIN closings = PaperPositions /\ closings' \in [PaperPositions -> Nat]
  BY <1>10 DEF BooksInv
<1>23. paperInstance'.trades_count = 0 <=> Closed' = 0
  BY <1>4, <1>10, <1>14, <1>15
<1>24. QED
  BY <1>8, <1>15, <1>16, <1>19, <1>20, <1>21, <1>22, <1>23 DEF BooksInv

\* A position is closed, perhaps again: one trade more, one closer less.
LEMMA BooksExit ==
    ASSUME BooksInv, PaperInv, NEW r \in Requests, Paper!ExecuteExit(r)
    PROVE  BooksInv'
<1>1. PICK row, read, p, was : /\ row = paperInstance /\ read = paperRequest[r].read
                                /\ p = paperRequest[r].position /\ was = paperRequest[r].seen
  OBVIOUS
<1>2. paperRequest[r].at = "close" /\ BooksFit(r) /\ PaperFits(r) /\ r \in Closers(p)
  BY <1>1 DEF BooksInv, PaperInv, Paper!ExecuteExit, Paper!At, Closers
<1>3. /\ row # NoRow /\ Fair(read) /\ read \in PaperRow
      /\ p \in PaperPositions /\ paperPositions[p] # NoRow /\ was \in PaperPosition
      /\ was.is_open
  BY <1>1, <1>2 DEF BooksFit, Fair, PaperFits
<1>4. Fair(row) /\ row \in PaperRow /\ (row.trades_count = 0 <=> Closed = 0)
  BY <1>1, <1>3 DEF BooksInv, Fair
<1>5. PICK old : old = paperPositions[p] /\ old \in PaperPosition
  BY <1>3 DEF BooksInv
<1>6. \/ Paper!Ends(r) /\ UNCHANGED <<paperInstance, paperPositions, closings>>
      \/ /\ paperPositions' = [paperPositions EXCEPT ![p] =
              Paper!Flush(@, was, [was EXCEPT !.is_open = FALSE, !.unrealized = FALSE])]
         /\ paperInstance' = Paper!Flush(row, read, [read EXCEPT !.trades_count = @ + 1])
         /\ closings' = [closings EXCEPT ![p] = @ + 1]
         /\ Paper!Ends(r) \/ Paper!Goto(r, [at |-> "update"])
  BY <1>1 DEF Paper!ExecuteExit
<1>7. CASE Paper!Ends(r) /\ UNCHANGED <<paperInstance, paperPositions, closings>>
  BY <1>1, <1>3, <1>7, BooksEnd
<1>8. ASSUME paperPositions' = [paperPositions EXCEPT ![p] =
               Paper!Flush(@, was, [was EXCEPT !.is_open = FALSE, !.unrealized = FALSE])],
             paperInstance' = Paper!Flush(row, read, [read EXCEPT !.trades_count = @ + 1]),
             closings' = [closings EXCEPT ![p] = @ + 1],
             Paper!Ends(r) \/ Paper!Goto(r, [at |-> "update"])
      PROVE  BooksInv'
  <2>1. PICK new : new = Paper!Flush(old, was,
                           [was EXCEPT !.is_open = FALSE, !.unrealized = FALSE])
    OBVIOUS
  <2>2. new \in PaperPosition /\ ~new.is_open /\ new.cost = old.cost
    BY <1>3, <1>5, <2>1 DEF Paper!Flush, PaperPosition
  <2>3. new # NoRow
    BY <2>2, PaperConstants
  <2>4. paperPositions' = [paperPositions EXCEPT ![p] = new]
    BY <1>5, <1>8, <2>1
  <2>5. /\ paperPositions' \in [PaperPositions -> PaperPosition \cup {NoRow}]
        /\ paperPositions'[p] = new
        /\ \A q \in PaperPositions : q # p => paperPositions'[q] = paperPositions[q]
    BY <1>3, <2>2, <2>4 DEF BooksInv
  <2>6. /\ closings \in [PaperPositions -> Nat] /\ closings' \in [PaperPositions -> Nat]
        /\ closings'[p] = closings[p] + 1
        /\ \A q \in PaperPositions : q # p => closings'[q] = closings[q]
    BY <1>3, <1>8 DEF BooksInv
  <2>7. Paper!Entered' = Paper!Entered /\ Paper!OpenPositions' \subseteq Paper!OpenPositions
    BY <1>3, <2>2, <2>3, <2>5 DEF Paper!Entered, Paper!OpenPositions
  <2>8. Spent' = Spent
    <3>1. PICK f, g, T : /\ T = Paper!Entered
                         /\ f = [q \in Paper!Entered |-> paperPositions[q].cost]
                         /\ g = [q \in T |-> paperPositions'[q].cost]
      OBVIOUS
    <3>2. \A q \in T : q \in PaperPositions /\ paperPositions'[q].cost = paperPositions[q].cost
                       /\ paperPositions[q].cost \in Int
      BY <1>5, <2>2, <2>5, <3>1, BooksCount DEF PaperPosition
    <3>3. IsFiniteSet(T) /\ \A q \in T : f[q] \in Int /\ f[q] = g[q]
      BY <3>1, <3>2, BooksCount
    <3>4. SumFunctionOnSet(f, T) = SumFunctionOnSet(g, T)
      BY <3>3, SumAgrees
    <3>5. Spent = SumFunctionOnSet(f, T)
      BY <3>1 DEF Spent
    <3>6. Spent' = SumFunctionOnSet(g, T)
      BY <2>7, <3>1 DEF Spent
    <3>7. QED
      BY <3>4, <3>5, <3>6
  <2>9. Closed' = Closed + 1
    <3>1. PICK f, g : f = closings /\ g = closings'
      OBVIOUS
    <3>2. /\ \A q \in PaperPositions : f[q] \in Int /\ g[q] \in Int
          /\ \A q \in PaperPositions \ {p} : f[q] = g[q]
          /\ g[p] = f[p] + 1
      BY <2>6, <3>1
    <3>3. SumFunctionOnSet(g, PaperPositions) = SumFunctionOnSet(f, PaperPositions) + g[p] - f[p]
      BY <1>3, <3>2, PaperConstants, SumChange
    <3>4. SumFunctionOnSet(f, PaperPositions) \in Int /\ f[p] \in Int
      BY <1>3, <3>2, PaperConstants, SumType
    <3>5. Closed = SumFunctionOnSet(f, PaperPositions)
          /\ Closed' = SumFunctionOnSet(g, PaperPositions)
      BY <3>1 DEF Closed
    <3>6. QED
      BY <3>2, <3>3, <3>4, <3>5
  <2>10. Spent \in Nat /\ Closed \in Nat /\ Capital \in Int
    BY BooksCount, PaperConstants
  <2>11. PICK after : after = Paper!Flush(row, read, [read EXCEPT !.trades_count = @ + 1])
    OBVIOUS
  <2>12. /\ after \in PaperRow /\ after.trades_count = read.trades_count + 1
         /\ after.allocated_capital = row.allocated_capital
    BY <1>3, <1>4, <2>11 DEF Paper!Flush, PaperRow
  <2>13. paperInstance' = after /\ after # NoRow
    BY <1>8, <2>11, <2>12, PaperConstants
  <2>14. /\ row.allocated_capital \in Int /\ read.trades_count \in Nat
    BY <1>3, <1>4 DEF PaperRow
  <2>15. Fair(after)'
    BY <1>3, <1>4, <2>8, <2>9, <2>10, <2>12, <2>14 DEF Fair
  <2>16. PICK what : /\ what \in {[at |-> "idle"], [at |-> "update"]}
                     /\ paperRequest' = [paperRequest EXCEPT ![r] = what]
    BY <1>8 DEF Paper!Ends, Paper!Goto, Paper!Idle
  <2>17. what.at \in {"idle", "update"}
    BY <2>16
  <2>18. /\ DOMAIN paperRequest' = Requests
         /\ \A q \in Requests : BooksFit(q)'
         /\ Openers' = Openers \ {r}
         /\ \A q : Closers(q)' = Closers(q) \ {r}
    <3>1. /\ Spent' \in Int /\ Spent' >= Spent /\ Closed' \in Int /\ Closed' >= Closed
          /\ paperInstance # NoRow /\ paperInstance' # NoRow
          /\ \A q \in PaperPositions : paperPositions[q] # NoRow => paperPositions'[q] # NoRow
      BY <1>1, <1>3, <2>3, <2>5, <2>8, <2>9, <2>10, <2>13
    <3>2. QED
      BY <2>16, <2>17, <3>1, BooksRequests
  <2>19. Cardinality(Paper!OpenPositions') + Cardinality(Openers') <= Cardinality(Requests)
    <3>1. Openers \subseteq Requests /\ Openers' \subseteq Openers
      BY <2>18 DEF Openers
    <3>2. Cardinality(Openers') <= Cardinality(Openers) /\ Cardinality(Openers') \in Nat
          /\ Cardinality(Openers) \in Nat
      BY <3>1, FewerRequests
    <3>3. PICK S, T : S = Paper!OpenPositions /\ T = Paper!OpenPositions'
      OBVIOUS
    <3>4. IsFiniteSet(S) /\ IsFiniteSet(T) /\ T \subseteq S
      BY <2>7, <3>3, BooksCount, FS_Subset
    <3>5. Cardinality(T) <= Cardinality(S) /\ Cardinality(T) \in Nat /\ Cardinality(S) \in Nat
      BY <3>4, FS_Subset, FS_CardinalityType
    <3>6. Cardinality(S) + Cardinality(Openers) <= Cardinality(Requests)
      BY <3>3 DEF BooksInv
    <3>7. Cardinality(Requests) \in Nat
      BY PaperConstants, FS_CardinalityType
    <3>8. QED
      BY <3>2, <3>3, <3>5, <3>6, <3>7
  <2>20. ASSUME NEW q \in PaperPositions
         PROVE  /\ closings'[q] + Cardinality(Closers(q)') <= Cardinality(Requests)
                /\ closings'[q] > 0 => paperPositions'[q] # NoRow /\ ~paperPositions'[q].is_open
    <3>1. PICK C : C = Closers(q)
      OBVIOUS
    <3>2. C \subseteq Requests /\ Closers(q)' = C \ {r} /\ (q = p => r \in C)
      BY <1>2, <2>18, <3>1 DEF Closers
    <3>3. IsFiniteSet(C) /\ Cardinality(C) \in Nat
      BY <3>2, RequestsCount
    <3>4. q = p => Cardinality(C \ {r}) = Cardinality(C) - 1
      BY <3>2, <3>3, FS_RemoveElement
    <3>5. Cardinality(C \ {r}) <= Cardinality(C) /\ Cardinality(C \ {r}) \in Nat
      BY <3>2, FewerRequests
    <3>6. Cardinality(Requests) \in Nat /\ closings[q] \in Nat
      BY PaperConstants, FS_CardinalityType DEF BooksInv
    <3>7. closings[q] + Cardinality(C) <= Cardinality(Requests)
          /\ (closings[q] > 0 => paperPositions[q] # NoRow /\ ~paperPositions[q].is_open)
      BY <3>1 DEF BooksInv
    <3>8. CASE q = p
      BY <2>2, <2>3, <2>5, <2>6, <3>2, <3>3, <3>4, <3>5, <3>6, <3>7, <3>8
    <3>9. CASE q # p
      BY <2>5, <2>6, <3>2, <3>3, <3>5, <3>6, <3>7, <3>9
    <3>10. QED
      BY <3>8, <3>9
  <2>21. (paperInstance'.trades_count = 0 <=> Closed' = 0)
    BY <2>9, <2>10, <2>12, <2>13, <2>14
  <2>22. QED
    BY <2>5, <2>6, <2>13, <2>15, <2>18, <2>19, <2>20, <2>21 DEF BooksInv
<1>9. QED
  BY <1>6, <1>7, <1>8

\* Marking to market leaves the books alone.
LEMMA BooksMarks ==
    ASSUME BooksInv, NEW r \in Requests, Paper!CommitMarks(r)
    PROVE  BooksInv'
<1>1. PICK read : read = paperRequest[r].rows
  OBVIOUS
<1>2. PICK marks \in [DOMAIN read -> BOOLEAN] :
         paperPositions' = [p \in PaperPositions |->
             IF p \in DOMAIN read
             THEN Paper!Flush(paperPositions[p], read[p], [read[p] EXCEPT !.unrealized = marks[p]])
             ELSE paperPositions[p]]
  BY <1>1 DEF Paper!CommitMarks
<1>3. BooksFit(r) /\ paperRequest[r].at = "mark"
  BY DEF BooksInv, Paper!CommitMarks, Paper!At
<1>4. /\ paperInstance # NoRow
      /\ \A p \in DOMAIN read : /\ p \in PaperPositions /\ paperPositions[p] # NoRow
                                 /\ read[p] \in PaperPosition
  BY <1>1, <1>3 DEF BooksFit
<1>5. UNCHANGED <<paperInstance, closings>> /\ Paper!Ends(r)
  BY DEF Paper!CommitMarks
<1>6. ASSUME NEW p \in PaperPositions
      PROVE  \/ paperPositions[p] = NoRow /\ paperPositions'[p] = NoRow
             \/ /\ paperPositions[p] \in PaperPosition /\ paperPositions'[p] \in PaperPosition
                /\ paperPositions'[p].is_open = paperPositions[p].is_open
                /\ paperPositions'[p].cost = paperPositions[p].cost
  <2>1. CASE p \notin DOMAIN read
    BY <1>2, <2>1 DEF BooksInv
  <2>2. CASE p \in DOMAIN read
    <3>1. PICK old, was, mark : old = paperPositions[p] /\ was = read[p] /\ mark = marks[p]
      OBVIOUS
    <3>2. old \in PaperPosition /\ was \in PaperPosition /\ mark \in BOOLEAN
      BY <1>4, <2>2, <3>1 DEF BooksInv
    <3>3. PICK new : new = Paper!Flush(old, was, [was EXCEPT !.unrealized = mark])
      OBVIOUS
    <3>4. new \in PaperPosition /\ new.is_open = old.is_open /\ new.cost = old.cost
      BY <3>2, <3>3 DEF Paper!Flush, PaperPosition
    <3>5. paperPositions'[p] = new
      BY <1>2, <2>2, <3>1, <3>3
    <3>6. QED
      BY <3>1, <3>2, <3>4, <3>5
  <2>3. QED
    BY <2>1, <2>2
<1>7. paperPositions' \in [PaperPositions -> PaperPosition \cup {NoRow}]
  <2>1. /\ DOMAIN paperPositions' = PaperPositions
        /\ paperPositions' = [p \in PaperPositions |-> paperPositions'[p]]
    BY <1>2
  <2>2. \A p \in PaperPositions : paperPositions'[p] \in PaperPosition \cup {NoRow}
    BY <1>6
  <2>3. QED
    BY <2>1, <2>2
<1>8. Paper!Entered' = Paper!Entered /\ Paper!OpenPositions' = Paper!OpenPositions
  BY <1>6, PaperConstants DEF Paper!Entered, Paper!OpenPositions
<1>9. Spent' = Spent
  <2>1. PICK f, g, T : /\ T = Paper!Entered
                       /\ f = [q \in Paper!Entered |-> paperPositions[q].cost]
                       /\ g = [q \in T |-> paperPositions'[q].cost]
    OBVIOUS
  <2>2. \A q \in T : paperPositions'[q].cost = paperPositions[q].cost
                     /\ paperPositions[q].cost \in Int
    BY <1>6, <2>1, BooksCount DEF PaperPosition, Paper!Entered
  <2>3. IsFiniteSet(T) /\ \A q \in T : f[q] \in Int /\ f[q] = g[q]
    BY <2>1, <2>2, BooksCount
  <2>4. SumFunctionOnSet(f, T) = SumFunctionOnSet(g, T)
    BY <2>3, SumAgrees
  <2>5. Spent = SumFunctionOnSet(f, T)
    BY <2>1 DEF Spent
  <2>6. Spent' = SumFunctionOnSet(g, T)
    BY <1>8, <2>1 DEF Spent
  <2>7. QED
    BY <2>4, <2>5, <2>6
<1>10. Closed' = Closed /\ Spent \in Nat /\ Closed \in Nat
  BY <1>5, BooksCount DEF Closed
<1>11. PICK what : what = [at |-> "idle"] /\ paperRequest' = [paperRequest EXCEPT ![r] = what]
  BY <1>5 DEF Paper!Ends, Paper!Goto, Paper!Idle
<1>12. what.at = "idle"
  BY <1>11
<1>13. /\ DOMAIN paperRequest' = Requests
       /\ \A q \in Requests : BooksFit(q)'
       /\ Openers' = Openers \ {r}
       /\ \A q : Closers(q)' = Closers(q) \ {r}
  <2>1. /\ Spent' \in Int /\ Spent' >= Spent /\ Closed' \in Int /\ Closed' >= Closed
        /\ paperInstance # NoRow => paperInstance' # NoRow
        /\ \A q \in PaperPositions : paperPositions[q] # NoRow => paperPositions'[q] # NoRow
    BY <1>5, <1>6, <1>9, <1>10, PaperConstants
  <2>2. QED
    BY <1>11, <1>12, <2>1, BooksRequests
<1>14. Fair(paperInstance)' /\ (paperInstance'.trades_count = 0 <=> Closed' = 0)
  BY <1>4, <1>5, <1>9, <1>10 DEF BooksInv, Fair
<1>15. Cardinality(Paper!OpenPositions') + Cardinality(Openers') <= Cardinality(Requests)
  <2>1. Openers \subseteq Requests /\ Openers' \subseteq Openers
    BY <1>13 DEF Openers
  <2>2. Cardinality(Openers') <= Cardinality(Openers) /\ Cardinality(Openers') \in Nat
        /\ Cardinality(Openers) \in Nat
    BY <2>1, FewerRequests
  <2>3. Cardinality(Paper!OpenPositions) \in Nat /\ Cardinality(Requests) \in Nat
    BY BooksCount, PaperConstants, FS_CardinalityType
  <2>4. Cardinality(Paper!OpenPositions) + Cardinality(Openers) <= Cardinality(Requests)
    BY DEF BooksInv
  <2>5. QED
    BY <1>8, <2>2, <2>3, <2>4
<1>16. ASSUME NEW q \in PaperPositions
       PROVE  /\ closings'[q] + Cardinality(Closers(q)') <= Cardinality(Requests)
              /\ closings'[q] > 0 => paperPositions'[q] # NoRow /\ ~paperPositions'[q].is_open
  <2>1. Closers(q) \subseteq Requests /\ Closers(q)' \subseteq Closers(q)
    BY <1>13 DEF Closers
  <2>2. Cardinality(Closers(q)') <= Cardinality(Closers(q)) /\ Cardinality(Closers(q)') \in Nat
        /\ Cardinality(Closers(q)) \in Nat
    BY <2>1, FewerRequests
  <2>3. Cardinality(Requests) \in Nat /\ closings[q] \in Nat
    BY PaperConstants, FS_CardinalityType DEF BooksInv
  <2>4. closings[q] + Cardinality(Closers(q)) <= Cardinality(Requests)
        /\ (closings[q] > 0 => paperPositions[q] # NoRow /\ ~paperPositions[q].is_open)
    BY DEF BooksInv
  <2>5. paperPositions[q] # NoRow /\ ~paperPositions[q].is_open
        => paperPositions'[q] # NoRow /\ ~paperPositions'[q].is_open
    BY <1>6, PaperConstants
  <2>6. QED
    BY <1>5, <2>2, <2>3, <2>4, <2>5
<1>17. closings' \in [PaperPositions -> Nat]
  BY <1>5 DEF BooksInv
<1>18. QED
  BY <1>4, <1>5, <1>7, <1>13, <1>14, <1>15, <1>16, <1>17 DEF BooksInv

\* Every step.
LEMMA BooksSteps ==
    ASSUME BooksInv, PaperInv, [Paper!PaperStep]_(Paper!pvars)
    PROVE  BooksInv'
<1>1. CASE UNCHANGED Paper!pvars
  <2>1. UNCHANGED <<paperInstance, paperPositions, paperRequest, closings>>
    BY <1>1 DEF Paper!pvars
  <2>2. /\ Spent' = Spent /\ Closed' = Closed /\ Paper!OpenPositions' = Paper!OpenPositions
        /\ Openers' = Openers /\ \A p : Closers(p)' = Closers(p)
    BY <2>1 DEF Spent, Closed, Paper!Entered, Paper!OpenPositions, Openers, Closers
  <2>3. \A r \in Requests : BooksFit(r)'
    BY <2>1, <2>2 DEF BooksInv, BooksFit, Fair
  <2>4. QED
    BY <2>1, <2>2, <2>3 DEF BooksInv, Fair
<1>2. ASSUME NEW r \in Requests,
             \/ Paper!ChangeStatus(r) \/ Paper!CommitStatus(r) \/ Paper!Tick(r)
             \/ Paper!HasOpenPosition(r) \/ Paper!CheckExit(r) \/ Paper!UpdatePositions(r)
             \/ Paper!ExecuteEntry(r) \/ Paper!ExecuteExit(r) \/ Paper!CommitMarks(r)
      PROVE  BooksInv'
  BY <1>2, BooksReads, BooksStatus, BooksEnter, BooksExit, BooksMarks
<1>3. QED
  BY <1>1, <1>2, BooksBegin DEF Paper!PaperStep

-----------------------------------------------------------------------------
(* The second factor.                                                       *)

\* The row of the second factor.
FactorRow == [secret : Secrets \cup {None}, enabled : BOOLEAN]

\* A setup in flight has read a row that was not enabled, an enabling one a row with a secret.
SetupFits(r) ==
    setups[r] # Factor!Waiting =>
      /\ setups[r].op \in {"setup", "enable"}
      /\ setups[r].read \in FactorRow /\ setups[r].new \in FactorRow
      /\ setups[r].op = "setup" =>
           /\ ~setups[r].read.enabled /\ ~setups[r].new.enabled
           /\ setups[r].new.secret # None
      /\ setups[r].op = "enable" =>
           /\ setups[r].new.secret = setups[r].read.secret
           /\ setups[r].new.enabled /\ factor.secret # None

\* The secret was shown; a factor in use has one.
FactorInv ==
    /\ factor \in FactorRow
    /\ DOMAIN setups = Requests
    /\ None \notin shown
    /\ factor.secret \in shown \cup {None}
    /\ factor.enabled => factor.secret # None
    /\ \A r \in Requests : SetupFits(r)

\* What a commit makes of the row.
LEMMA FactorFlush ==
    ASSUME NEW row \in FactorRow, NEW read \in FactorRow, NEW new \in FactorRow
    PROVE  Factor!Flush(row, read, new) =
             [secret |-> IF new.secret = read.secret THEN row.secret ELSE new.secret,
              enabled |-> IF new.enabled = read.enabled THEN row.enabled ELSE new.enabled]
<1>1. DOMAIN row = {"secret", "enabled"}
  BY DEF FactorRow
<1>2. QED
  BY <1>1 DEF Factor!Flush

\* A setup or an enabling reads the row, and holds a copy of it.
LEMMA FactorReads ==
    ASSUME None \notin Secrets, FactorInv, NEW r \in Requests,
           Factor!SetupMfa(r) \/ Factor!EnableMfa(r)
    PROVE  FactorInv' /\ UNCHANGED factor
<1>1. UNCHANGED <<factor, shown>>
  BY DEF Factor!SetupMfa, Factor!EnableMfa, Factor!Reads
<1>2. PICK op \in {"setup", "enable"}, new \in FactorRow :
        /\ setups' = [setups EXCEPT ![r] = [op |-> op, read |-> factor, new |-> new]]
        /\ op = "setup" => ~factor.enabled /\ ~new.enabled /\ new.secret # None
        /\ op = "enable" => new.secret = factor.secret /\ new.enabled /\ factor.secret # None
  <2>1. CASE Factor!SetupMfa(r)
    <3>1. PICK secret \in Secrets :
            setups' = [setups EXCEPT ![r] = [op |-> "setup", read |-> factor,
                                            new |-> [factor EXCEPT !.secret = secret]]]
      BY <2>1 DEF Factor!SetupMfa, Factor!Reads
    <3>2. /\ [factor EXCEPT !.secret = secret] \in FactorRow
          /\ [factor EXCEPT !.secret = secret].enabled = factor.enabled
          /\ [factor EXCEPT !.secret = secret].secret = secret
      BY DEF FactorRow, FactorInv
    <3>3. ~factor.enabled
      BY <2>1 DEF Factor!SetupMfa
    <3>4. QED
      BY <3>1, <3>2, <3>3
  <2>2. CASE Factor!EnableMfa(r)
    <3>1. setups' = [setups EXCEPT ![r] = [op |-> "enable", read |-> factor,
                                           new |-> [factor EXCEPT !.enabled = TRUE]]]
      BY <2>2 DEF Factor!EnableMfa, Factor!Reads
    <3>2. /\ [factor EXCEPT !.enabled = TRUE] \in FactorRow
          /\ [factor EXCEPT !.enabled = TRUE].enabled
          /\ [factor EXCEPT !.enabled = TRUE].secret = factor.secret
      BY DEF FactorRow, FactorInv
    <3>3. factor.secret # None
      BY <2>2 DEF Factor!EnableMfa, Factor!VerifyCode
    <3>4. QED
      BY <3>1, <3>2, <3>3
  <2>3. QED
    BY <2>1, <2>2
<1>3. \A q \in Requests \ {r} : SetupFits(q)'
  BY <1>1, <1>2 DEF FactorInv, SetupFits, Factor!Waiting
<1>4. SetupFits(r)'
  BY <1>1, <1>2 DEF FactorInv, SetupFits
<1>5. QED
  BY <1>1, <1>2, <1>3, <1>4 DEF FactorInv

\* A commit keeps a factor in use, and changes its secret for a setup only.
LEMMA FactorCommits ==
    ASSUME FactorInv, NEW r \in Requests, Factor!MfaCommits(r)
    PROVE  /\ FactorInv'
           /\ factor.enabled => factor'.enabled
           /\ factor'.secret # factor.secret => 
                /\ setups[r].op = "setup" /\ setups'[r] = Factor!Waiting
                /\ ~setups[r].read.enabled
<1> DEFINE req == setups[r]
<1>1. /\ req # Factor!Waiting
      /\ factor' = Factor!Flush(factor, req.read, req.new)
      /\ shown' = IF req.op = "setup" THEN shown \cup {req.new.secret} ELSE shown
      /\ setups' = [setups EXCEPT ![r] = Factor!Waiting]
  BY DEF Factor!MfaCommits
<1>2. /\ req.read \in FactorRow /\ req.new \in FactorRow /\ factor \in FactorRow
      /\ req.op \in {"setup", "enable"}
      /\ req.op = "setup" => ~req.read.enabled /\ ~req.new.enabled /\ req.new.secret # None
      /\ req.op = "enable" =>
           req.new.secret = req.read.secret /\ req.new.enabled /\ factor.secret # None
  BY <1>1 DEF FactorInv, SetupFits
<1>3. factor' =
        [secret |-> IF req.new.secret = req.read.secret THEN factor.secret ELSE req.new.secret,
         enabled |-> IF req.new.enabled = req.read.enabled THEN factor.enabled
                     ELSE req.new.enabled]
  BY <1>1, <1>2, FactorFlush
<1>4. factor' \in FactorRow
  BY <1>2, <1>3 DEF FactorRow
<1>5. \A q \in Requests : setups'[q] = IF q = r THEN Factor!Waiting ELSE setups[q]
  BY <1>1 DEF FactorInv
<1>6. CASE req.op = "setup"
  <2>1. factor'.enabled = factor.enabled /\ factor'.secret \in {factor.secret, req.new.secret}
    BY <1>2, <1>3, <1>6 DEF FactorRow
  <2>2. factor.secret # None => factor'.secret # None
    BY <1>2, <1>6, <2>1
  <2>3. \A q \in Requests : SetupFits(q)'
    BY <1>5, <2>2 DEF FactorInv, SetupFits, Factor!Waiting
  <2>4. None \notin shown' /\ factor'.secret \in shown' \cup {None}
    BY <1>1, <1>2, <1>6, <2>1 DEF FactorInv
  <2>5. DOMAIN setups' = Requests /\ (factor'.enabled => factor'.secret # None)
    BY <1>1, <2>1, <2>2 DEF FactorInv
  <2>6. setups'[r] = Factor!Waiting
    BY <1>5
  <2>7. QED
    BY <1>2, <1>4, <1>6, <2>1, <2>3, <2>4, <2>5, <2>6 DEF FactorInv
<1>7. CASE req.op = "enable"
  <2>1. factor'.secret = factor.secret /\ (factor.enabled => factor'.enabled)
    BY <1>2, <1>3, <1>7 DEF FactorRow
  <2>2. \A q \in Requests : SetupFits(q)'
    BY <1>5, <2>1 DEF FactorInv, SetupFits, Factor!Waiting
  <2>3. DOMAIN setups' = Requests /\ (factor'.enabled => factor'.secret # None)
    BY <1>1, <1>2, <1>7, <2>1 DEF FactorInv
  <2>4. shown' = shown
    BY <1>1, <1>7
  <2>5. QED
    BY <1>4, <2>1, <2>2, <2>3, <2>4 DEF FactorInv
<1>8. QED
  BY <1>2, <1>6, <1>7

\* The action of Mfa!SecretSettles.
SecretStays ==
    factor.enabled =>
         /\ factor'.enabled
         /\ \E code \in shown' : Factor!VerifyCode(factor'.secret, code)
         /\ factor'.secret # factor.secret =>
              \E r \in Requests : /\ setups[r].op = "setup" /\ setups'[r] = Factor!Waiting
                                  /\ ~setups[r].read.enabled

\* Every step.
LEMMA FactorSteps ==
    ASSUME None \notin Secrets, FactorInv, [Factor!MfaStep]_(Factor!fvars)
    PROVE  FactorInv' /\ SecretStays
<1>1. CASE UNCHANGED Factor!fvars
  <2>1. UNCHANGED <<factor, setups, shown>>
    BY <1>1 DEF Factor!fvars
  <2>2. FactorInv'
    BY <2>1 DEF FactorInv, SetupFits
  <2>3. QED
    BY <2>1, <2>2 DEF SecretStays, FactorInv, Factor!VerifyCode
<1>2. ASSUME NEW r \in Requests, Factor!SetupMfa(r) \/ Factor!EnableMfa(r)
      PROVE  FactorInv' /\ SecretStays
  <2>1. FactorInv' /\ UNCHANGED factor
    BY <1>2, FactorReads
  <2>2. QED
    BY <2>1 DEF SecretStays, FactorInv, Factor!VerifyCode
<1>3. ASSUME NEW r \in Requests, Factor!MfaCommits(r)
      PROVE  FactorInv' /\ SecretStays
  <2>1. /\ FactorInv'
        /\ factor.enabled => factor'.enabled
        /\ factor'.secret # factor.secret =>
             /\ setups[r].op = "setup" /\ setups'[r] = Factor!Waiting
             /\ ~setups[r].read.enabled
    BY <1>3, FactorCommits
  <2>2. QED
    BY <2>1 DEF SecretStays, FactorInv, Factor!VerifyCode
<1>4. QED
  BY <1>1, <1>2, <1>3 DEF Factor!MfaStep

\* The first state.
LEMMA FactorStarts == Factor!MfaInit => FactorInv
BY DEF Factor!MfaInit, FactorInv, FactorRow, SetupFits, Factor!Waiting

-----------------------------------------------------------------------------
(* Password resets.                                                         *)

\* The columns of password resets.
Columns == {"password", "token", "expires"}

\* What a request in flight will write, and the token it is about.
ResetFits(r) ==
    resets[r] # Password!Idle =>
      /\ resets[r].op \in {"forgot", "reset"}
      /\ resets[r].op = "forgot" =>
           /\ resets[r].token \in Tokens /\ resets[r].token \notin Password!ToSet(told)
           /\ DOMAIN resets[r].writes = {"token", "expires"}
           /\ resets[r].writes["token"] = resets[r].token
      /\ resets[r].op = "reset" =>
           /\ resets[r].token \in Password!ToSet(told)
           /\ DOMAIN resets[r].writes = Columns
           /\ resets[r].writes["token"] = None

\* Two requests never draw the same token.
DrawnApart ==
    \A q, r \in Requests :
        (q # r /\ resets[q].op = "forgot" /\ resets[r].op = "forgot") =>
            resets[q].token # resets[r].token

\* The token of the row is the last that was told, and was not used.
TokenCurrent ==
    credential.token # None =>
        /\ told # <<>>
        /\ credential.token = Password!Last(told) /\ spent[credential.token] = 0

\* The resets in flight that read the row with a token.
Resetting(t) == {r \in Requests : resets[r].op = "reset" /\ resets[r].token = t}

\* What a token has set, and will set, is no more than requests; and it was told before.
SpentFits ==
    \A t \in Tokens :
        /\ spent[t] + Cardinality(Resetting(t)) <= Cardinality(Requests)
        /\ spent[t] > 0 => t \in Password!ToSet(told)

\* Tokens are told once, and requests hold the ones they read.
PasswordInv ==
    /\ DOMAIN credential = Columns
    /\ DOMAIN resets = Requests
    /\ told \in Seq(Tokens)
    /\ spent \in [Tokens -> Nat]
    /\ TokenCurrent
    /\ \A r \in Requests : ResetFits(r)
    /\ DrawnApart
    /\ SpentFits

\* The action of Passwords!TokensSettle.
TokenStays ==
       /\ credential.token # None =>
            credential.token = Password!Last(told) /\ spent[credential.token] = 0
       /\ credential' # credential =>
            \/ /\ credential'.password = credential.password
               /\ credential'.token = Password!Last(told')
            \/ \E r \in Requests : /\ resets[r].op = "reset" /\ resets'[r] = Password!Idle
                                  /\ resets[r].token \in Password!ToSet(told)
                                  /\ credential'.password = resets[r].writes.password
                                  /\ credential'.token = None
       /\ \A t \in Tokens : spent[t] <= Password!Cardinality(Requests)

\* Resets in flight can be counted.
LEMMA ResettingFinite ==
    ASSUME IsFiniteSet(Requests), NEW t
    PROVE  /\ IsFiniteSet(Resetting(t)) /\ Cardinality(Resetting(t)) \in Nat
           /\ Cardinality(Requests) \in Nat
           /\ Cardinality(Resetting(t)) <= Cardinality(Requests)
           /\ Cardinality(Resetting(t)') \in Nat
           /\ Cardinality(Resetting(t)') <= Cardinality(Requests)
<1>1. Resetting(t) \subseteq Requests /\ Resetting(t)' \subseteq Requests
  BY DEF Resetting
<1> HIDE DEF Resetting
<1>2. QED
  BY <1>1, FS_Subset, FS_CardinalityType

\* What the invariant says of a state is the first and the last part of the action.
LEMMA TokenNow ==
    ASSUME IsFiniteSet(Requests), PasswordInv
    PROVE  /\ credential.token # None =>
                credential.token = Password!Last(told) /\ spent[credential.token] = 0
           /\ \A t \in Tokens : spent[t] <= Password!Cardinality(Requests)
<1>1. Password!Cardinality(Requests) = Cardinality(Requests)
  BY DEF Password!Cardinality, Cardinality
<1>2. ASSUME NEW t \in Tokens PROVE spent[t] <= Cardinality(Requests)
  <2>1. spent[t] \in Nat /\ spent[t] + Cardinality(Resetting(t)) <= Cardinality(Requests)
    BY DEF PasswordInv, SpentFits
  <2>2. QED
    BY <2>1, ResettingFinite
<1>3. QED
  BY <1>1, <1>2 DEF PasswordInv, TokenCurrent

\* What the end of a sequence, and one element more, make of its elements.
LEMMA ToSetOf ==
    ASSUME NEW s \in Seq(Tokens)
    PROVE  /\ s # <<>> => Password!Last(s) \in Password!ToSet(s)
           /\ Password!ToSet(s) \subseteq Tokens
           /\ \A t : t \in Tokens =>
                /\ Append(s, t) \in Seq(Tokens)
                /\ Append(s, t) # <<>>
                /\ Password!Last(Append(s, t)) = t
                /\ Password!ToSet(Append(s, t)) = Password!ToSet(s) \cup {t}
<1>1. /\ s # <<>> => Password!Last(s) \in Password!ToSet(s)
      /\ Password!ToSet(s) \subseteq Tokens
  BY DEF Password!Last, Password!ToSet
<1>2. ASSUME NEW t \in Tokens
      PROVE  /\ Append(s, t) \in Seq(Tokens)
                /\ Append(s, t) # <<>>
                /\ Password!Last(Append(s, t)) = t
  BY DEF Password!Last
<1>3. ASSUME NEW t \in Tokens
      PROVE Password!ToSet(Append(s, t)) = Password!ToSet(s) \cup {t}
  <2>1. /\ DOMAIN s = 1 .. Len(s) /\ Len(s) \in Nat
        /\ DOMAIN Append(s, t) = 1 .. Len(s) + 1
        /\ \A i \in 1 .. Len(s) : Append(s, t)[i] = s[i]
        /\ Append(s, t)[Len(s) + 1] = t
    OBVIOUS
  <2>2. \A i \in 1 .. Len(s) + 1 : i \in 1 .. Len(s) \/ i = Len(s) + 1
    BY <2>1
  <2>3. \A i \in 1 .. Len(s) : i \in 1 .. Len(s) + 1
    BY <2>1
  <2>4. Len(s) + 1 \in 1 .. Len(s) + 1
    BY <2>1
  <2>. QED
    BY <2>1, <2>2, <2>3, <2>4 DEF Password!ToSet
<1>. QED
  BY <1>1, <1>2, <1>3

\* A request draws a token, or reads the one that is in the row.
LEMMA PasswordReads ==
    ASSUME None \notin Tokens, IsFiniteSet(Requests), PasswordInv, NEW r \in Requests,
           Password!ForgotPassword(r) \/ Password!ResetPassword(r)
    PROVE  PasswordInv' /\ TokenStays
<1>1. UNCHANGED <<credential, told, spent>> /\ resets[r] = Password!Idle
  BY DEF Password!ForgotPassword, Password!ResetPassword, Password!Reads
<1>2. TokenCurrent' /\ TokenStays
  BY <1>1, TokenNow DEF PasswordInv, TokenCurrent, TokenStays
<1>3. CASE Password!ForgotPassword(r)
  <2>0. PICK token \in Tokens \ Password!Drawn :
          resets' = [resets EXCEPT ![r] = [op |-> "forgot", token |-> token,
                       writes |-> [token |-> token, expires |-> hour + 1]]]
    BY <1>3 DEF Password!ForgotPassword, Password!Reads
  <2>1. PICK writes :
          /\ writes = [token |-> token, expires |-> hour + 1]
          /\ resets' = [resets EXCEPT ![r] =
                [op |-> "forgot", token |-> token, writes |-> writes]]
    BY <2>0
  <2>2. /\ token \notin Password!ToSet(told)
        /\ \A q \in Requests : resets[q].op = "forgot" => resets[q].token # token
    BY DEF Password!Drawn
  <2>4. DOMAIN writes = {"token", "expires"} /\ writes["token"] = token
    BY <2>1
  <2>5. \A q \in Requests : resets'[q] =
            IF q = r THEN [op |-> "forgot", token |-> token, writes |-> writes] ELSE resets[q]
    BY <2>1 DEF PasswordInv
  <2>6. \A q \in Requests : ResetFits(q)'
    BY <1>1, <2>2, <2>4, <2>5 DEF PasswordInv, ResetFits
  <2>7. DrawnApart'
    BY <2>2, <2>5 DEF PasswordInv, DrawnApart
  <2>8. DOMAIN resets' = Requests
    BY <2>1 DEF PasswordInv
  <2>9. \A t : Resetting(t)' = Resetting(t)
    BY <1>1, <2>5 DEF Resetting, Password!Idle
  <2>10. SpentFits'
    BY <1>1, <2>9 DEF PasswordInv, SpentFits
  <2>11. QED
    BY <1>1, <1>2, <2>6, <2>7, <2>8, <2>10 DEF PasswordInv
<1>4. CASE Password!ResetPassword(r)
  <2>0. PICK token \in Password!ToSet(told), password \in Passwords :
          /\ credential.token = token
          /\ resets' = [resets EXCEPT ![r] = [op |-> "reset", token |-> token,
                writes |-> [password |-> password, token |-> None, expires |-> 0]]]
    BY <1>4 DEF Password!ResetPassword, Password!Reads
  <2>1. PICK writes :
          /\ writes = [password |-> password, token |-> None, expires |-> 0]
          /\ resets' = [resets EXCEPT ![r] =
                [op |-> "reset", token |-> token, writes |-> writes]]
    BY <2>0
  <2>2. credential["token"] # None /\ token \in Tokens
    BY <2>0, ToSetOf DEF PasswordInv
  <2>4. DOMAIN writes = Columns /\ writes["token"] = None
    BY <2>1 DEF Columns
  <2>5. \A q \in Requests : resets'[q] =
            IF q = r THEN [op |-> "reset", token |-> token, writes |-> writes] ELSE resets[q]
    BY <2>1 DEF PasswordInv
  <2>6. \A q \in Requests : ResetFits(q)'
    BY <1>1, <2>4, <2>5 DEF PasswordInv, ResetFits
  <2>7. DrawnApart'
    BY <2>5 DEF PasswordInv, DrawnApart
  <2>8. DOMAIN resets' = Requests
    BY <2>1 DEF PasswordInv
  <2>9. SpentFits'
    <3>1. ASSUME NEW t \in Tokens
          PROVE  spent[t] + Cardinality(Resetting(t)') <= Cardinality(Requests)
      <4>1. CASE t = token
        <5>1. spent[t] = 0
          BY <2>0, <2>2, <4>1 DEF PasswordInv, TokenCurrent
        <5>2. QED
          BY <5>1, ResettingFinite
      <4>2. CASE t # token
        <5>1. Resetting(t)' = Resetting(t)
          BY <1>1, <2>5, <4>2 DEF Resetting, Password!Idle
        <5>2. QED
          BY <5>1 DEF PasswordInv, SpentFits
      <4>3. QED
        BY <4>1, <4>2
    <3>2. QED
      BY <1>1, <3>1 DEF PasswordInv, SpentFits
  <2>10. QED
    BY <1>1, <1>2, <2>6, <2>7, <2>8, <2>9 DEF PasswordInv
<1>5. QED
  BY <1>3, <1>4

\* A commit tells a token, or uses it.
LEMMA PasswordWrites ==
    ASSUME None \notin Tokens, IsFiniteSet(Requests), PasswordInv, NEW r \in Requests,
           Password!PasswordCommits(r)
    PROVE  PasswordInv' /\ TokenStays
<1>0. PICK req : req = resets[r]
  OBVIOUS
<1>1. /\ req # Password!Idle
      /\ credential' = Password!With(credential, req.writes)
      /\ req.op = "forgot" => told' = Append(told, req.token) /\ spent' = spent
      /\ req.op # "forgot" =>
            spent' = [spent EXCEPT ![req.token] = @ + 1] /\ told' = told
      /\ resets' = [resets EXCEPT ![r] = Password!Idle]
  BY <1>0 DEF Password!PasswordCommits
<1>2. /\ DOMAIN credential' = Columns
      /\ credential'["token"] = req.writes["token"]
      /\ req.op = "forgot" => credential'["password"] = credential["password"]
      /\ req.op = "reset" => credential'["password"] = req.writes["password"]
      /\ DOMAIN resets' = Requests
      /\ \A q \in Requests : resets'[q] = IF q = r THEN Password!Idle ELSE resets[q]
  BY <1>0, <1>1 DEF PasswordInv, ResetFits, Password!With, Columns
<1>3. DrawnApart'
  BY <1>2 DEF PasswordInv, DrawnApart, Password!Idle
<1>4. CASE req.op = "forgot"
  <2>1. /\ req.token \in Tokens /\ req.token \notin Password!ToSet(told)
        /\ credential'["token"] = req.token
    BY <1>0, <1>1, <1>2, <1>4 DEF PasswordInv, ResetFits
  <2>2. /\ told' \in Seq(Tokens) /\ told' # <<>>
        /\ Password!Last(told') = req.token
        /\ Password!ToSet(told') = Password!ToSet(told) \cup {req.token}
    BY <1>1, <1>4, <2>1, ToSetOf DEF PasswordInv
  <2>3. \A q \in Requests : ResetFits(q)'
    BY <1>0, <1>2, <1>4, <2>2 DEF PasswordInv, ResetFits, DrawnApart
  <2>4. TokenCurrent'
    <3>1. spent[req.token] \in Nat /\ ~(spent[req.token] > 0)
      BY <2>1 DEF PasswordInv, SpentFits
    <3>2. spent'[req.token] = 0
      BY <1>1, <1>4, <3>1
    <3>3. QED
      BY <2>1, <2>2, <3>2 DEF TokenCurrent
  <2>5. \A t : Resetting(t)' = Resetting(t)
    BY <1>0, <1>2, <1>4 DEF Resetting, Password!Idle
  <2>6. SpentFits'
    BY <1>1, <1>4, <2>2, <2>5 DEF PasswordInv, SpentFits
  <2>7. PasswordInv'
    BY <1>1, <1>2, <1>3, <1>4, <2>2, <2>3, <2>4, <2>6 DEF PasswordInv
  <2>8. TokenStays
    BY <1>2, <1>4, <2>1, <2>2, TokenNow DEF TokenStays
  <2>9. QED
    BY <2>7, <2>8
<1>5. CASE req.op = "reset"
  <2>1. req.token \in Password!ToSet(told) /\ credential'["token"] = None
    BY <1>0, <1>1, <1>2, <1>5 DEF PasswordInv, ResetFits
  <2>2. PICK token \in Tokens : token = req.token
    BY <2>1, ToSetOf DEF PasswordInv
  <2>3. told' = told /\ spent' = [spent EXCEPT ![token] = @ + 1]
    BY <1>1, <1>5, <2>2
  <2>4. \A q \in Requests : ResetFits(q)'
    BY <1>2, <2>3 DEF PasswordInv, ResetFits
  <2>5. /\ spent' \in [Tokens -> Nat]
        /\ spent'[token] = spent[token] + 1
        /\ \A t \in Tokens \ {token} : spent'[t] = spent[t]
    BY <2>3 DEF PasswordInv
  <2>6. ASSUME NEW t \in Tokens
        PROVE  spent'[t] + Cardinality(Resetting(t)') <= Cardinality(Requests)
    <3>1. /\ spent[t] \in Nat
          /\ spent[t] + Cardinality(Resetting(t)) <= Cardinality(Requests)
      BY DEF PasswordInv, SpentFits
    <3>2. CASE t = token
      <4>1. Resetting(t)' = Resetting(t) \ {r} /\ r \in Resetting(t)
        BY <1>0, <1>2, <1>5, <2>2, <3>2 DEF Resetting, Password!Idle
      <4>2. PICK T : T = Resetting(t)
        OBVIOUS
      <4>3. IsFiniteSet(T) /\ r \in T
        BY <4>1, <4>2, ResettingFinite
      <4>4. Cardinality(T \ {r}) = Cardinality(T) - 1
        BY <4>3, FS_RemoveElement
      <4>5. QED
        BY <2>5, <3>1, <3>2, <4>1, <4>2, <4>4, ResettingFinite
    <3>3. CASE t # token
      <4>1. Resetting(t)' = Resetting(t)
        BY <1>0, <1>2, <2>2, <3>3 DEF Resetting, Password!Idle
      <4>2. QED
        BY <2>5, <3>1, <3>3, <4>1
    <3>4. QED
      BY <3>2, <3>3
  <2>7. SpentFits'
    BY <2>1, <2>2, <2>3, <2>5, <2>6 DEF PasswordInv, SpentFits
  <2>8. PasswordInv'
    BY <1>2, <1>3, <2>1, <2>3, <2>4, <2>5, <2>7 DEF PasswordInv, TokenCurrent
  <2>9. TokenStays
    BY <1>0, <1>2, <1>5, <2>1, TokenNow DEF TokenStays
  <2>10. QED
    BY <2>8, <2>9
<1>6. QED
  BY <1>0, <1>1, <1>4, <1>5 DEF PasswordInv, ResetFits

\* Every step.
LEMMA PasswordSteps ==
    ASSUME None \notin Tokens, IsFiniteSet(Requests), PasswordInv,
           [Password!PasswordStep]_(Password!pvars)
    PROVE  PasswordInv' /\ TokenStays
<1>1. ASSUME UNCHANGED <<credential, resets, told, spent>>
      PROVE  PasswordInv' /\ TokenStays
  <2>1. PasswordInv'
    BY <1>1 DEF PasswordInv, ResetFits, DrawnApart, TokenCurrent, SpentFits, Resetting
  <2>2. QED
    BY <1>1, <2>1, TokenNow DEF TokenStays
<1>2. QED
  BY <1>1, PasswordReads, PasswordWrites
     DEF Password!PasswordStep, Password!HourPasses, Password!pvars

\* The first state.
LEMMA PasswordStarts ==
    ASSUME IsFiniteSet(Requests), Password!PasswordsInit PROVE PasswordInv
<1>1. \A t : Resetting(t) = {}
  BY DEF Resetting, Password!PasswordsInit, Password!Idle
<1>2. Cardinality(Requests) \in Nat /\ Cardinality({}) = 0
  BY FS_CardinalityType, FS_EmptySet
<1>3. ASSUME NEW t \in Tokens
      PROVE  /\ spent[t] = 0
             /\ spent[t] + Cardinality(Resetting(t)) <= Cardinality(Requests)
  <2>1. spent[t] = 0
    BY DEF Password!PasswordsInit
  <2>2. Cardinality(Resetting(t)) = 0
    BY <1>1, <1>2
  <2>3. QED
    BY <1>2, <2>1, <2>2
<1>4. SpentFits
  BY <1>3 DEF SpentFits
<1>5. QED
  BY <1>4 DEF Password!PasswordsInit, PasswordInv, ResetFits, DrawnApart, TokenCurrent, Columns,
       Password!Idle, Password!ToSet

-----------------------------------------------------------------------------
(* Accounts and sessions.                                                   *)

\* The rows of the table of sessions.
SessionRow == [user : Users, active : BOOLEAN, created : Nat, late : BOOLEAN]

\* What the proof needs of the constants.
AccountsOK ==
    /\ NoRow \notin Account!User /\ NoRow \notin SessionRow
    /\ LockPeriod \in Nat

\* An open session that its login inserted before any suspension looked for it.
Unlate(s, u) ==
    /\ sessions[s] # NoRow /\ sessions[s]["user"] = u
    /\ sessions[s]["active"] = TRUE /\ sessions[s]["late"] = FALSE

\* What the requests in flight have read and will write.
Inserts(what) ==
    what.op \in {"register", "google", "admin"} =>
      what.on \in Users /\ what.new \in Account!User /\ what.new.status # "SUSPENDED"

\* A login counts in two columns.
Counts(what) ==
    what.op \in {"failed", "admitted"} =>
      /\ what.on \in Users /\ users[what.on] # NoRow
      /\ DOMAIN what.writes \subseteq {"failed", "locked"}
      /\ \A c \in DOMAIN what.writes : what.writes[c] \in Nat

\* A decision of an administrator writes the status it stands for, of a row he has read.
Decides(what) ==
    what.op \in Account!ByAdmin \cup {"suspend"} =>
      /\ what.on \in Users /\ users[what.on] # NoRow
      /\ DOMAIN what.writes = {"status"}
      /\ what.op \in {"approve", "reactivate"} => what.writes["status"] = "ACTIVE"
      /\ what.op = "reject" => what.writes["status"] = "REJECTED"
      /\ what.op \in {"suspending", "suspend"} => what.writes["status"] = "SUSPENDED"
      /\ what.op \in {"approve", "reject"} => what.was = "PENDING"
      /\ what.op = "reactivate" => what.was = "SUSPENDED"
      /\ what.op \in {"suspending", "suspend"} =>
            what.was \in Account!Status \ {"SUSPENDED"}

\* A suspension closes every session but the late ones.
Closes(what) ==
    what.op = "suspend" =>
      what.rows \subseteq Sessions /\ \A s \in Sessions : Unlate(s, what.on) => s \in what.rows

\* A session is opened for an account.
Logins(what) == what.op = "session" => what.on \in Users

\* A revocation names a session.
Revokes(what) == what.op = "revoke" => what.session \in Sessions

\* All of this, of one request.
AccountFits(what) ==
    /\ Inserts(what) /\ Counts(what) /\ Decides(what) /\ Closes(what) /\ Logins(what)
    /\ Revokes(what)

\* The tables hold rows.
AccountTyped ==
    /\ users \in [Users -> Account!User \cup {NoRow}]
    /\ sessions \in [Sessions -> SessionRow \cup {NoRow}]
    /\ issued \subseteq Sessions
    /\ now \in Nat /\ DOMAIN accountRequest = Requests

\* No suspended account has an open session but a late one.
SuspendedOut ==
    \A u \in Users, s \in Sessions :
       users[u] # NoRow /\ users[u].status = "SUSPENDED" => ~Unlate(s, u)

\* The inductive invariant.
AccountInv ==
    /\ AccountTyped /\ SuspendedOut
    /\ \A r \in Requests : AccountFits(accountRequest[r])

\* What lets the requests in flight be: accounts that are there stay, and nobody
\* opens a session that a suspension in flight should have closed.
AccountsFrame ==
    /\ \A u \in Users : users[u] # NoRow => users'[u] # NoRow
    /\ \A q \in Requests, s \in Sessions, u \in Users :
         accountRequest[q].op = "suspend" /\ accountRequest[q].on = u =>
            (Unlate(s, u)' => Unlate(s, u))

\* A request in flight fits as long as the frame holds.
LEMMA FrameFits ==
    ASSUME AccountsFrame, NEW q \in Requests, AccountFits(accountRequest[q]),
           NEW what, what = accountRequest[q]
    PROVE  AccountFits(what)'
<1>1. Inserts(what)' /\ Logins(what)'
  BY DEF AccountFits, Inserts, Logins
<1>2. Counts(what)'
  BY DEF AccountFits, Counts, AccountsFrame
<1>3. Decides(what)'
  BY DEF AccountFits, Decides, AccountsFrame
<1>4. Closes(what)'
  <2>1. SUFFICES ASSUME what.op = "suspend"
                 PROVE  /\ what.rows \subseteq Sessions
                        /\ \A s \in Sessions : Unlate(s, what.on)' => s \in what.rows
    BY DEF Closes, Unlate
  <2>2. \A s \in Sessions : Unlate(s, what.on)' => Unlate(s, what.on)
    <3>1. what.on \in Users
      BY <2>1 DEF AccountFits, Decides
    <3>2. QED
      BY <2>1, <3>1 DEF AccountsFrame
  <2>3. QED
    BY <2>1, <2>2 DEF AccountFits, Closes
<1>5. Revokes(what)'
  BY DEF AccountFits, Revokes, AccountsFrame
<1>6. QED
  BY <1>1, <1>2, <1>3, <1>4, <1>5 DEF AccountFits

\* A step of one request keeps the invariant if what that request holds fits.
LEMMA AccountLater ==
    ASSUME AccountInv, AccountsFrame, NEW r \in Requests, NEW what,
           accountRequest' = [accountRequest EXCEPT ![r] = what],
           AccountFits(what)', 
           users' \in [Users -> Account!User \cup {NoRow}],
           sessions' \in [Sessions -> SessionRow \cup {NoRow}],
           issued' \subseteq Sessions, now' \in Nat,
           SuspendedOut'
    PROVE  AccountInv'
<1>1. DOMAIN accountRequest' = Requests /\ accountRequest'[r] = what
  BY DEF AccountInv, AccountTyped
<1>2. ASSUME NEW q \in Requests PROVE AccountFits(accountRequest[q])'
  <2>1. CASE q = r
    <3>1. accountRequest'[q] = what
      BY <1>1, <2>1
    <3>2. QED
      BY <3>1 DEF AccountFits, Inserts, Counts, Decides, Closes, Logins, Revokes, Unlate
  <2>2. CASE q # r
    <3>1. PICK old : old = accountRequest[q]
      OBVIOUS
    <3>2. accountRequest'[q] = old
      BY <2>2, <3>1 DEF AccountInv, AccountTyped
    <3>3. AccountFits(old)'
      BY <3>1, FrameFits DEF AccountInv
    <3>4. QED
      BY <3>2, <3>3 DEF AccountFits, Inserts, Counts, Decides, Closes, Logins, Revokes, Unlate
  <2>3. QED
    BY <2>1, <2>2
<1>3. QED
  BY <1>1, <1>2 DEF AccountInv, AccountTyped

\* A request that writes nothing but its own record.
LEMMA AccountReads ==
    ASSUME AccountInv, NEW r \in Requests, NEW what,
           accountRequest' = [accountRequest EXCEPT ![r] = what], AccountFits(what),
           UNCHANGED <<users, sessions, issued, now>>
    PROVE  AccountInv'
<1>1. AccountsFrame /\ SuspendedOut'
  BY DEF AccountsFrame, AccountInv, SuspendedOut, Unlate
<1>2. AccountFits(what)'
  BY DEF AccountFits, Inserts, Counts, Decides, Closes, Logins, Revokes, Unlate
<1>3. QED
  BY <1>1, <1>2, AccountLater DEF AccountInv, AccountTyped

\* A row whose columns are set is a row.
LEMMA AccountWith ==
    ASSUME NEW row \in Account!User, NEW writes,
           "status" \in DOMAIN writes => writes["status"] \in Account!Status,
           "failed" \in DOMAIN writes => writes["failed"] \in Nat,
           "locked" \in DOMAIN writes => writes["locked"] \in Nat,
           "role" \notin DOMAIN writes
    PROVE  /\ Account!With(row, writes) \in Account!User
           /\ Account!With(row, writes).status =
                IF "status" \in DOMAIN writes THEN writes["status"] ELSE row.status
<1>1. DOMAIN row = {"role", "status", "failed", "locked"}
  BY DEF Account!User
<1>2. Account!With(row, writes) =
        [role |-> row.role,
         status |-> IF "status" \in DOMAIN writes THEN writes["status"] ELSE row.status,
         failed |-> IF "failed" \in DOMAIN writes THEN writes["failed"] ELSE row.failed,
         locked |-> IF "locked" \in DOMAIN writes THEN writes["locked"] ELSE row.locked]
  BY <1>1 DEF Account!With
<1>3. QED
  BY <1>2 DEF Account!User

\* The columns a handler has changed.
LEMMA AccountDirty ==
    ASSUME NEW row \in Account!User, NEW new \in Account!User
    PROVE  /\ DOMAIN Account!Dirty(row, new) =
                {c \in {"role", "status", "failed", "locked"} : new[c] # row[c]}
           /\ \A c \in DOMAIN Account!Dirty(row, new) : Account!Dirty(row, new)[c] = new[c]
<1>1. DOMAIN row = {"role", "status", "failed", "locked"}
  BY DEF Account!User
<1>2. QED
  BY <1>1 DEF Account!Dirty

\* A request that asks for no rows and writes nothing yet.
LEMMA AccountIdle ==
    ASSUME NEW what, what.op \in {"idle", "cleanup"}
    PROVE  AccountFits(what)
BY DEF AccountFits, Inserts, Counts, Decides, Closes, Logins, Revokes, Account!ByAdmin

\* A request that ends holds nothing.
LEMMA AccountEnds ==
    ASSUME NEW r, Account!Ends(r)
    PROVE  \E what : /\ accountRequest' = [accountRequest EXCEPT ![r] = what]
                     /\ what.op = "idle"
<1>1. Account!Idle.op = "idle"
  BY DEF Account!Idle
<1>2. QED
  BY <1>1 DEF Account!Ends, Account!Later

\* Registration, Google and the start-up look for a row.
LEMMA NewAccountReads ==
    ASSUME AccountInv, NEW r \in Requests, Account!NewAccount(r) PROVE AccountInv'
<1>1. PICK u \in Users, op \in {"register", "google", "admin"} : Account!Starts(r, u, op)
  BY DEF Account!NewAccount
<1>2. PICK new : /\ new \in {Account!Account("trader", "PENDING"),
                             Account!Account("admin", "ACTIVE")}
                 /\ accountRequest' = [accountRequest EXCEPT ![r] =
                                         [op |-> op, on |-> u, new |-> new]]
  BY <1>1, Zenon DEF Account!Starts, Account!RegisterUser, Account!FindOrCreateUser,
         Account!CreateDefaultAdmin, Account!Later
<1>3. new \in Account!User /\ new.status # "SUSPENDED"
  BY <1>2 DEF Account!User, Account!Account, Account!Status
<1>4. PICK what : what = [op |-> op, on |-> u, new |-> new]
  OBVIOUS
<1>5. AccountFits(what)
  BY <1>3, <1>4 DEF AccountFits, Inserts, Counts, Decides, Closes, Logins, Revokes,
                    Account!ByAdmin
<1>6. QED
  BY <1>2, <1>4, <1>5, AccountReads DEF Account!NewAccount

\* A wrong password changes the two columns that count.
LEMMA AttemptCounts ==
    ASSUME AccountsOK, now \in Nat, NEW row \in Account!User
    PROVE  /\ Account!AttemptFailed(row) \in Account!User
           /\ Account!AttemptFailed(row).role = row.role
           /\ Account!AttemptFailed(row).status = row.status
<1>1. PICK n \in Nat, locked \in Nat :
         /\ n = row.failed + 1
         /\ locked = IF n >= Threshold THEN now + LockPeriod ELSE row.locked
  BY DEF Account!User, AccountsOK
<1>2. Account!AttemptFailed(row) = [row EXCEPT !.failed = n, !.locked = locked]
  BY <1>1 DEF Account!AttemptFailed, Account!User
<1>3. QED
  BY <1>1, <1>2 DEF Account!User

\* A login reads the row.
LEMMA AuthenticateReads ==
    ASSUME AccountsOK, AccountInv, NEW r \in Requests, Account!AuthenticateUser(r)
    PROVE  AccountInv'
<1>1. PICK u \in Account!Accounts :
         LET row == users[u]
         IN  \/ Account!Later(r, [op |-> "failed", on |-> u,
                             writes |-> Account!Dirty(row, Account!AttemptFailed(row))])
             \/ /\ ~Account!IsLocked(row) /\ ~Account!LoginBlocked(row)
                /\ Account!Later(r, [op |-> "admitted", on |-> u,
                             writes |-> Account!Dirty(row, [row EXCEPT !.failed = 0])])
  BY DEF Account!AuthenticateUser
<1>2. u \in Users /\ users[u] # NoRow /\ users[u] \in Account!User
  BY DEF Account!Accounts, AccountInv, AccountTyped
<1>3. PICK row : row = users[u]
  OBVIOUS
<1>4. CASE Account!Later(r, [op |-> "failed", on |-> u,
                             writes |-> Account!Dirty(row, Account!AttemptFailed(row))])
  <2>1. PICK writes : writes = Account!Dirty(row, Account!AttemptFailed(row))
    OBVIOUS
  <2>2. /\ DOMAIN writes \subseteq {"failed", "locked"}
        /\ \A c \in DOMAIN writes : writes[c] \in Nat
    <3>1. /\ Account!AttemptFailed(row) \in Account!User
          /\ Account!AttemptFailed(row)["role"] = row["role"]
          /\ Account!AttemptFailed(row)["status"] = row["status"]
      BY <1>2, <1>3, AttemptCounts DEF AccountInv, AccountTyped
    <3>2. /\ DOMAIN writes \subseteq {"failed", "locked"}
          /\ \A c \in DOMAIN writes : writes[c] = Account!AttemptFailed(row)[c]
      <4>1. PICK new \in Account!User : new = Account!AttemptFailed(row)
        BY <3>1
      <4>2. writes = Account!Dirty(row, new) /\ row \in Account!User
        BY <1>2, <1>3, <2>1, <4>1
      <4>3. new["role"] = row["role"] /\ new["status"] = row["status"]
        BY <3>1, <4>1
      <4>4. /\ DOMAIN writes =
                  {c \in {"role", "status", "failed", "locked"} : new[c] # row[c]}
            /\ \A c \in DOMAIN writes : writes[c] = new[c]
        BY <4>2, AccountDirty
      <4>5. QED
        BY <4>1, <4>3, <4>4
    <3>3. QED
      BY <3>1, <3>2 DEF Account!User
  <2>3. PICK what : what = [op |-> "failed", on |-> u, writes |-> writes]
    OBVIOUS
  <2>4. AccountFits(what)
    BY <1>2, <2>2, <2>3 DEF AccountFits, Inserts, Counts, Decides, Closes, Logins, Revokes,
                            Account!ByAdmin
  <2>5. QED
    BY <1>4, <2>1, <2>3, <2>4, AccountReads DEF Account!AuthenticateUser, Account!Later
<1>5. CASE /\ ~Account!IsLocked(row) /\ ~Account!LoginBlocked(row)
           /\ Account!Later(r, [op |-> "admitted", on |-> u,
                             writes |-> Account!Dirty(row, [row EXCEPT !.failed = 0])])
  <2>1. PICK writes : writes = Account!Dirty(row, [row EXCEPT !.failed = 0])
    OBVIOUS
  <2>2. /\ DOMAIN writes \subseteq {"failed", "locked"}
        /\ \A c \in DOMAIN writes : writes[c] \in Nat
    <3>1. /\ [row EXCEPT !.failed = 0] \in Account!User
          /\ [row EXCEPT !.failed = 0]["role"] = row["role"]
          /\ [row EXCEPT !.failed = 0]["status"] = row["status"]
      BY <1>2, <1>3 DEF Account!User
    <3>2. /\ DOMAIN writes \subseteq {"failed", "locked"}
          /\ \A c \in DOMAIN writes : writes[c] = [row EXCEPT !.failed = 0][c]
      <4>1. PICK new \in Account!User : new = [row EXCEPT !.failed = 0]
        BY <3>1
      <4>2. writes = Account!Dirty(row, new) /\ row \in Account!User
        BY <1>2, <1>3, <2>1, <4>1
      <4>3. new["role"] = row["role"] /\ new["status"] = row["status"]
        BY <3>1, <4>1
      <4>4. /\ DOMAIN writes =
                  {c \in {"role", "status", "failed", "locked"} : new[c] # row[c]}
            /\ \A c \in DOMAIN writes : writes[c] = new[c]
        BY <4>2, AccountDirty
      <4>5. QED
        BY <4>1, <4>3, <4>4
    <3>3. QED
      BY <3>1, <3>2 DEF Account!User
  <2>3. PICK what : what = [op |-> "admitted", on |-> u, writes |-> writes]
    OBVIOUS
  <2>4. AccountFits(what)
    BY <1>2, <2>2, <2>3 DEF AccountFits, Inserts, Counts, Decides, Closes, Logins, Revokes,
                            Account!ByAdmin
  <2>5. QED
    BY <1>5, <2>1, <2>3, <2>4, AccountReads DEF Account!AuthenticateUser, Account!Later
<1>6. QED
  BY <1>1, <1>3, <1>4, <1>5

\* A login by Google reads the row.
LEMMA GoogleReads ==
    ASSUME AccountInv, NEW r \in Requests, Account!AuthenticateGoogle(r) PROVE AccountInv'
<1>1. PICK u, what :
         /\ u \in Users
         /\ what = [op |-> "session", on |-> u]
         /\ accountRequest' = [accountRequest EXCEPT ![r] = what]
  BY DEF Account!AuthenticateGoogle, Account!Accounts, Account!Later
<1>2. AccountFits(what)
  BY <1>1 DEF AccountFits, Inserts, Counts, Decides, Closes, Logins, Revokes, Account!ByAdmin
<1>3. QED
  BY <1>1, <1>2, AccountReads DEF Account!AuthenticateGoogle

\* An administrator decides on the row he reads.
LEMMA HandleReads ==
    ASSUME AccountInv, NEW r \in Requests, Account!Handle(r) PROVE AccountInv'
<1>1. PICK u \in Account!Accounts, op \in Account!ByAdmin :
         \E new \in Account!Outcomes(op, users[u]) :
            Account!Later(r, [op |-> op, on |-> u, was |-> users[u].status,
                      writes |-> Account!Dirty(users[u], new)])
  BY DEF Account!Handle
<1>2. u \in Users /\ users[u] # NoRow /\ users[u] \in Account!User
  BY DEF Account!Accounts, AccountInv, AccountTyped
<1>3. PICK row : row = users[u]
  OBVIOUS
<1>4. PICK new \in Account!Outcomes(op, row) :
            Account!Later(r, [op |-> op, on |-> u, was |-> row.status,
                      writes |-> Account!Dirty(row, new)])
  BY <1>1, <1>3
<1>5. /\ \E status \in Account!Status : /\ new = [row EXCEPT !.status = status]
                                         /\ row.status # status
      /\ op \in {"approve", "reactivate"} => new["status"] = "ACTIVE"
      /\ op = "reject" => new["status"] = "REJECTED"
      /\ op = "suspending" => new["status"] = "SUSPENDED"
      /\ op \in {"approve", "reject"} => row.status = "PENDING"
      /\ op = "reactivate" => row.status = "SUSPENDED"
      /\ op = "suspending" => row.status \in Account!Status \ {"SUSPENDED"}
  BY <1>2, <1>3, <1>4 DEF Account!Outcomes, Account!ByAdmin, Account!ApproveUser,
       Account!RejectUser, Account!ReactivateUser, Account!SuspendUser, Account!Status,
       Account!User
<1>6. PICK writes : writes = Account!Dirty(row, new)
  OBVIOUS
<1>7. DOMAIN writes = {"status"} /\ writes["status"] = new["status"]
  <2>1. PICK status \in Account!Status : new = [row EXCEPT !.status = status]
                                         /\ row.status # status
    BY <1>5
  <2>2. /\ new \in Account!User /\ new["role"] = row["role"] /\ new["failed"] = row["failed"]
        /\ new["locked"] = row["locked"] /\ new["status"] # row["status"]
    BY <1>2, <1>3, <2>1 DEF Account!User
  <2>3. writes = Account!Dirty(row, new) /\ row \in Account!User
    BY <1>2, <1>3, <1>6
  <2>4. /\ DOMAIN writes = {c \in {"role", "status", "failed", "locked"} : new[c] # row[c]}
        /\ \A c \in DOMAIN writes : writes[c] = new[c]
    BY <2>2, <2>3, AccountDirty
  <2>5. DOMAIN writes = {"status"}
    BY <2>2, <2>4
  <2>6. QED
    BY <2>4, <2>5
<1>8. PICK what : what = [op |-> op, on |-> u, was |-> row.status, writes |-> writes]
  OBVIOUS
<1>9. AccountFits(what)
  <2>1. op \notin {"register", "google", "admin", "failed", "admitted", "suspend", "session",
                   "revoke"}
    BY DEF Account!ByAdmin
  <2>2. what.op = op /\ what.on = u /\ what.was = row.status /\ what.writes = writes
    BY <1>8
  <2>3. QED
    BY <1>2, <1>5, <1>7, <2>1, <2>2 DEF AccountFits, Inserts, Counts, Decides, Closes,
       Logins, Revokes
<1>10. QED
  BY <1>4, <1>6, <1>8, <1>9, AccountReads DEF Account!Handle, Account!Later

\* A suspension finds the open sessions.
LEMMA SuspensionReads ==
    ASSUME AccountInv, NEW r \in Requests, Account!SuspendReads(r) PROVE AccountInv'
<1>1. PICK req : req = accountRequest[r]
  OBVIOUS
<1>2. AccountFits(req) /\ req.op = "suspending"
  BY <1>1 DEF AccountInv, Account!SuspendReads
<1>3. PICK what : what = [op |-> "suspend", on |-> req.on, was |-> req.was,
                          writes |-> req.writes, rows |-> Account!OpenSessions(req.on)]
  OBVIOUS
<1>4. AccountFits(what)
  <2>1. what.op = "suspend" /\ what.on = req.on /\ what.was = req.was
        /\ what.writes = req.writes /\ what.rows = Account!OpenSessions(req.on)
    BY <1>3
  <2>2. Closes(what)
    BY <2>1 DEF Closes, Account!OpenSessions, Unlate
  <2>3. Decides(what)
    BY <1>2, <2>1 DEF AccountFits, Decides, Account!ByAdmin
  <2>4. QED
    BY <2>1, <2>2, <2>3 DEF AccountFits, Inserts, Counts, Logins, Revokes
<1>5. accountRequest' = [accountRequest EXCEPT ![r] = what]
  BY <1>1, <1>3 DEF Account!SuspendReads, Account!Later, Account!LogoutAllSessions
<1>6. QED
  BY <1>4, <1>5, AccountReads DEF Account!SuspendReads

\* Revocation and clean-up find their sessions.
LEMMA SessionReads ==
    ASSUME AccountInv, NEW r \in Requests,
           Account!RevokeSession(r) \/ Account!CleanupExpiredSessions(r)
    PROVE  AccountInv'
<1>1. UNCHANGED <<users, sessions, issued, now>>
  BY DEF Account!RevokeSession, Account!CleanupExpiredSessions
<1>2. CASE Account!RevokeSession(r)
  <2>1. PICK s, what :
          /\ s \in Sessions
          /\ what = [op |-> "revoke", session |-> s]
          /\ accountRequest' = [accountRequest EXCEPT ![r] = what]
    BY <1>2 DEF Account!RevokeSession, Account!Later
  <2>2. AccountFits(what)
    BY <2>1 DEF AccountFits, Inserts, Counts, Decides, Closes, Logins, Revokes,
                Account!ByAdmin
  <2>3. QED
    BY <1>1, <2>1, <2>2, AccountReads
<1>3. CASE Account!CleanupExpiredSessions(r)
  <2>1. PICK old : Account!Later(r, [op |-> "cleanup", rows |-> old])
    BY <1>3 DEF Account!CleanupExpiredSessions
  <2>2. PICK what : what = [op |-> "cleanup", rows |-> old]
    OBVIOUS
  <2>3. what.op \in {"idle", "cleanup"}
    BY <2>2
  <2>4. accountRequest' = [accountRequest EXCEPT ![r] = what]
    BY <2>1, <2>2 DEF Account!Later
  <2>5. AccountFits(what)
    BY <2>3, AccountIdle
  <2>6. QED
    BY <1>1, <2>4, <2>5, AccountReads
<1>4. QED
  BY <1>2, <1>3

\* The action of Accounts!DecisionsStand.
Deciding ==
    \A u \in Account!Accounts :
         users'[u].status # users[u].status =>
            \E r \in Requests :
              /\ accountRequest[r].op \in DOMAIN Account!Decisions
              /\ accountRequest[r].on = u
              /\ Account!Free(r)'
              /\ accountRequest[r].was \in Account!Decisions[accountRequest[r].op].from
              /\ users'[u].status = Account!Decisions[accountRequest[r].op].to

\* A step that leaves the accounts alone decides nothing.
LEMMA NothingDecided ==
    ASSUME UNCHANGED users PROVE Deciding
BY DEF Deciding

\* The table of decisions, row by row.
LEMMA DecisionTable ==
    /\ DOMAIN Account!Decisions = {"approve", "reject", "reactivate", "suspend"}
    /\ Account!Decisions["approve"].from = {"PENDING"}
    /\ Account!Decisions["approve"].to = "ACTIVE"
    /\ Account!Decisions["reject"].from = {"PENDING"}
    /\ Account!Decisions["reject"].to = "REJECTED"
    /\ Account!Decisions["reactivate"].from = {"SUSPENDED"}
    /\ Account!Decisions["reactivate"].to = "ACTIVE"
    /\ Account!Decisions["suspend"].from = Account!Status \ {"SUSPENDED"}
    /\ Account!Decisions["suspend"].to = "SUSPENDED"
BY DEF Account!Decisions

\* A commit that writes the status it stands for has decided on what it read.
LEMMA DecisionMade ==
    ASSUME AccountInv, NEW r \in Requests, NEW req, req = accountRequest[r],
           req.op \in {"approve", "reject", "reactivate", "suspend", "failed", "admitted"},
           req.op # "admitted" => Account!Ends(r),
           \A u \in Users : u # req.on => users'[u] = users[u],
           users'[req.on].status =
                IF req.op \in {"approve", "reactivate"} THEN "ACTIVE"
                ELSE IF req.op = "reject" THEN "REJECTED"
                ELSE IF req.op = "suspend" THEN "SUSPENDED"
                ELSE users[req.on].status
    PROVE  Deciding
<1>1. SUFFICES ASSUME NEW u \in Users, users'[u].status # users[u].status
               PROVE  /\ req.op \in DOMAIN Account!Decisions
                      /\ req.on = u /\ Account!Free(r)'
                      /\ req.was \in Account!Decisions[req.op].from
                      /\ users'[u].status = Account!Decisions[req.op].to
  BY DEF Deciding, Account!Accounts
<1>2. req.on = u /\ req.op \in {"approve", "reject", "reactivate", "suspend"}
  BY <1>1
<1>3. Account!Free(r)'
  BY <1>2 DEF Account!Ends, Account!Later, Account!Free, Account!Idle, AccountInv,
              AccountTyped
<1>4. /\ req.op \in {"approve", "reject"} => req.was = "PENDING"
      /\ req.op = "reactivate" => req.was = "SUSPENDED"
      /\ req.op = "suspend" => req.was \in Account!Status \ {"SUSPENDED"}
  BY <1>2 DEF AccountInv, AccountFits, Decides, Account!ByAdmin
<1>5. CASE req.op = "approve"
  BY <1>2, <1>3, <1>4, <1>5, DecisionTable
<1>6. CASE req.op = "reject"
  BY <1>2, <1>3, <1>4, <1>6, DecisionTable
<1>7. CASE req.op = "reactivate"
  BY <1>2, <1>3, <1>4, <1>7, DecisionTable
<1>8. CASE req.op = "suspend"
  BY <1>2, <1>3, <1>4, <1>8, DecisionTable
<1>9. QED
  BY <1>2, <1>5, <1>6, <1>7, <1>8

\* An insert makes a row where none was.
LEMMA InsertCommits ==
    ASSUME AccountInv, NEW r \in Requests, Account!InsertAccount(r)
    PROVE  AccountInv' /\ Deciding
<1>1. PICK req : req = accountRequest[r]
  OBVIOUS
<1>2. req.on \in Users /\ req.new \in Account!User /\ req.new.status # "SUSPENDED"
  BY <1>1 DEF AccountInv, AccountFits, Inserts, Account!InsertAccount
<1>3. \/ UNCHANGED users
      \/ users[req.on] = NoRow /\ users' = [users EXCEPT ![req.on] = req.new]
  BY <1>1 DEF Account!InsertAccount, Account!Insert
<1>4. users \in [Users -> Account!User \cup {NoRow}]
  BY DEF AccountInv, AccountTyped
<1>5. /\ users' \in [Users -> Account!User \cup {NoRow}]
      /\ \A u \in Users : users[u] # NoRow => users'[u] = users[u]
      /\ \A u \in Users : users'[u].status = "SUSPENDED" => users'[u] = users[u]
  BY <1>2, <1>3, <1>4
<1>6. UNCHANGED <<sessions, issued, now>>
  BY DEF Account!InsertAccount
<1>7. AccountsFrame /\ SuspendedOut'
  BY <1>5, <1>6 DEF AccountsFrame, AccountInv, SuspendedOut, Unlate
<1>8. PICK what : accountRequest' = [accountRequest EXCEPT ![r] = what] /\ AccountFits(what)'
  <2>1. CASE Account!Ends(r)
    <3>1. PICK what : /\ accountRequest' = [accountRequest EXCEPT ![r] = what]
                      /\ what.op = "idle"
      BY <2>1, AccountEnds
    <3>2. AccountFits(what)'
      BY <3>1 DEF AccountFits, Inserts, Counts, Decides, Closes, Logins, Revokes, Account!ByAdmin
    <3>3. QED
      BY <3>1, <3>2
  <2>2. CASE Account!Later(r, [op |-> "session", on |-> req.on])
    <3>1. PICK what : what = [op |-> "session", on |-> req.on]
      OBVIOUS
    <3>2. AccountFits(what)'
      BY <1>2, <3>1 DEF AccountFits, Inserts, Counts, Decides, Closes, Logins, Revokes,
                        Account!ByAdmin
    <3>3. QED
      BY <2>2, <3>1, <3>2 DEF Account!Later
  <2>3. QED
    BY <1>1, <2>1, <2>2 DEF Account!InsertAccount
<1>9. AccountInv'
  BY <1>5, <1>6, <1>7, <1>8, AccountLater DEF AccountInv, AccountTyped
<1>10. Deciding
  BY <1>5 DEF Deciding, Account!Accounts
<1>11. QED
  BY <1>9, <1>10

\* What the commit of a request makes of the account's row.
LEMMA RowCommits ==
    ASSUME AccountsOK, AccountInv, NEW r \in Requests, NEW req, req = accountRequest[r],
           req.op \in Account!ByAdmin \cup {"suspend", "failed", "admitted"},
           users' = [users EXCEPT ![req.on] = Account!With(users[req.on], req.writes)]
    PROVE  /\ req.on \in Users /\ users[req.on] # NoRow
           /\ users' \in [Users -> Account!User \cup {NoRow}]
           /\ \A u \in Users : users[u] # NoRow => users'[u] # NoRow
           /\ \A u \in Users : u # req.on => users'[u] = users[u]
           /\ users'[req.on].status =
                IF req.op \in {"approve", "reactivate"} THEN "ACTIVE"
                ELSE IF req.op = "reject" THEN "REJECTED"
                ELSE IF req.op \in {"suspending", "suspend"} THEN "SUSPENDED"
                ELSE users[req.on].status
<1>1. AccountFits(req)
  BY DEF AccountInv
<1>2. /\ req.on \in Users /\ users[req.on] # NoRow
      /\ \/ DOMAIN req.writes = {"status"} /\ req.writes["status"] \in Account!Status
         \/ /\ DOMAIN req.writes \subseteq {"failed", "locked"}
            /\ \A c \in DOMAIN req.writes : req.writes[c] \in Nat
  BY <1>1 DEF AccountFits, Counts, Decides, Account!ByAdmin, Account!Status
<1>3. PICK row \in Account!User : row = users[req.on]
  BY <1>2 DEF AccountInv, AccountTyped
<1>4. PICK writes : writes = req.writes
  OBVIOUS
<1>5. /\ Account!With(row, writes) \in Account!User
      /\ Account!With(row, writes).status =
           IF "status" \in DOMAIN writes THEN writes["status"] ELSE row.status
  BY <1>2, <1>4, AccountWith
<1>6. users \in [Users -> Account!User \cup {NoRow}]
  BY DEF AccountInv, AccountTyped
<1>7. users'[req.on] = Account!With(row, writes)
  BY <1>2, <1>3, <1>4, <1>6
<1>8. users'[req.on].status =
                IF req.op \in {"approve", "reactivate"} THEN "ACTIVE"
                ELSE IF req.op = "reject" THEN "REJECTED"
                ELSE IF req.op \in {"suspending", "suspend"} THEN "SUSPENDED"
                ELSE users[req.on].status
  <2>1. CASE req.op \in {"failed", "admitted"}
    <3>1. "status" \notin DOMAIN writes
      BY <1>1, <1>4, <2>1 DEF AccountFits, Counts
    <3>2. QED
      BY <1>3, <1>5, <1>7, <2>1, <3>1
  <2>2. CASE req.op \notin {"failed", "admitted"}
    <3>1. /\ req.op \in {"approve", "reject", "reactivate", "suspending", "suspend"}
          /\ DOMAIN writes = {"status"}
          /\ req.op \in {"approve", "reactivate"} => writes["status"] = "ACTIVE"
          /\ req.op = "reject" => writes["status"] = "REJECTED"
          /\ req.op \in {"suspending", "suspend"} => writes["status"] = "SUSPENDED"
      BY <1>1, <1>4, <2>2 DEF AccountFits, Decides, Account!ByAdmin
    <3>2. users'[req.on].status = writes["status"]
      BY <1>5, <1>7, <3>1
    <3>3. QED
      BY <3>1, <3>2
  <2>3. QED
    BY <2>1, <2>2
<1>9. /\ users' \in [Users -> Account!User \cup {NoRow}]
      /\ \A u \in Users : u # req.on => users'[u] = users[u]
  BY <1>2, <1>3, <1>4, <1>5, <1>6
<1>10. \A u \in Users : users[u] # NoRow => users'[u] # NoRow
  <2>1. users'[req.on] # NoRow
    BY <1>5, <1>7 DEF AccountsOK
  <2>2. QED
    BY <1>9, <2>1
<1>11. QED
  BY <1>2, <1>8, <1>9, <1>10

\* The commit of a decision or of a count.
LEMMA DecisionCommits ==
    ASSUME AccountsOK, AccountInv, NEW r \in Requests, Account!CommitAccount(r)
    PROVE  AccountInv' /\ Deciding
<1>1. PICK req : req = accountRequest[r]
  OBVIOUS
<1>2. /\ req.op \in {"approve", "reject", "reactivate", "failed", "admitted"}
      /\ users' = [users EXCEPT ![req.on] = Account!With(users[req.on], req.writes)]
  BY <1>1 DEF Account!CommitAccount, Account!ByAdmin
<1>3. req.op \in Account!ByAdmin \cup {"suspend", "failed", "admitted"}
  BY <1>2 DEF Account!ByAdmin
<1>4. /\ req.on \in Users /\ users[req.on] # NoRow
      /\ users' \in [Users -> Account!User \cup {NoRow}]
      /\ \A u \in Users : users[u] # NoRow => users'[u] # NoRow
      /\ \A u \in Users : u # req.on => users'[u] = users[u]
      /\ users'[req.on].status =
                IF req.op \in {"approve", "reactivate"} THEN "ACTIVE"
                ELSE IF req.op = "reject" THEN "REJECTED"
                ELSE users[req.on].status
  BY <1>1, <1>2, <1>3, RowCommits
<1>5. UNCHANGED <<sessions, issued, now>>
  BY DEF Account!CommitAccount
<1>6. \A u \in Users : users'[u].status = "SUSPENDED" => users[u].status = "SUSPENDED"
  BY <1>2, <1>4
<1>7. SuspendedOut'
  <2>1. ASSUME NEW u \in Users, NEW s \in Sessions, users'[u] # NoRow,
               users'[u].status = "SUSPENDED"
        PROVE  ~Unlate(s, u)'
    <3>1. users[u].status = "SUSPENDED" /\ users[u] # NoRow
      BY <1>4, <1>6, <2>1
    <3>2. ~Unlate(s, u)
      BY <3>1 DEF AccountInv, SuspendedOut
    <3>3. QED
      BY <1>5, <3>2 DEF Unlate
  <2>2. QED
    BY <2>1 DEF SuspendedOut
<1>8. AccountsFrame
  BY <1>4, <1>5 DEF AccountsFrame, Unlate
<1>9. PICK what : accountRequest' = [accountRequest EXCEPT ![r] = what] /\ AccountFits(what)'
  <2>1. CASE req.op # "admitted"
    <3>1. PICK what : /\ accountRequest' = [accountRequest EXCEPT ![r] = what]
                      /\ what.op = "idle"
      BY <1>1, <2>1, AccountEnds DEF Account!CommitAccount
    <3>2. AccountFits(what)'
      BY <3>1 DEF AccountFits, Inserts, Counts, Decides, Closes, Logins, Revokes, Account!ByAdmin
    <3>3. QED
      BY <3>1, <3>2
  <2>2. CASE req.op = "admitted"
    <3>1. PICK what : what = [op |-> "session", on |-> req.on]
      OBVIOUS
    <3>2. AccountFits(what)'
      BY <1>4, <3>1 DEF AccountFits, Inserts, Counts, Decides, Closes, Logins, Revokes,
                        Account!ByAdmin
    <3>3. QED
      BY <1>1, <2>2, <3>1, <3>2 DEF Account!CommitAccount, Account!Later
  <2>3. QED
    BY <2>1, <2>2
<1>10. AccountInv'
  BY <1>4, <1>5, <1>7, <1>8, <1>9, AccountLater DEF AccountInv, AccountTyped
<1>11. Deciding
  <2>1. req.op # "admitted" => Account!Ends(r)
    BY <1>1 DEF Account!CommitAccount
  <2>2. QED
    BY <1>1, <1>2, <1>4, <2>1, DecisionMade
<1>12. QED
  BY <1>10, <1>11

\* A request that ends in peace with those in flight.
LEMMA AccountQuits ==
    ASSUME AccountInv, AccountsFrame, NEW r \in Requests, Account!Ends(r),
           users' \in [Users -> Account!User \cup {NoRow}],
           sessions' \in [Sessions -> SessionRow \cup {NoRow}],
           issued' \subseteq Sessions, now' \in Nat,
           SuspendedOut'
    PROVE  AccountInv'
<1>1. PICK what : /\ accountRequest' = [accountRequest EXCEPT ![r] = what]
                  /\ what.op = "idle"
  BY AccountEnds
<1>2. AccountFits(what)'
  BY <1>1 DEF AccountFits, Inserts, Counts, Decides, Closes, Logins, Revokes, Account!ByAdmin
<1>3. QED
  BY <1>1, <1>2, AccountLater

\* The commit of a suspension closes the sessions it found; what it did not find is late.
LEMMA SuspensionCommits ==
    ASSUME AccountsOK, AccountInv, NEW r \in Requests, Account!CommitSuspension(r)
    PROVE  AccountInv' /\ Deciding
<1>1. PICK req : req = accountRequest[r]
  OBVIOUS
<1>2. /\ req.op = "suspend" /\ Account!Ends(r)
      /\ UNCHANGED <<issued, now>>
  BY <1>1 DEF Account!CommitSuspension
<1>3. AccountFits(req) /\ AccountTyped
  BY <1>1 DEF AccountInv
<1>5. CASE UNCHANGED <<users, sessions>>
  <2>1. AccountsFrame /\ SuspendedOut'
    BY <1>2, <1>5 DEF AccountsFrame, AccountInv, SuspendedOut, Unlate
  <2>2. QED
    BY <1>2, <1>3, <1>5, <2>1, AccountQuits, NothingDecided DEF AccountTyped
<1>6. CASE /\ \A s \in req.rows : sessions[s] # NoRow
           /\ users' = [users EXCEPT ![req.on] = Account!With(users[req.on], req.writes)]
           /\ sessions' = [s \in Sessions |->
                IF s \in req.rows THEN [sessions[s] EXCEPT !.active = FALSE] ELSE sessions[s]]
  <2>1. /\ req.on \in Users /\ users[req.on] # NoRow
        /\ users' \in [Users -> Account!User \cup {NoRow}]
        /\ \A u \in Users : users[u] # NoRow => users'[u] # NoRow
        /\ \A u \in Users : u # req.on => users'[u] = users[u]
        /\ users'[req.on].status = "SUSPENDED"
    BY <1>1, <1>2, <1>6, RowCommits
  <2>2. ASSUME NEW s \in Sessions
        PROVE  /\ sessions'[s] \in SessionRow \cup {NoRow}
               /\ s \in req.rows => sessions'[s]["active"] = FALSE
               /\ s \notin req.rows => sessions'[s] = sessions[s]
    <3>1. CASE s \in req.rows
      <4>1. PICK row \in SessionRow : row = sessions[s]
        BY <1>3, <1>6, <3>1 DEF AccountTyped
      <4>2. /\ [row EXCEPT !.active = FALSE] \in SessionRow
            /\ [row EXCEPT !.active = FALSE]["active"] = FALSE
        BY DEF SessionRow
      <4>3. sessions'[s] = [row EXCEPT !.active = FALSE]
        BY <1>6, <3>1, <4>1
      <4>4. QED
        BY <3>1, <4>2, <4>3
    <3>2. CASE s \notin req.rows
      BY <1>3, <1>6, <3>2 DEF AccountTyped
    <3>3. QED
      BY <3>1, <3>2
  <2>3. sessions' \in [Sessions -> SessionRow \cup {NoRow}]
    BY <1>6, <2>2
  <2>4. \A s \in Sessions, u \in Users : Unlate(s, u)' => s \notin req.rows /\ Unlate(s, u)
    BY <2>2 DEF Unlate
  <2>5. AccountsFrame
    BY <1>2, <2>1, <2>4 DEF AccountsFrame
  <2>6. SuspendedOut'
    <3>1. ASSUME NEW u \in Users, NEW s \in Sessions, users'[u] # NoRow,
                 users'[u].status = "SUSPENDED", Unlate(s, u)'
          PROVE  FALSE
      <4>1. s \notin req.rows /\ Unlate(s, u)
        BY <2>4, <3>1
      <4>2. CASE u = req.on
        BY <1>2, <1>3, <4>1, <4>2 DEF AccountFits, Closes
      <4>3. CASE u # req.on
        BY <2>1, <3>1, <4>1, <4>3 DEF AccountInv, SuspendedOut
      <4>4. QED
        BY <4>2, <4>3
    <3>2. QED
      BY <3>1 DEF SuspendedOut
  <2>7. AccountInv'
    BY <1>2, <1>3, <2>1, <2>3, <2>5, <2>6, AccountQuits DEF AccountTyped
  <2>8. Deciding
    BY <1>1, <1>2, <2>1, DecisionMade
  <2>9. QED
    BY <2>7, <2>8
<1>7. QED
  BY <1>1, <1>5, <1>6 DEF Account!CommitSuspension

\* A session that opens while a suspension is in flight is late.
LEMMA SessionOpens ==
    ASSUME AccountsOK, AccountInv, NEW r \in Requests, Account!CreateSession(r)
    PROVE  AccountInv'
<1>1. PICK req : req = accountRequest[r]
  OBVIOUS
<1>2. PICK s \in Sessions :
         /\ sessions' = [sessions EXCEPT ![s] = Account!NewSession(req.on)]
         /\ issued' = issued \cup {s}
  BY <1>1 DEF Account!CreateSession
<1>3. /\ req.op = "session" /\ Account!Ends(r)
      /\ UNCHANGED <<users, now>>
  BY <1>1 DEF Account!CreateSession
<1>4. AccountTyped /\ AccountFits(req) /\ req.on \in Users
  BY <1>1, <1>3 DEF AccountInv, AccountFits, Logins
<1>5. PICK late \in BOOLEAN :
         /\ late = Account!Suspending(req.on)
         /\ sessions'[s] = [user |-> req.on, active |-> TRUE, created |-> now, late |-> late]
  <2>1. PICK late \in BOOLEAN : late = Account!Suspending(req.on)
    BY DEF Account!Suspending
  <2>2. sessions'[s] = Account!NewSession(req.on)
    BY <1>2, <1>4 DEF AccountTyped
  <2>3. QED
    BY <2>1, <2>2 DEF Account!NewSession
<1>6. sessions'[s] \in SessionRow /\ sessions'[s]["user"] = req.on /\ sessions'[s]["late"] = late
  BY <1>4, <1>5 DEF SessionRow, AccountTyped
<1>7. sessions' \in [Sessions -> SessionRow \cup {NoRow}]
  BY <1>2, <1>4, <1>6 DEF AccountTyped
<1>8. \A z \in Sessions \ {s} : sessions'[z] = sessions[z]
  BY <1>2, <1>4 DEF AccountTyped
<1>9. issued' \subseteq Sessions
  BY <1>2, <1>4 DEF AccountTyped
<1>10. \A z \in Sessions, u \in Users : Unlate(z, u)' =>
          Unlate(z, u) \/ (u = req.on /\ ~Account!Suspending(u))
  <2>1. ASSUME NEW z \in Sessions \ {s}, NEW u \in Users PROVE Unlate(z, u)' => Unlate(z, u)
    BY <1>8 DEF Unlate
  <2>2. ASSUME NEW u \in Users, Unlate(s, u)'
        PROVE  u = req.on /\ ~Account!Suspending(u)
    <3>1. u = req.on /\ late = FALSE
      BY <1>6, <2>2 DEF Unlate
    <3>2. QED
      BY <1>5, <3>1
  <2>3. QED
    BY <2>1, <2>2
<1>11. AccountsFrame
  <2>1. ASSUME NEW q \in Requests, NEW z \in Sessions, NEW u \in Users,
               accountRequest[q].op = "suspend" /\ accountRequest[q].on = u, Unlate(z, u)'
        PROVE  Unlate(z, u)
    BY <1>10, <2>1 DEF Account!Suspending
  <2>2. QED
    BY <1>3, <2>1 DEF AccountsFrame
<1>12. SuspendedOut'
  BY <1>3, <1>10 DEF SuspendedOut, AccountInv, Account!Suspending
<1>13. QED
  BY <1>3, <1>4, <1>7, <1>9, <1>11, <1>12, AccountQuits DEF AccountTyped

\* The commit of a revocation closes a session.
LEMMA SessionCommits ==
    ASSUME AccountInv, NEW r \in Requests, Account!CommitSession(r)
    PROVE  AccountInv'
<1>1. PICK s : s = accountRequest[r].session
  OBVIOUS
<1>2. /\ accountRequest[r].op = "revoke" /\ Account!Ends(r)
      /\ UNCHANGED <<users, issued, now>>
      /\ IF sessions[s] = NoRow THEN UNCHANGED sessions
         ELSE sessions' = [sessions EXCEPT ![s].active = FALSE]
  BY <1>1 DEF Account!CommitSession
<1>3. AccountTyped /\ s \in Sessions
  BY <1>1, <1>2 DEF AccountInv, AccountFits, Revokes
<1>4. /\ sessions' \in [Sessions -> SessionRow \cup {NoRow}]
      /\ \A z \in Sessions, u \in Users : Unlate(z, u)' => Unlate(z, u)
  <2>1. CASE UNCHANGED sessions
    BY <1>3, <2>1 DEF AccountTyped, Unlate
  <2>2. CASE sessions[s] # NoRow /\ sessions' = [sessions EXCEPT ![s].active = FALSE]
    <3>1. PICK row \in SessionRow : row = sessions[s]
      BY <1>3, <2>2 DEF AccountTyped
    <3>2. /\ [row EXCEPT !.active = FALSE] \in SessionRow
          /\ [row EXCEPT !.active = FALSE]["active"] = FALSE
      BY DEF SessionRow
    <3>3. sessions' = [sessions EXCEPT ![s] = [row EXCEPT !.active = FALSE]]
      BY <2>2, <3>1
    <3>4. /\ sessions'[s] = [row EXCEPT !.active = FALSE]
          /\ \A z \in Sessions \ {s} : sessions'[z] = sessions[z]
      BY <1>3, <3>3 DEF AccountTyped
    <3>5. sessions' \in [Sessions -> SessionRow \cup {NoRow}]
      BY <1>3, <3>2, <3>3 DEF AccountTyped
    <3>6. \A z \in Sessions, u \in Users : Unlate(z, u)' => Unlate(z, u)
      BY <3>2, <3>4 DEF Unlate
    <3>7. QED
      BY <3>5, <3>6
  <2>3. QED
    BY <1>2, <2>1, <2>2
<1>5. AccountsFrame /\ SuspendedOut'
  BY <1>2, <1>4 DEF AccountsFrame, AccountInv, SuspendedOut
<1>6. QED
  BY <1>2, <1>3, <1>4, <1>5, AccountQuits DEF AccountTyped

\* The clean-up removes rows.
LEMMA CleanupCommits ==
    ASSUME AccountInv, NEW r \in Requests, Account!CommitCleanup(r)
    PROVE  AccountInv'
<1>1. /\ sessions' = [s \in Sessions |->
                        IF s \in accountRequest[r].rows THEN NoRow ELSE sessions[s]]
      /\ Account!Ends(r) /\ UNCHANGED <<users, issued, now>>
  BY DEF Account!CommitCleanup
<1>2. sessions' \in [Sessions -> SessionRow \cup {NoRow}]
  BY <1>1 DEF AccountInv, AccountTyped
<1>3. \A s \in Sessions : sessions'[s] \in {NoRow, sessions[s]}
  BY <1>1
<1>4. \A s \in Sessions, u \in Users : Unlate(s, u)' => Unlate(s, u)
  BY <1>3 DEF Unlate
<1>5. AccountsFrame /\ SuspendedOut'
  BY <1>1, <1>4 DEF AccountsFrame, AccountInv, SuspendedOut
<1>6. QED
  BY <1>1, <1>2, <1>5, AccountQuits DEF AccountInv, AccountTyped

\* Every step.
LEMMA AccountSteps ==
    ASSUME AccountsOK, AccountInv, [Account!Next]_(Account!avars)
    PROVE  AccountInv' /\ Deciding
<1>1. CASE UNCHANGED Account!avars \/ Account!Tick
  <2>1. UNCHANGED <<users, sessions, issued, accountRequest>>
    BY <1>1 DEF Account!avars, Account!Tick
  <2>2. now' \in Nat
    BY <1>1 DEF Account!avars, Account!Tick, AccountInv, AccountTyped
  <2>3. AccountInv'
    BY <2>1, <2>2 DEF AccountInv, AccountTyped, SuspendedOut, AccountFits, Inserts,
       Counts, Decides, Closes, Logins, Revokes, Unlate
  <2>4. QED
    BY <2>1, <2>3, NothingDecided
<1>2. ASSUME NEW r \in Requests,
             \/ Account!NewAccount(r) \/ Account!AuthenticateUser(r)
             \/ Account!AuthenticateGoogle(r) \/ Account!CreateSession(r)
             \/ Account!Handle(r) \/ Account!SuspendReads(r)
             \/ Account!RevokeSession(r) \/ Account!CommitSession(r)
             \/ Account!CleanupExpiredSessions(r) \/ Account!CommitCleanup(r)
      PROVE  AccountInv' /\ Deciding
  <2>1. AccountInv'
    BY <1>2, NewAccountReads, AuthenticateReads, GoogleReads, SessionOpens, HandleReads,
       SuspensionReads, SessionReads, SessionCommits, CleanupCommits
  <2>2. UNCHANGED users
    BY <1>2 DEF Account!NewAccount, Account!AuthenticateUser, Account!AuthenticateGoogle,
       Account!CreateSession, Account!Handle, Account!SuspendReads, Account!RevokeSession,
       Account!CommitSession, Account!CleanupExpiredSessions, Account!CommitCleanup
  <2>3. QED
    BY <2>1, <2>2, NothingDecided
<1>3. ASSUME NEW r \in Requests, \/ Account!InsertAccount(r) \/ Account!CommitAccount(r)
                                 \/ Account!CommitSuspension(r)
      PROVE  AccountInv' /\ Deciding
  BY <1>3, InsertCommits, DecisionCommits, SuspensionCommits
<1>4. QED
  BY <1>1, <1>2, <1>3 DEF Account!Next

\* The first state.
LEMMA AccountStarts == Account!Init => AccountInv
BY DEF Account!Init, AccountInv, AccountTyped, SuspendedOut, AccountFits, Inserts,
   Counts, Decides, Closes, Logins, Revokes, Unlate, Account!Idle, Account!ByAdmin

\* What the invariant says of sessions that were ended.
LEMMA AccountEndsSessions ==
    ASSUME AccountInv PROVE Account!SuspendedLoggedOut
<1>1. ASSUME NEW u \in Users, users[u] # NoRow, users[u].status = "SUSPENDED",
             NEW s \in Sessions, sessions[s] # NoRow, sessions[s].user = u,
             sessions[s].active
      PROVE  sessions[s].late
  <2>1. sessions[s] \in SessionRow /\ ~Unlate(s, u)
    BY <1>1 DEF AccountInv, AccountTyped, SuspendedOut
  <2>2. QED
    BY <1>1, <2>1 DEF Unlate, SessionRow
<1>2. QED
  BY <1>1 DEF Account!SuspendedLoggedOut, Account!Accounts, Account!OpenSessions

-----------------------------------------------------------------------------
(* Orders, and what a kill switch does to them.                             *)

\* The rows of the table of orders.
OrderRow == [status : {"pending", "cancelled"}, remaining : Nat, cancelled : Nat,
        account : BrokerAccounts \cup {None}]

\* What the proof assumes of the constants: an order has a quantity, and the absence of a
\* row is not a row.
OrdersApart ==
    /\ OrderQuantity \in Nat \ {0}
    /\ None \notin OrderRow

\* The rows: what is left and what is cancelled add up, and a pending order is whole.
OrderSound(row) ==
    /\ row \in OrderRow
    /\ row.remaining + row.cancelled = OrderQuantity
    /\ row.status = "pending" => row.remaining = OrderQuantity

Placed == {o \in Orders : orders[o] # None}

\* The copies: a request holds only rows that were pending when it read them, of orders that
\* are there, and a kill switch holds every order it found open.
CallerHolds(c) ==
    /\ Order!Stage(c, "cancel") =>
         /\ caller[c].order \in Placed
         /\ OrderSound(caller[c].read) /\ caller[c].read.status = "pending"
    /\ caller[c].at \in {"kill", "halt"} =>
         /\ DOMAIN caller[c].orders \subseteq Placed
         /\ \A o \in DOMAIN caller[c].orders :
              OrderSound(caller[c].orders[o]) /\ caller[c].orders[o].status = "pending"
         /\ caller[c].open \subseteq DOMAIN caller[c].orders
    /\ Order!Stage(c, "halt") => caller[c].instances \subseteq Instances

OrderShapes ==
    /\ DOMAIN orders = Orders
    /\ DOMAIN orderInstances = Instances
    /\ DOMAIN caller = Requests
    /\ DOMAIN brokerAccounts = BrokerAccounts

OrdersSound ==
    \A o \in Placed : OrderSound(orders[o]) /\ orders[o].account \in Order!Open \cup {None}

CallersHold == \A c \in Requests : CallerHolds(c)

KilledCancelled == \A o \in killed : o \in Placed /\ orders[o].status = "cancelled"

HaltedStopped == \A i \in halted : i \in Instances /\ orderInstances[i] = "stopped"

OrderInv == OrderShapes /\ OrdersSound /\ CallersHold /\ KilledCancelled /\ HaltedStopped

-----------------------------------------------------------------------------
(* What a commit makes of a row that may have changed since it was read.     *)

\* A cancellation leaves a cancelled row with nothing remaining, and the account the row has.
LEMMA FlushOfCancel ==
    ASSUME OrdersApart, NEW row, OrderSound(row),
           NEW read, OrderSound(read), read.status = "pending"
    PROVE  LET new == Order!Flush(row, read, [read EXCEPT !.status = "cancelled",
                                           !.cancelled = read.remaining, !.remaining = 0])
           IN  OrderSound(new) /\ new.status = "cancelled" /\ new.account = row.account
<1> DEFINE want == [read EXCEPT !.status = "cancelled", !.cancelled = read.remaining,
                                !.remaining = 0]
<1>1. DOMAIN row = {"status", "remaining", "cancelled", "account"}
  BY DEF OrderSound, OrderRow
<1>2. read.remaining = OrderQuantity /\ read.cancelled = 0
  BY DEF OrderSound, OrderRow, OrdersApart
<1>3. /\ want.status = "cancelled" /\ want.remaining = 0 /\ want.cancelled = OrderQuantity
      /\ want.account = read.account
  BY <1>2 DEF OrderSound, OrderRow
<1> HIDE DEF want
<1>4. Order!Flush(row, read, want) =
        [status |-> IF want.status = read.status THEN row.status ELSE want.status,
         remaining |-> IF want.remaining = read.remaining THEN row.remaining ELSE want.remaining,
         cancelled |-> IF want.cancelled = read.cancelled THEN row.cancelled ELSE want.cancelled,
         account |-> IF want.account = read.account THEN row.account ELSE want.account]
  BY <1>1 DEF Order!Flush
<1>5. Order!Flush(row, read, want) =
        [status |-> "cancelled", remaining |-> 0, cancelled |-> OrderQuantity,
         account |-> row.account]
  BY <1>2, <1>3, <1>4 DEF OrdersApart
<1>6. row.account \in BrokerAccounts \cup {None}
  BY DEF OrderSound, OrderRow
<1>7. QED
  BY <1>5, <1>6 DEF OrderSound, OrderRow, OrdersApart, want

\* A kill switch writes the status and nothing else.
LEMMA FlushOfKill ==
    ASSUME NEW row, OrderSound(row), NEW read, OrderSound(read), read.status = "pending"
    PROVE  LET new == Order!Flush(row, read, [read EXCEPT !.status = "cancelled"])
           IN  OrderSound(new) /\ new.status = "cancelled" /\ new.account = row.account
<1> DEFINE want == [read EXCEPT !.status = "cancelled"]
<1>1. DOMAIN row = {"status", "remaining", "cancelled", "account"}
  BY DEF OrderSound, OrderRow
<1>2. /\ want.status = "cancelled" /\ want.remaining = read.remaining
      /\ want.cancelled = read.cancelled /\ want.account = read.account
  BY DEF OrderSound, OrderRow
<1> HIDE DEF want
<1>3. Order!Flush(row, read, want) =
        [status |-> IF want.status = read.status THEN row.status ELSE want.status,
         remaining |-> IF want.remaining = read.remaining THEN row.remaining ELSE want.remaining,
         cancelled |-> IF want.cancelled = read.cancelled THEN row.cancelled ELSE want.cancelled,
         account |-> IF want.account = read.account THEN row.account ELSE want.account]
  BY <1>1 DEF Order!Flush
<1>4. Order!Flush(row, read, want) =
        [status |-> "cancelled", remaining |-> row.remaining, cancelled |-> row.cancelled,
         account |-> row.account]
  BY <1>2, <1>3
<1>5. QED
  BY <1>4 DEF OrderSound, OrderRow, want

\* The other requests keep what they hold, as long as the orders they name are there.
LEMMA OtherCallersHold ==
    ASSUME CallersHold, OrderShapes, NEW c \in Requests, NEW record,
           caller' = [caller EXCEPT ![c] = record], Placed \subseteq Placed'
    PROVE  /\ DOMAIN caller' = Requests /\ caller'[c] = record
           /\ \A d \in Requests \ {c} : CallerHolds(d)'
<1>1. /\ DOMAIN caller' = Requests /\ caller'[c] = record
      /\ \A d \in Requests \ {c} : caller'[d] = caller[d]
  BY DEF OrderShapes
<1>2. QED
  BY <1>1 DEF CallersHold, CallerHolds, Order!Stage, OrderSound

\* So do all of them when none moves.
LEMMA NoCallerMoves ==
    ASSUME CallersHold, UNCHANGED caller, Placed \subseteq Placed'
    PROVE  CallersHold'
BY DEF CallersHold, CallerHolds, Order!Stage, OrderSound

-----------------------------------------------------------------------------
(* Each action keeps the invariant.                                          *)

\* It holds at the start, where there is nothing.
LEMMA OrderStarts == ASSUME OrdersApart, Order!OrderInit PROVE OrderInv
<1>1. OrderShapes
  BY DEF Order!OrderInit, OrderShapes
<1>2. OrdersSound
  BY DEF Order!OrderInit, OrdersSound, Placed
<1>3. CallersHold
  BY DEF Order!OrderInit, CallersHold, CallerHolds, Order!Stage, Order!Resting
<1>4. KilledCancelled /\ HaltedStopped
  BY DEF Order!OrderInit, KilledCancelled, HaltedStopped
<1>5. QED
  BY <1>1, <1>2, <1>3, <1>4 DEF OrderInv

\* A new order is pending, whole, and no kill switch has found it.
LEMMA CreateOrderKeeps == ASSUME OrdersApart, OrderInv, Order!CreateOrder PROVE OrderInv'
<1> USE DEF OrderInv
<1>1. PICK o \in Orders, a \in Order!Open \cup {None} :
        /\ orders[o] = None
        /\ orders' = [orders EXCEPT ![o] = [status |-> "pending", remaining |-> OrderQuantity,
                                            cancelled |-> 0, account |-> a]]
  BY DEF Order!CreateOrder
<1> DEFINE new == [status |-> "pending", remaining |-> OrderQuantity, cancelled |-> 0,
                   account |-> a]
<1>2. UNCHANGED <<rules, brokerAccounts, orderInstances, caller, killed, halted>>
  BY DEF Order!CreateOrder
<1>3. OrderSound(new) /\ new.account \in Order!Open \cup {None}
  BY <1>1 DEF OrderSound, OrderRow, Order!Open, OrdersApart
<1>4. /\ DOMAIN orders' = Orders /\ orders'[o] = new
      /\ \A x \in Orders \ {o} : orders'[x] = orders[x]
  BY <1>1 DEF OrderShapes
<1> HIDE DEF new
<1>5. Placed' = Placed \cup {o} /\ o \notin Placed
  BY <1>1, <1>3, <1>4 DEF Placed, OrderSound, OrdersApart
<1>6. OrderShapes'
  BY <1>2, <1>4 DEF OrderShapes
<1>7. OrdersSound'
  BY <1>2, <1>3, <1>4, <1>5 DEF OrdersSound, Order!Open, OrderSound, Placed
<1>8. CallersHold'
  BY <1>2, <1>5, NoCallerMoves
<1>9. KilledCancelled' /\ HaltedStopped'
  BY <1>2, <1>4, <1>5 DEF KilledCancelled, HaltedStopped, Placed
<1>10. QED
  BY <1>6, <1>7, <1>8, <1>9

\* A cancellation reads an order that is neither cancelled nor, as none ever is, filled.
LEMMA CancelOrderKeeps ==
    ASSUME OrdersApart, OrderInv, NEW c \in Requests, Order!CancelOrder(c)
    PROVE  OrderInv'
<1> USE DEF OrderInv
<1>1. PICK o \in Placed :
        /\ orders[o].status \notin {"filled", "cancelled", "rejected"}
        /\ caller' = [caller EXCEPT ![c] = [at |-> "cancel", order |-> o, read |-> orders[o]]]
  BY DEF Order!CancelOrder, Order!Goes, Placed
<1>2. UNCHANGED <<orders, rules, brokerAccounts, orderInstances, killed, halted>>
  BY DEF Order!CancelOrder
<1>3. OrderSound(orders[o]) /\ orders[o].status = "pending"
  BY <1>1 DEF OrdersSound, OrderSound, OrderRow
<1>4. Placed' = Placed
  BY <1>2 DEF Placed
<1>5. /\ DOMAIN caller' = Requests
      /\ caller'[c] = [at |-> "cancel", order |-> o, read |-> orders[o]]
      /\ \A d \in Requests \ {c} : CallerHolds(d)'
  BY <1>1, <1>4, OtherCallersHold
<1>6. CallerHolds(c)'
  BY <1>3, <1>4, <1>5 DEF CallerHolds, Order!Stage, OrderSound
<1>7. OrderShapes' /\ CallersHold'
  BY <1>2, <1>5, <1>6 DEF OrderShapes, CallersHold
<1>8. OrdersSound' /\ KilledCancelled' /\ HaltedStopped'
  BY <1>2, <1>4 DEF OrdersSound, KilledCancelled, HaltedStopped, Order!Open, OrderSound
<1>9. QED
  BY <1>7, <1>8

\* Its commit cancels the order, also when a kill switch has cancelled it in between.
LEMMA CommitCancelKeeps ==
    ASSUME OrdersApart, OrderInv, NEW c \in Requests, Order!CommitCancel(c)
    PROVE  OrderInv'
<1> USE DEF OrderInv
<1> DEFINE o == caller[c].order
           read == caller[c].read
           new == Order!Flush(orders[o], read, [read EXCEPT !.status = "cancelled",
                                            !.cancelled = read.remaining, !.remaining = 0])
<1>1. o \in Placed /\ o \in Orders /\ OrderSound(read) /\ read.status = "pending"
  BY DEF Order!CommitCancel, CallersHold, CallerHolds, Placed
<1>2. OrderSound(orders[o]) /\ orders[o].account \in Order!Open \cup {None}
  BY <1>1 DEF OrdersSound
<1>3. OrderSound(new) /\ new.status = "cancelled" /\ new.account = orders[o].account
  BY <1>1, <1>2, FlushOfCancel
<1>4. /\ orders' = [orders EXCEPT ![o] = new]
      /\ caller' = [caller EXCEPT ![c] = Order!Resting]
      /\ UNCHANGED <<rules, brokerAccounts, orderInstances, killed, halted>>
  BY DEF Order!CommitCancel, Order!Answered, Order!Goes
<1> HIDE DEF new
<1>5. /\ DOMAIN orders' = Orders /\ orders'[o] = new
      /\ \A x \in Orders \ {o} : orders'[x] = orders[x]
  BY <1>1, <1>4 DEF OrderShapes
<1>6. Placed' = Placed
  BY <1>1, <1>3, <1>5 DEF Placed, OrderSound, OrdersApart
<1>7. /\ DOMAIN caller' = Requests /\ caller'[c] = Order!Resting
      /\ \A d \in Requests \ {c} : CallerHolds(d)'
  BY <1>4, <1>6, OtherCallersHold
<1>8. CallerHolds(c)'
  BY <1>7 DEF CallerHolds, Order!Stage, Order!Resting
<1>9. OrderShapes' /\ CallersHold'
  BY <1>4, <1>5, <1>7, <1>8 DEF OrderShapes, CallersHold
<1>10. \A x \in Placed : orders'[x] \in {orders[x], new}
  BY <1>5 DEF Placed
<1>11. OrdersSound'
  BY <1>2, <1>3, <1>4, <1>5, <1>6, <1>10 DEF OrdersSound, Order!Open, OrderSound, Placed
<1>12. KilledCancelled' /\ HaltedStopped'
  BY <1>3, <1>4, <1>6, <1>10 DEF KilledCancelled, HaltedStopped
<1>13. QED
  BY <1>9, <1>11, <1>12

\* A kill switch finds every order that is not cancelled: they are all pending.
LEMMA KillSwitchOrdersKeeps ==
    ASSUME OrdersApart, OrderInv, NEW c \in Requests, Order!KillSwitchOrders(c)
    PROVE  OrderInv'
<1> USE DEF OrderInv
<1> DEFINE found == {o \in Orders : orders[o] # None /\ Order!HaltsOrder(orders[o].status)}
           new == [at |-> "kill", orders |-> [o \in found |-> orders[o]], open |-> Order!OpenOrders]
<1>1. /\ caller' = [caller EXCEPT ![c] = new]
      /\ UNCHANGED <<orders, rules, brokerAccounts, orderInstances, killed, halted>>
  BY DEF Order!KillSwitchOrders, Order!Goes
<1>2. \A o \in Placed : OrderSound(orders[o]) /\ orders[o].status \in {"pending", "cancelled"}
  BY DEF OrdersSound, OrderSound, OrderRow
<1>3. /\ found \subseteq Placed
      /\ \A o \in found : OrderSound(orders[o]) /\ orders[o].status = "pending"
      /\ Order!OpenOrders \subseteq found
  BY <1>2 DEF Placed, Order!HaltsOrder, Order!OpenOrders
<1>4. /\ new.at = "kill" /\ DOMAIN new.orders = found /\ new.open = Order!OpenOrders
      /\ \A o \in found : new.orders[o] = orders[o]
  OBVIOUS
<1> HIDE DEF new, found
<1>5. Placed' = Placed
  BY <1>1 DEF Placed
<1>6. /\ DOMAIN caller' = Requests /\ caller'[c] = new
      /\ \A d \in Requests \ {c} : CallerHolds(d)'
  BY <1>1, <1>5, OtherCallersHold
<1>7. CallerHolds(c)'
  BY <1>3, <1>4, <1>5, <1>6 DEF CallerHolds, Order!Stage, OrderSound
<1>8. OrderShapes' /\ CallersHold'
  BY <1>1, <1>6, <1>7 DEF OrderShapes, CallersHold
<1>9. OrdersSound' /\ KilledCancelled' /\ HaltedStopped'
  BY <1>1, <1>5 DEF OrdersSound, KilledCancelled, HaltedStopped, Order!Open, OrderSound
<1>10. QED
  BY <1>8, <1>9

\* The instances are read after the orders, which it keeps.
LEMMA KillSwitchInstancesKeeps ==
    ASSUME OrdersApart, OrderInv, NEW c \in Requests, Order!KillSwitchInstances(c)
    PROVE  OrderInv'
<1> USE DEF OrderInv
<1> DEFINE new == [at |-> "halt", orders |-> caller[c].orders, open |-> caller[c].open,
                   instances |-> {i \in Instances : orderInstances[i] = "running"}]
<1>1. /\ caller' = [caller EXCEPT ![c] = new]
      /\ caller[c].at = "kill"
      /\ UNCHANGED <<orders, rules, brokerAccounts, orderInstances, killed, halted>>
  BY DEF Order!KillSwitchInstances, Order!Goes, Order!Stage
<1>2. /\ new.at = "halt" /\ new.orders = caller[c].orders /\ new.open = caller[c].open
      /\ new.instances \subseteq Instances
  OBVIOUS
<1> HIDE DEF new
<1>3. Placed' = Placed
  BY <1>1 DEF Placed
<1>4. /\ DOMAIN caller' = Requests /\ caller'[c] = new
      /\ \A d \in Requests \ {c} : CallerHolds(d)'
  BY <1>1, <1>3, OtherCallersHold
<1>5. CallerHolds(c)
  BY DEF CallersHold
<1>6. CallerHolds(c)'
  BY <1>1, <1>2, <1>3, <1>4, <1>5 DEF CallerHolds, Order!Stage, OrderSound
<1>7. OrderShapes' /\ CallersHold'
  BY <1>1, <1>4, <1>6 DEF OrderShapes, CallersHold
<1>8. OrdersSound' /\ KilledCancelled' /\ HaltedStopped'
  BY <1>1, <1>3 DEF OrdersSound, KilledCancelled, HaltedStopped, Order!Open, OrderSound
<1>9. QED
  BY <1>7, <1>8

\* Its commit cancels all it found, over whatever cancellations have made of them.
LEMMA CommitKillSwitchKeeps ==
    ASSUME OrdersApart, OrderInv, NEW c \in Requests, Order!CommitKillSwitch(c)
    PROVE  OrderInv'
<1> USE DEF OrderInv
<1> DEFINE found == caller[c].orders
           stopped == caller[c].instances
<1>1. /\ DOMAIN found \subseteq Placed
      /\ \A o \in DOMAIN found : OrderSound(found[o]) /\ found[o].status = "pending"
      /\ caller[c].open \subseteq DOMAIN found
      /\ stopped \subseteq Instances
  BY DEF Order!CommitKillSwitch, CallersHold, CallerHolds, Order!Stage
<1>2. /\ orders' = [o \in Orders |->
             IF o \in DOMAIN found
             THEN Order!Flush(orders[o], found[o], [found[o] EXCEPT !.status = "cancelled"])
             ELSE orders[o]]
      /\ orderInstances' =
           [i \in Instances |-> IF i \in stopped THEN "stopped" ELSE orderInstances[i]]
      /\ killed' = killed \cup caller[c].open
      /\ halted' = halted \cup stopped
      /\ caller' = [caller EXCEPT ![c] = Order!Resting]
      /\ UNCHANGED <<rules, brokerAccounts>>
  BY DEF Order!CommitKillSwitch, Order!Answered, Order!Goes
<1>3. \A o \in DOMAIN found : /\ OrderSound(orders'[o]) /\ orders'[o].status = "cancelled"
                              /\ orders'[o].account = orders[o].account
  <2>1. TAKE o \in DOMAIN found
  <2>2. /\ o \in Orders /\ OrderSound(orders[o])
        /\ OrderSound(found[o]) /\ found[o].status = "pending"
    BY <1>1 DEF OrdersSound, Placed
  <2>3. orders'[o] = Order!Flush(orders[o], found[o], [found[o] EXCEPT !.status = "cancelled"])
    BY <1>2, <2>2
  <2>4. QED
    BY <2>2, <2>3, FlushOfKill
<1>4. \A o \in Orders \ DOMAIN found : orders'[o] = orders[o]
  BY <1>2
<1>5. Placed' = Placed
  BY <1>1, <1>3, <1>4 DEF Placed, OrderSound, OrdersApart
<1>6. /\ DOMAIN caller' = Requests /\ caller'[c] = Order!Resting
      /\ \A d \in Requests \ {c} : CallerHolds(d)'
  BY <1>2, <1>5, OtherCallersHold
<1>7. CallerHolds(c)'
  BY <1>6 DEF CallerHolds, Order!Stage, Order!Resting
<1>8. OrderShapes' /\ CallersHold'
  BY <1>2, <1>6, <1>7 DEF OrderShapes, CallersHold
<1>9. OrdersSound'
  <2>1. SUFFICES ASSUME NEW o \in Placed
                 PROVE  OrderSound(orders'[o]) /\ orders'[o].account \in Order!Open \cup {None}
    BY <1>2, <1>5 DEF OrdersSound, Order!Open, OrderSound
  <2>2. OrderSound(orders[o]) /\ orders[o].account \in Order!Open \cup {None} /\ o \in Orders
    BY DEF OrdersSound, Placed
  <2>3. QED
    BY <1>3, <1>4, <2>2
<1>10. KilledCancelled'
  BY <1>1, <1>2, <1>3, <1>4, <1>5 DEF KilledCancelled, Placed
<1>11. HaltedStopped'
  BY <1>1, <1>2 DEF HaltedStopped
<1>12. QED
  BY <1>8, <1>9, <1>10, <1>11

\* A request of an instance endpoint touches no order, and is answered for by its user.
LEMMA InstanceKeeps ==
    ASSUME OrdersApart, OrderInv, NEW c \in Requests,
           Order!ChangeInstance(c) \/ Order!CommitInstance(c)
    PROVE  OrderInv'
<1> USE DEF OrderInv
<1>1. UNCHANGED <<orders, rules, brokerAccounts, killed>>
  BY DEF Order!ChangeInstance, Order!CommitInstance
<1>2. PICK record : /\ caller' = [caller EXCEPT ![c] = record]
                    /\ record.at \in {"change", "idle"}
  <2>1. CASE Order!ChangeInstance(c)
    <3>1. \E i \in Instances, to \in {"running", "paused", "stopped"} :
            caller' = [caller EXCEPT ![c] = [at |-> "change", instance |-> i, to |-> to]]
      BY <2>1, Zenon DEF Order!ChangeInstance, Order!Goes
    <3>2. \A i, to : [at |-> "change", instance |-> i, to |-> to].at = "change"
      OBVIOUS
    <3>3. QED
      BY <3>1, <3>2, Zenon
  <2>2. CASE Order!CommitInstance(c)
    <3>1. caller' = [caller EXCEPT ![c] = Order!Resting]
      BY <2>2 DEF Order!CommitInstance, Order!Goes, Order!Answered
    <3>2. Order!Resting.at = "idle"
      BY DEF Order!Resting
    <3>3. QED
      BY <3>1, <3>2, Zenon
  <2>3. QED
    BY <2>1, <2>2
<1>3. Placed' = Placed
  BY <1>1 DEF Placed
<1>4. /\ DOMAIN caller' = Requests /\ caller'[c] = record
      /\ \A d \in Requests \ {c} : CallerHolds(d)'
  BY <1>2, <1>3, OtherCallersHold
<1>5. CallerHolds(c)'
  BY <1>2, <1>4 DEF CallerHolds, Order!Stage
<1>6. DOMAIN orderInstances' = Instances
  BY DEF Order!ChangeInstance, Order!CommitInstance, OrderShapes
<1>7. OrderShapes' /\ CallersHold'
  BY <1>1, <1>4, <1>5, <1>6 DEF OrderShapes, CallersHold
<1>8. OrdersSound' /\ KilledCancelled'
  BY <1>1, <1>3 DEF OrdersSound, KilledCancelled, Order!Open, OrderSound
<1>9. HaltedStopped'
  <2>1. CASE Order!ChangeInstance(c)
    BY <2>1 DEF Order!ChangeInstance, HaltedStopped
  <2>2. CASE Order!CommitInstance(c)
    <3>1. /\ orderInstances' = [orderInstances EXCEPT ![caller[c].instance] = caller[c].to]
          /\ halted' = halted \ {caller[c].instance}
      BY <2>2 DEF Order!CommitInstance
    <3>2. \A i \in Instances \ {caller[c].instance} : orderInstances'[i] = orderInstances[i]
      BY <3>1 DEF OrderShapes
    <3>3. QED
      BY <3>1, <3>2 DEF HaltedStopped
  <2>3. QED
    BY <2>1, <2>2
<1>10. QED
  BY <1>7, <1>8, <1>9

\* Rules, and new accounts, are in no order.
LEMMA RulesKeep ==
    ASSUME OrdersApart, OrderInv,
           Order!CreateRiskRule \/ Order!DeleteRiskRule \/ Order!CreateBrokerAccount
    PROVE  OrderInv'
<1> USE DEF OrderInv
<1>1. UNCHANGED <<orders, orderInstances, caller, killed, halted>>
  BY DEF Order!CreateRiskRule, Order!DeleteRiskRule, Order!CreateBrokerAccount
<1>2. DOMAIN brokerAccounts' = BrokerAccounts /\ Order!Open \subseteq Order!Open'
  BY DEF Order!CreateRiskRule, Order!DeleteRiskRule, Order!CreateBrokerAccount, OrderShapes,
     Order!Open
<1>3. Placed' = Placed
  BY <1>1 DEF Placed
<1>4. OrderShapes' /\ OrdersSound' /\ KilledCancelled' /\ HaltedStopped'
  BY <1>1, <1>2, <1>3 DEF OrderShapes, OrdersSound, KilledCancelled, HaltedStopped, OrderSound
<1>5. CallersHold'
  BY <1>1, <1>3, NoCallerMoves
<1>6. QED
  BY <1>4, <1>5

\* Deleting an account takes it out of its orders, and of no copy.
LEMMA DeleteBrokerAccountKeeps ==
    ASSUME OrdersApart, OrderInv, Order!DeleteBrokerAccount
    PROVE  OrderInv'
<1> USE DEF OrderInv
<1>1. PICK a \in Order!Open :
        /\ brokerAccounts' = [brokerAccounts EXCEPT ![a] = "deleted"]
        /\ orders' = [o \in Orders |->
               IF orders[o] # None /\ orders[o].account = a
               THEN [orders[o] EXCEPT !.account = None] ELSE orders[o]]
  BY DEF Order!DeleteBrokerAccount
<1>2. UNCHANGED <<orderInstances, caller, killed, halted>>
  BY DEF Order!DeleteBrokerAccount
<1>3. Order!Open' = Order!Open \ {a}
  BY <1>1 DEF Order!Open, OrderShapes
<1>4. \A o \in Placed :
        /\ OrderSound(orders'[o]) /\ orders'[o].status = orders[o].status
        /\ orders'[o].account \in Order!Open' \cup {None}
  <2>1. TAKE o \in Placed
  <2>2. OrderSound(orders[o]) /\ orders[o].account \in Order!Open \cup {None} /\ o \in Orders
    BY DEF OrdersSound, Placed
  <2>3. CASE orders[o].account = a
    <3>1. orders'[o] = [orders[o] EXCEPT !.account = None]
      BY <1>1, <2>2, <2>3 DEF Placed
    <3>2. QED
      BY <2>2, <3>1 DEF OrderSound, OrderRow
  <2>4. CASE orders[o].account # a
    BY <1>1, <1>3, <2>2, <2>4
  <2>5. QED
    BY <2>3, <2>4
<1>5. Placed' = Placed
  BY <1>1, <1>4 DEF Placed, OrderSound, OrdersApart
<1>6. OrderShapes'
  BY <1>1, <1>2 DEF OrderShapes
<1>7. OrdersSound'
  BY <1>4, <1>5 DEF OrdersSound, OrderSound
<1>8. KilledCancelled' /\ HaltedStopped'
  BY <1>2, <1>4, <1>5 DEF KilledCancelled, HaltedStopped
<1>9. CallersHold'
  BY <1>2, <1>5, NoCallerMoves
<1>10. QED
  BY <1>6, <1>7, <1>8, <1>9

\* Every step, of any action, keeps the invariant.
LEMMA OrderSteps == ASSUME OrdersApart, OrderInv, [Order!OrderStep]_(Order!ovars) PROVE OrderInv'
<1>1. CASE UNCHANGED Order!ovars
  BY <1>1 DEF Order!ovars, OrderInv, OrderShapes, OrdersSound, CallersHold, CallerHolds,
     KilledCancelled, HaltedStopped, Placed, Order!Open, OrderSound, Order!Stage
<1>2. CASE Order!CreateOrder \/ Order!CreateRiskRule \/ Order!DeleteRiskRule
           \/ Order!CreateBrokerAccount \/ Order!DeleteBrokerAccount
  BY <1>2, CreateOrderKeeps, RulesKeep, DeleteBrokerAccountKeeps
<1>3. ASSUME NEW c \in Requests,
             \/ Order!CancelOrder(c) \/ Order!CommitCancel(c)
             \/ Order!KillSwitchOrders(c) \/ Order!KillSwitchInstances(c)
             \/ Order!CommitKillSwitch(c)
             \/ Order!ChangeInstance(c) \/ Order!CommitInstance(c)
      PROVE  OrderInv'
  BY <1>3, CancelOrderKeeps, CommitCancelKeeps, KillSwitchOrdersKeeps,
     KillSwitchInstancesKeeps, CommitKillSwitchKeeps, InstanceKeeps
<1>4. QED
  BY <1>1, <1>2, <1>3 DEF Order!OrderStep

-----------------------------------------------------------------------------
(* Instances: what is proved of them in InstanceDeskProofs.                 *)

\* The proof about the instance desk, and the desk's definitions as it sees them.
InstanceP == INSTANCE InstanceDeskProofs WITH NoPosition <- None, request <- instanceRequest

\* Both count as FiniteSets does.
LEMMA InstanceCardinality ==
    \A S : Instance!Cardinality(S) = Cardinality(S) /\ InstanceP!Cardinality(S) = Cardinality(S)
BY DEF Instance!Cardinality, InstanceP!Cardinality, Cardinality

\* Both mean the same.
LEMMA InstanceSame ==
    /\ Instance!Init = InstanceP!Init
    /\ Instance!ivars = InstanceP!ivars
    /\ Instance!Next = InstanceP!Next
    /\ Instance!OrdersAccounted = InstanceP!OrdersAccounted
    /\ Instance!NoOrphans = InstanceP!NoOrphans
<1>1. Instance!Init = InstanceP!Init
  BY DEF Instance!Init, InstanceP!Init, Instance!Idle, InstanceP!Idle
<1>2. Instance!ivars = InstanceP!ivars
  BY DEF Instance!ivars, InstanceP!ivars
<1>3. Instance!Next = InstanceP!Next
  <2>1. Instance!CreateInstance = InstanceP!CreateInstance
    BY DEF Instance!CreateInstance, InstanceP!CreateInstance, Instance!Present,
       InstanceP!Present, Instance!Idle, InstanceP!Idle
  <2>2. Instance!ConnectBroker = InstanceP!ConnectBroker
    BY DEF Instance!ConnectBroker, InstanceP!ConnectBroker
  <2>3. Instance!DisconnectBroker = InstanceP!DisconnectBroker
    BY DEF Instance!DisconnectBroker, InstanceP!DisconnectBroker
  <2>4. Instance!Restart = InstanceP!Restart
    BY InstanceCardinality DEF Instance!Restart, InstanceP!Restart, Instance!Idle,
       InstanceP!Idle
  <2>5. ASSUME NEW r PROVE Instance!Handle(r) = InstanceP!Handle(r)
    BY DEF Instance!Handle, InstanceP!Handle, Instance!Free, InstanceP!Free, Instance!Idle,
       InstanceP!Idle, Instance!LifeCycle, InstanceP!LifeCycle, Instance!Present,
       InstanceP!Present, Instance!Outcomes, InstanceP!Outcomes, Instance!StartInstance,
       InstanceP!StartInstance, Instance!PauseInstance, InstanceP!PauseInstance,
       Instance!ResumeInstance, InstanceP!ResumeInstance, Instance!StopInstance,
       InstanceP!StopInstance, Instance!PauseLive, InstanceP!PauseLive, Instance!ResumeLive,
       InstanceP!ResumeLive, Instance!StopLive, InstanceP!StopLive, Instance!DeleteInstance,
       InstanceP!DeleteInstance, Instance!Set, InstanceP!Set
  <2>6. ASSUME NEW r PROVE Instance!Commit(r) = InstanceP!Commit(r)
    BY DEF Instance!Commit, InstanceP!Commit, Instance!LifeCycle, InstanceP!LifeCycle,
       Instance!Cascade, InstanceP!Cascade, Instance!Flush, InstanceP!Flush, Instance!Ends,
       InstanceP!Ends, Instance!Idle, InstanceP!Idle
  <2>7. ASSUME NEW r PROVE Instance!Candle(r) = InstanceP!Candle(r)
    BY DEF Instance!Candle, InstanceP!Candle, Instance!Free, InstanceP!Free, Instance!Idle,
       InstanceP!Idle, Instance!Present, InstanceP!Present
  <2>8. ASSUME NEW r PROVE Instance!CandleTrades(r) = InstanceP!CandleTrades(r)
    BY DEF Instance!CandleTrades, InstanceP!CandleTrades, Instance!Accepted,
       InstanceP!Accepted, Instance!Ends, InstanceP!Ends, Instance!Idle, InstanceP!Idle
  <2>9. ASSUME NEW r PROVE Instance!ExecuteLiveTrade(r) = InstanceP!ExecuteLiveTrade(r)
    BY DEF Instance!ExecuteLiveTrade, InstanceP!ExecuteLiveTrade, Instance!Free,
       InstanceP!Free, Instance!Idle, InstanceP!Idle, Instance!Accepted, InstanceP!Accepted
  <2>10. ASSUME NEW r PROVE Instance!TradeReads(r) = InstanceP!TradeReads(r)
    BY DEF Instance!TradeReads, InstanceP!TradeReads
  <2>11. ASSUME NEW r PROVE Instance!TradeCommits(r) = InstanceP!TradeCommits(r)
    BY DEF Instance!TradeCommits, InstanceP!TradeCommits, Instance!Ends, InstanceP!Ends,
       Instance!Idle, InstanceP!Idle
  <2>12. ASSUME NEW r PROVE Instance!ExitAllPositions(r) = InstanceP!ExitAllPositions(r)
    BY DEF Instance!ExitAllPositions, InstanceP!ExitAllPositions, Instance!Free,
       InstanceP!Free, Instance!Idle, InstanceP!Idle, Instance!Present, InstanceP!Present
  <2>13. ASSUME NEW r PROVE Instance!ExitsPlaced(r) = InstanceP!ExitsPlaced(r)
    BY InstanceCardinality DEF Instance!ExitsPlaced, InstanceP!ExitsPlaced, Instance!Accepted,
       InstanceP!Accepted, Instance!Ends, InstanceP!Ends, Instance!Idle, InstanceP!Idle
  <2>14. QED
    BY <2>1, <2>2, <2>3, <2>4, <2>5, <2>6, <2>7, <2>8, <2>9, <2>10, <2>11, <2>12, <2>13
       DEF Instance!Next, InstanceP!Next
<1>4. Instance!OrdersAccounted = InstanceP!OrdersAccounted
  BY InstanceCardinality DEF Instance!OrdersAccounted, InstanceP!OrdersAccounted
<1>5. Instance!NoOrphans = InstanceP!NoOrphans
  BY DEF Instance!NoOrphans, InstanceP!NoOrphans
<1>6. QED
  BY <1>1, <1>2, <1>3, <1>4, <1>5

\* The action of InstanceDesk!StoppedStaysStopped.
InstanceStay ==
    \A i \in Instance!Present :
         (instances[i].status = "stopped" /\ i \in Instance!Present'
            /\ instances'[i].status = "running") =>
            \E r \in Requests :
              ~Instance!Free(r) /\ Instance!Free(r)' /\ Instance!MeansRunning(r)
                /\ instanceRequest[r].on = i

-----------------------------------------------------------------------------
(* The desks take these steps.                                              *)

\* A step of the desks is one of the desk that works, and none of the others.
LEMMA DesksStep ==
    ASSUME [Next]_vars
    PROVE  /\ [Strategy!StrategyStep]_(Strategy!svars)
           /\ [Instance!Next]_(Instance!ivars)
           /\ [Paper!PaperStep]_(Paper!pvars)
           /\ [Order!OrderStep]_(Order!ovars)
           /\ [Note!NotifyStep]_(Note!nvars)
           /\ [Saved!RepositoryStep]_(Saved!rvars)
<1> USE DEF strategyVars, instanceVars, paperVars, orderVars, noteVars, savedVars,
            Strategy!svars, Instance!ivars, Paper!pvars, Order!ovars, Note!nvars, Saved!rvars
<1>1. CASE StrategyDeskWorks
  BY <1>1 DEF StrategyDeskWorks
<1>2. CASE InstanceDeskWorks
  BY <1>2 DEF InstanceDeskWorks
<1>3. CASE PaperDeskWorks
  BY <1>3 DEF PaperDeskWorks
<1>4. CASE OrderDeskWorks
  BY <1>4 DEF OrderDeskWorks
<1>5. CASE NotificationsWork
  BY <1>5 DEF NotificationsWork
<1>6. CASE RepositoryWorks
  BY <1>6 DEF RepositoryWorks
<1>7. CASE AccountsWork \/ MfaWorks \/ PasswordsWork \/ UNCHANGED vars
  BY <1>7 DEF AccountsWork, MfaWorks, PasswordsWork, vars
<1>8. QED
  BY <1>1, <1>2, <1>3, <1>4, <1>5, <1>6, <1>7 DEF Next

\* The steps of the instances as the module of their own sees them.
LEMMA InstanceDeskStep == ASSUME [Next]_vars PROVE [InstanceP!Next]_(InstanceP!ivars)
BY DesksStep, InstanceSame DEF Instance!ivars, InstanceP!ivars

\* The constants are what the lemmas need.
LEMMA DeskConstants ==
    /\ StrategyOK /\ NoteOK /\ SavedOK /\ OrdersApart /\ InstanceP!Distinct
<1>1. StrategyOK
  BY Finite, Absences, Contents DEF StrategyOK
<1>2. NoteOK /\ SavedOK
  BY Finite, Absences, Contents DEF NoteOK, NoteRow, SavedOK, PositionRow
<1>3. OrdersApart
  BY Numbers, Absences DEF OrdersApart, OrderRow
<1>4. InstanceP!Distinct
  BY Finite, Numbers, Absences DEF InstanceP!Distinct, InstanceP!IsFiniteSet, IsFiniteSet,
     InstanceP!Instance, InstanceP!Position,
     InstanceP!Status, Instance!Instance, Instance!Position, Instance!Status
<1>5. QED
  BY <1>1, <1>2, <1>3, <1>4

\* The inductive invariants of the desks.
DesksInv ==
    /\ StrategyInv
    /\ AssignInv
    /\ InstanceP!IInv
    /\ PaperInv
    /\ BooksInv
    /\ OrderInv
    /\ NoteInv
    /\ SavedInv

\* Every step keeps them.
LEMMA DesksKeep == DesksInv /\ [Next]_vars => DesksInv'
<1> SUFFICES ASSUME DesksInv, [Next]_vars PROVE DesksInv'
  OBVIOUS
<1> USE DesksStep, DeskConstants DEF DesksInv
<1>1. StrategyInv' /\ AssignInv'
  BY StrategySteps, AssignSteps
<1>2. InstanceP!IInv'
  BY InstanceDeskStep, InstanceP!StepKeeps
<1>3. PaperInv' /\ BooksInv' /\ NoteInv' /\ SavedInv'
  BY PaperSteps, BooksSteps, NoteSteps, SavedSteps
<1>4. OrderInv'
  BY OrderSteps
<1>5. QED
  BY <1>1, <1>2, <1>3, <1>4

\* They hold in the first state.
LEMMA DesksStart == Init => DesksInv
BY DeskConstants, StrategyStarts, AssignStarts, InstanceSame, InstanceP!InitFits, PaperStarts,
   BooksStart,
   OrderStarts, NoteStarts, SavedStarts DEF Init, DesksInv

\* They hold always.
LEMMA DesksInductive == Spec => []DesksInv
BY DesksStart, DesksKeep, PTL DEF Spec

\* Every order at the broker is recorded, will be, or belongs to a request that failed after
\* the broker had it; and a position has its instance.
THEOREM EveryOrderAccounted == Spec => []OrdersAccounted
<1>1. DesksInv => OrdersAccounted
  BY InstanceSame DEF DesksInv, OrdersAccounted, InstanceP!IInv
<1>2. QED
  BY <1>1, DesksInductive, PTL

\* A strategy is live only if an administrator approved it or set it live.
THEOREM OnlyVouchedGoLive == Spec => []LiveWasVouched
<1>1. StrategyInv => LiveWasVouched
  BY DEF StrategyInv, RowsVouched, Trusted, LiveWasVouched, Strategy!LiveWasVouched,
         Strategy!Existing
<1>2. QED
  BY <1>1, DesksInductive, PTL DEF DesksInv

\* Whatever a kill switch stopped stays stopped.
THEOREM KillSwitchIsObeyed == Spec => []KillSwitchHolds
<1>1. OrderInv => KillSwitchHolds
  BY DEF OrderInv, KillSwitchHolds, Order!KillSwitchHolds, OrdersSound, KilledCancelled,
         HaltedStopped, Placed, OrderSound
<1>2. QED
  BY <1>1, DesksInductive, PTL DEF DesksInv

\* What the row of a paper instance says never claims more than its positions and trades bear
\* out, and a position is closed no more often than requests overlapped.
THEOREM BooksAreBalanced == Spec => []BooksBalance
<1>1. QED
  BY BooksBalanced, DesksInductive, PTL DEF DesksInv

\* A notification goes the way that was preferred while it was on its way, and what was read
\* stays read.
THEOREM PreferencesAreFollowed == Spec => []NotifiedAsPreferred
<1>1. NoteInv => NotifiedAsPreferred
  BY NotePreferred DEF NotifiedAsPreferred
<1>2. QED
  BY <1>1, DesksInductive, PTL DEF DesksInv

\* Duplicates of a position or of an assignment are as many as requests that raced between
\* look-up and insert, and no more.
THEOREM NoMoreThanRaced == Spec => []DuplicatesRaced
<1>1. \A S : Saved!Cardinality(S) = Cardinality(S)
  BY DEF Saved!Cardinality, Cardinality
<1>2. SavedInv => Saved!DuplicatesRaced
  BY <1>1 DEF SavedInv, Saved!DuplicatesRaced
<1>3. DesksInv => DuplicatesRaced
  BY <1>2, DeskConstants, AssignBounds DEF DesksInv, DuplicatesRaced
<1>4. QED
  BY <1>3, DesksInductive, PTL

\* What was ended comes back only by a request that gives it another status itself, and a closed
\* paper position by none, whatever copies of the rows from before are still committed.
THEOREM EndsAreKept == Spec => EndedStaysEnded
<1>1. DesksInv /\ [Next]_vars => [KilledStays]_(Strategy!svars)
  BY DesksStep, DeskConstants, StrategySteps DEF DesksInv
<1>2. DesksInv /\ [Next]_vars => [ClosedStays]_(Paper!pvars)
  BY DesksStep, PaperSteps DEF DesksInv
<1>3. DesksInv /\ [Next]_vars => [InstanceP!StoppedStay]_(Instance!ivars)
  BY InstanceDeskStep, DesksStep, DeskConstants, InstanceP!StepWakes DEF DesksInv
<1>4. [InstanceP!StoppedStay]_(Instance!ivars) => [InstanceStay]_(Instance!ivars)
  BY DEF InstanceP!StoppedStay, InstanceStay, InstanceP!Present, Instance!Present,
         InstanceP!Free, Instance!Free, InstanceP!Idle, Instance!Idle,
         InstanceP!MeansRunning, Instance!MeansRunning
<1>5. QED
  BY <1>1, <1>2, <1>3, <1>4, DesksInductive, PTL
     DEF Spec, EndedStaysEnded, Strategy!KilledStaysStopped, Paper!ClosedForGood,
         Instance!StoppedStaysStopped, KilledStays, ClosedStays, InstanceStay

-----------------------------------------------------------------------------
(* The accounts take theirs.                                                *)

\* A step of the desks is one of the accounts, of the second factor, of the password
\* resets, or none of them.
LEMMA AccountDesksStep ==
    ASSUME [Next]_vars
    PROVE  /\ [Account!Next]_(Account!avars)
           /\ [Factor!MfaStep]_(Factor!fvars)
           /\ [Password!PasswordStep]_(Password!pvars)
<1>1. CASE AccountsWork
  BY <1>1 DEF AccountsWork, factorVars, Factor!fvars, Password!pvars
<1>2. CASE MfaWorks
  BY <1>2 DEF MfaWorks, accountVars, Account!avars, Password!pvars
<1>3. CASE PasswordsWork
  BY <1>3 DEF PasswordsWork, accountVars, Account!avars, Factor!fvars
<1>4. CASE \/ StrategyDeskWorks \/ InstanceDeskWorks \/ PaperDeskWorks \/ OrderDeskWorks
           \/ NotificationsWork \/ RepositoryWorks \/ UNCHANGED vars
  <2>1. UNCHANGED <<accountVars, factorVars>>
    BY <1>4 DEF StrategyDeskWorks, InstanceDeskWorks, PaperDeskWorks, OrderDeskWorks,
       NotificationsWork, RepositoryWorks, vars
  <2>2. QED
    BY <2>1 DEF accountVars, factorVars, Account!avars, Factor!fvars, Password!pvars
<1>5. QED
  BY <1>1, <1>2, <1>3, <1>4 DEF Next

\* The constants are what the lemmas need.
LEMMA AccountConstants ==
    AccountsOK /\ None \notin Secrets /\ None \notin Tokens /\ IsFiniteSet(Requests)
BY Absences, Numbers, Finite DEF AccountsOK, SessionRow

\* The inductive invariants of the three.
LEMMA AccountsInductive == Spec => [](AccountInv /\ FactorInv /\ PasswordInv)
<1>1. Init => AccountInv /\ FactorInv /\ PasswordInv
  BY AccountStarts, FactorStarts, PasswordStarts, AccountConstants DEF Init
<1>2. AccountInv /\ FactorInv /\ PasswordInv /\ [Next]_vars
        => (AccountInv /\ FactorInv /\ PasswordInv)'
  BY AccountDesksStep, AccountConstants, AccountSteps, FactorSteps, PasswordSteps
<1>3. QED
  BY <1>1, <1>2, PTL DEF Spec

\* The rows of the sessions that a suspension found open are closed, and stay closed while the
\* account is suspended, whatever logins, revocations, decisions and clean-ups overlap.
THEOREM EndedSessionsStayEnded == Spec => []SessionsEnd
<1>1. AccountInv => SessionsEnd
  BY AccountEndsSessions DEF SessionsEnd
<1>2. QED
  BY <1>1, AccountsInductive, PTL

\* The status of an account changes only to what an administrator decided of the row he had
\* read, and never by the copies that logins write back or by an address that is taken.
THEOREM NoDecisionIsUndone == Spec => DecisionsStand
<1>1. AccountInv /\ [Next]_vars => [Deciding]_(Account!avars)
  BY AccountDesksStep, AccountConstants, AccountSteps
<1>2. QED
  BY <1>1, AccountsInductive, PTL DEF Spec, DecisionsStand, Account!DecisionsStand, Deciding

\* A factor in use stays in use with a secret its user was shown; the token in the row is the
\* last one told and has set no password; and a password is set only with a token told, no more
\* often with one than requests overlap, whatever setups and resets race.
THEOREM SecretsAreTheOnesTold == Spec => SecretSettles
<1>1. FactorInv /\ [Next]_vars => [SecretStays]_(Factor!fvars)
  BY AccountDesksStep, AccountConstants, FactorSteps
<1>2. PasswordInv /\ [Next]_vars => [TokenStays]_(Password!pvars)
  BY AccountDesksStep, AccountConstants, PasswordSteps
<1>3. QED
  BY <1>1, <1>2, AccountsInductive, PTL
     DEF Spec, SecretSettles, Factor!SecretSettles, Password!TokensSettle, SecretStays,
         TokenStays
====
